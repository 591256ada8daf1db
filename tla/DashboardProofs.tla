--------------------------- MODULE DashboardProofs ---------------------------
(***************************************************************************)
(* Proofs about Dashboard, the plan of Planning and the projection of      *)
(* Ledger, for every plan and every session of edits.                      *)
(***************************************************************************)
EXTENDS DashboardInvariants, WellFoundedInduction, TLAPS

-----------------------------------------------------------------------------
(***************************************************************************)
(* Numbers: the least of a set of them, and what that gives, induction over *)
(* a set and a function that is defined by recursion.                      *)
(***************************************************************************)

\* The order of the natural numbers, as the library writes it.
LEMMA Less == \A m, n \in Nat : m < n => <<m, n>> \in OpToRel(<, Nat)
  BY Zenon DEF OpToRel

\* A set of numbers has a least one.
LEMMA Least ==
  ASSUME NEW T, T \subseteq Nat, T # {}
  PROVE  \E n \in T : \A m \in T : n <= m
<1>1. PICK n \in T : \A m \in T : ~(<<m, n>> \in OpToRel(<, Nat))
  BY NatLessThanWellFounded, WFMin, Zenon
<1>2. \A m \in T : ~(m < n)
  BY <1>1, Less, Zenon
<1> QED BY <1>2

\* A set that has 0, and the next of every number it has, has all.
LEMMA Induction ==
  ASSUME NEW T, 0 \in T, \A n \in Nat \cap T : n + 1 \in T
  PROVE  Nat \subseteq T
<1> DEFINE F == Nat \ T
<1> SUFFICES ASSUME F # {} PROVE FALSE
  OBVIOUS
<1>1. PICK n \in F : \A m \in F : n <= m
  BY Least
<1> QED BY <1>1

\* g is the function up to n.
UpTo(n, g, start, step) ==
  g[0] = start /\ \A m \in 0 .. n - 1 : g[m + 1] = step[m][g[m]]

GoesOn(f, start, step) ==
  f[0] = start /\ \A n \in Nat : f[n + 1] = step[n][f[n]]

\* There is a function that goes on from the value before.
LEMMA Recursion ==
  ASSUME NEW S, NEW start, start \in S, NEW step, step \in [Nat -> [S -> S]]
  PROVE  \E f \in [Nat -> S] : GoesOn(f, start, step)
<1> DEFINE T == {n \in Nat : \E g \in [0 .. n -> S] : UpTo(n, g, start, step)}
<1>1. Nat \subseteq T
  <2>1. 0 \in T
    <3> DEFINE g == [m \in 0 .. 0 |-> start]
    <3>1. g \in [0 .. 0 -> S] /\ UpTo(0, g, start, step)
      BY DEF UpTo
    <3> QED BY <3>1
  <2>2. ASSUME NEW n \in Nat \cap T PROVE n + 1 \in T
    <3>1. PICK g \in [0 .. n -> S] : UpTo(n, g, start, step)
      OBVIOUS
    <3> DEFINE h == [m \in 0 .. n + 1 |-> IF m <= n THEN g[m] ELSE step[n][g[n]]]
    <3>2. step[n][g[n]] \in S
      OBVIOUS
    <3>3. h \in [0 .. n + 1 -> S]
      BY <3>2
    <3>4. UpTo(n + 1, h, start, step)
      BY <3>1 DEF UpTo
    <3> QED BY <3>3, <3>4
  <2> HIDE DEF T
  <2> QED BY <2>1, <2>2, Induction
<1> DEFINE U == {m \in Nat : \A n1, n2 \in Nat :
                   \A g \in [0 .. n1 -> S], h \in [0 .. n2 -> S] :
                     UpTo(n1, g, start, step) /\ UpTo(n2, h, start, step) /\ m <= n1 /\ m <= n2
                       => g[m] = h[m]}
<1>2. Nat \subseteq U
  <2>1. 0 \in U
    BY DEF UpTo
  <2>2. ASSUME NEW m \in Nat \cap U PROVE m + 1 \in U
    <3> SUFFICES ASSUME NEW n1 \in Nat, NEW n2 \in Nat,
                        NEW g \in [0 .. n1 -> S], NEW h \in [0 .. n2 -> S],
                        UpTo(n1, g, start, step), UpTo(n2, h, start, step),
                        m + 1 <= n1, m + 1 <= n2
                 PROVE  g[m + 1] = h[m + 1]
      OBVIOUS
    <3>1. g[m] = h[m]
      <4>1. m \in U /\ m <= n1 /\ m <= n2
        OBVIOUS
      <4> QED BY <4>1, Zenon
    <3>2. g[m + 1] = step[m][g[m]] /\ h[m + 1] = step[m][h[m]]
      BY DEF UpTo
    <3> QED BY <3>1, <3>2
  <2> HIDE DEF U
  <2> QED BY <2>1, <2>2, Induction
<1> DEFINE G(n) == CHOOSE g \in [0 .. n -> S] : UpTo(n, g, start, step)
           f == [n \in Nat |-> G(n)[n]]
<1>3. \A n \in Nat : G(n) \in [0 .. n -> S] /\ UpTo(n, G(n), start, step)
  BY <1>1
<1> HIDE DEF G
<1>4. \A n \in Nat : f[n] \in S
  BY <1>3
<1>5. f[0] = start
  BY <1>3 DEF UpTo
<1>6. ASSUME NEW n \in Nat PROVE f[n + 1] = step[n][f[n]]
  <2>1. G(n + 1)[n + 1] = step[n][G(n + 1)[n]]
    <3>1. UpTo(n + 1, G(n + 1), start, step)
      BY <1>3
    <3> QED BY <3>1 DEF UpTo
  <2>2. G(n + 1)[n] = G(n)[n]
    <3>1. G(n + 1) \in [0 .. n + 1 -> S] /\ G(n) \in [0 .. n -> S]
      BY <1>3
    <3>2. UpTo(n + 1, G(n + 1), start, step) /\ UpTo(n, G(n), start, step)
      BY <1>3
    <3>3. n \in U /\ n + 1 \in Nat /\ n <= n + 1 /\ n <= n
      <4> HIDE DEF U
      <4> QED BY <1>2
    <3> QED BY <3>1, <3>2, <3>3, Zenon
  <2> QED BY <2>1, <2>2
<1> QED BY <1>4, <1>5, <1>6 DEF GoesOn

\* So there is one on 0 .. N.
LEMMA RecursionUpTo ==
  ASSUME NEW S, NEW start, start \in S, NEW step, step \in [Nat -> [S -> S]], NEW N \in Nat
  PROVE  \E h \in [0 .. N -> S] : UpTo(N, h, start, step)
<1> PICK f \in [Nat -> S] : GoesOn(f, start, step)
  BY Recursion
<1> DEFINE h == [n \in 0 .. N |-> f[n]]
<1>1. ASSUME NEW n \in 0 .. N - 1 PROVE h[n + 1] = step[n][h[n]]
  BY DEF GoesOn
<1>2. h \in [0 .. N -> S] /\ h[0] = start
  BY DEF GoesOn
<1> QED BY <1>1, <1>2 DEF UpTo

\* What holds at 0 and goes on, holds up to N.
LEMMA InductionUpTo ==
  ASSUME NEW N \in Nat, NEW h, NEW S, h[0] \in S,
         \A n \in 1 .. N : h[n - 1] \in S => h[n] \in S
  PROVE  \A n \in 0 .. N : h[n] \in S
<1> DEFINE T == {n \in Nat : n <= N => h[n] \in S}
<1>1. 0 \in T
  OBVIOUS
<1>2. ASSUME NEW n \in Nat \cap T PROVE n + 1 \in T
  <2> SUFFICES ASSUME n + 1 <= N PROVE h[n + 1] \in S
    OBVIOUS
  <2>1. n + 1 \in 1 .. N /\ (n + 1) - 1 = n /\ h[n] \in S
    OBVIOUS
  <2> QED BY <2>1
<1> HIDE DEF T
<1>3. Nat \subseteq T
  BY <1>1, <1>2, Induction
<1> QED BY <1>3 DEF T

-----------------------------------------------------------------------------
(***************************************************************************)
(* Sequences of whatever: what is in them is in a set, that of their       *)
(* elements.                                                               *)
(***************************************************************************)

ElementsOf(s) == {s[i] : i \in DOMAIN s}

\* A sequence is a function on 1 .. Len.
LEMMA Sequence ==
  ASSUME NEW s, IsSequence(s)
  PROVE  Len(s) \in Nat /\ DOMAIN s = 1 .. Len(s)
  BY DEF IsSequence

\* A sequence over any set is one.
LEMMA SequenceOver ==
  ASSUME NEW S, NEW s \in Seq(S)
  PROVE  IsSequence(s)
<1>1. Len(s) \in Nat /\ s \in [1 .. Len(s) -> S]
  OBVIOUS
<1>2. s \in [1 .. Len(s) -> ElementsOf(s)]
  BY <1>1 DEF ElementsOf
<1> QED BY <1>1, <1>2 DEF IsSequence, ElementsOf

\* So is one with an element more, which is the last.
LEMMA Appended ==
  ASSUME NEW s, IsSequence(s), NEW e
  PROVE  /\ IsSequence(Append(s, e)) /\ Len(Append(s, e)) = Len(s) + 1
         /\ DOMAIN Append(s, e) = 1 .. Len(s) + 1
         /\ \A i \in DOMAIN s : Append(s, e)[i] = s[i]
         /\ Append(s, e)[Len(s) + 1] = e
<1> DEFINE S == ElementsOf(s) \union {e}
<1>1. s \in Seq(S) /\ e \in S
  BY DEF IsSequence, ElementsOf
<1> HIDE DEF S
<1>2. Append(s, e) \in Seq(S)
  BY <1>1
<1>3. IsSequence(Append(s, e))
  BY <1>2, SequenceOver
<1> QED BY <1>1, <1>2, <1>3, Sequence

\* And one without its first element.
LEMMA Tailed ==
  ASSUME NEW s, IsSequence(s), s # << >>
  PROVE  /\ IsSequence(Tail(s)) /\ Len(Tail(s)) = Len(s) - 1 /\ Head(s) = s[1]
         /\ 1 \in DOMAIN s /\ DOMAIN Tail(s) = 1 .. Len(s) - 1
         /\ \A i \in DOMAIN Tail(s) : i + 1 \in DOMAIN s /\ Tail(s)[i] = s[i + 1]
<1> DEFINE S == ElementsOf(s)
<1>1. s \in Seq(S) /\ Len(s) \in Nat \ {0} /\ DOMAIN s = 1 .. Len(s)
  BY DEF IsSequence, ElementsOf
<1> HIDE DEF S
<1>2. Tail(s) \in Seq(S)
  BY <1>1
<1>3. IsSequence(Tail(s))
  BY <1>2, SequenceOver
<1> QED BY <1>1, <1>2, <1>3, Sequence

\* A function on 1 .. n is a sequence.
LEMMA Listed ==
  ASSUME NEW n \in Nat, NEW s, DOMAIN s = 1 .. n, s = [i \in 1 .. n |-> s[i]]
  PROVE  IsSequence(s) /\ Len(s) = n
<1>1. s \in [1 .. n -> ElementsOf(s)]
  BY DEF ElementsOf
<1>2. s \in Seq(ElementsOf(s))
  BY <1>1
<1> QED BY <1>2 DEF IsSequence, ElementsOf

\* The elements at the positions.
LEMMA KeptElements ==
  ASSUME NEW s, IsSequence(s), NEW K
  PROVE  /\ IsSequence(Kept(s, K))
         /\ \A i \in DOMAIN Kept(s, K) : \E j \in K \cap DOMAIN s : Kept(s, K)[i] = s[j]
<1> DEFINE N == Len(s)
           E == {s[j] : j \in K \cap DOMAIN s}
           S == Seq(E)
           Body(g, n) == IF n = 0 THEN << >>
                         ELSE IF n \in K THEN Append(g[n - 1], s[n]) ELSE g[n - 1]
           upTo == CHOOSE g : g = [n \in 0 .. N |-> Body(g, n)]
           step == [n \in Nat |-> [x \in S |->
                      IF n + 1 \in K \cap DOMAIN s THEN Append(x, s[n + 1]) ELSE x]]
<1>1. N \in Nat /\ DOMAIN s = 1 .. N
  BY DEF IsSequence
<1>2. Kept(s, K) = upTo[N]
  BY DEF Kept
<1>3. /\ << >> \in S
      /\ \A n \in 1 .. N, x \in S : n \in K => Append(x, s[n]) \in S
  <2>1. \A n \in 1 .. N : n \in K => s[n] \in E
    BY <1>1
  <2> HIDE DEF E
  <2> QED BY <2>1
<1> HIDE DEF S
<1>4. step \in [Nat -> [S -> S]]
  BY <1>1, <1>3
<1> HIDE DEF step
<1>5. PICK h \in [0 .. N -> S] : UpTo(N, h, << >>, step)
  BY <1>1, <1>3, <1>4, RecursionUpTo
<1>6. ASSUME NEW n \in 0 .. N PROVE h[n] = Body(h, n)
  <2>1. CASE n = 0
    BY <1>5, <2>1 DEF UpTo
  <2>2. CASE n # 0
    <3>1. n \in 1 .. N /\ n - 1 \in Nat /\ (n - 1) + 1 = n /\ n - 1 \in 0 .. N
      BY <1>1, <2>2
    <3>2. step[n - 1][h[n - 1]] = IF n \in K THEN Append(h[n - 1], s[n]) ELSE h[n - 1]
      BY <1>1, <3>1 DEF step
    <3>3. n - 1 \in 0 .. N - 1
      BY <1>1, <2>2
    <3>4. h[(n - 1) + 1] = step[n - 1][h[n - 1]]
      BY <1>5, <3>3 DEF UpTo
    <3> QED BY <2>2, <3>1, <3>2, <3>4
  <2> QED BY <2>1, <2>2
<1>7. h = [n \in 0 .. N |-> Body(h, n)]
  <2> HIDE DEF Body
  <2> QED BY <1>6
<1>8. upTo = [n \in 0 .. N |-> Body(upTo, n)]
  <2> HIDE DEF Body
  <2> QED BY <1>7
<1> HIDE DEF upTo
<1>9. \A n \in 0 .. N : upTo[n] = Body(upTo, n)
  <2> HIDE DEF Body
  <2> QED BY <1>8
<1>10. upTo[0] \in S
  BY <1>1, <1>3, <1>9
<1>11. ASSUME NEW n \in 1 .. N, upTo[n - 1] \in S PROVE upTo[n] \in S
  <2>1. upTo[n] = IF n \in K THEN Append(upTo[n - 1], s[n]) ELSE upTo[n - 1]
    BY <1>1, <1>9
  <2> QED BY <1>3, <1>11, <2>1
<1>12. \A n \in 0 .. N : upTo[n] \in S
  BY <1>1, <1>10, <1>11, InductionUpTo, Zenon
<1>13. IsSequence(Kept(s, K)) /\ \A i \in DOMAIN Kept(s, K) : Kept(s, K)[i] \in E
  <2>1. Kept(s, K) \in S
    BY <1>1, <1>2, <1>12
  <2> QED BY <2>1, SequenceOver DEF S
<1> QED BY <1>13

-----------------------------------------------------------------------------
(***************************************************************************)
(* The projection: dates and numbers.                                      *)
(***************************************************************************)

\* The day after a date is the next of its month or the first of another.
LEMMA Tomorrow ==
  ASSUME NEW d, IsDate(d)
  PROVE  /\ IsDate(NextDay(d))
         /\ d.day < DaysIn(d.year, d.month)
              => NextDay(d) = [year |-> d.year, month |-> d.month, day |-> d.day + 1]
         /\ ~(d.day < DaysIn(d.year, d.month)) => NextDay(d).day = 1
<1>1. d.year \in Int /\ d.month \in 1 .. 12 /\ d.day \in 1 .. 31
      /\ d.day <= DaysIn(d.year, d.month)
      /\ d = [year |-> d.year, month |-> d.month, day |-> d.day]
  BY DEF IsDate
<1>2. \A y \in Int, m \in 1 .. 12 : DaysIn(y, m) \in 28 .. 31
  BY DEF DaysIn
<1>3. CASE d.day < DaysIn(d.year, d.month)
  <2>1. NextDay(d) = [year |-> d.year, month |-> d.month, day |-> d.day + 1]
    BY <1>1, <1>3 DEF NextDay
  <2> QED BY <1>1, <1>2, <1>3, <2>1 DEF IsDate
<1>4. CASE ~(d.day < DaysIn(d.year, d.month))
  <2>1. \/ NextDay(d) = [year |-> d.year, month |-> d.month + 1, day |-> 1] /\ d.month < 12
        \/ NextDay(d) = [year |-> d.year + 1, month |-> 1, day |-> 1]
    BY <1>1, <1>4 DEF NextDay
  <2> QED BY <1>1, <1>2, <1>4, <2>1 DEF IsDate
<1> QED BY <1>3, <1>4

\* The date so many days after a date.
LEMMA AddedDays ==
  ASSUME NEW d, IsDate(d)
  PROVE  /\ AddDays(d, 0) = d
         /\ \A n \in Nat : IsDate(AddDays(d, n)) /\ AddDays(d, n + 1) = NextDay(AddDays(d, n))
<1> DEFINE step == [n \in Nat |-> [x \in Dates |-> NextDay(x)]]
<1>1. d \in Dates
  BY DEF Dates, IsDate
<1>2. step \in [Nat -> [Dates -> Dates]]
  <2>1. \A x \in Dates : NextDay(x) \in Dates
    BY Tomorrow DEF Dates, IsDate
  <2> QED BY <2>1
<1>3. \A n \in Nat, x \in Dates : step[n][x] = NextDay(x)
  OBVIOUS
<1> HIDE DEF step
<1>4. PICK f \in [Nat -> Dates] : GoesOn(f, d, step)
  BY <1>1, <1>2, Recursion
<1>5. ASSUME NEW n \in Nat PROVE AddDays(d, n) = f[n]
  <2> DEFINE Body(g, m) == IF m = 0 THEN d ELSE NextDay(g[m - 1])
             after == CHOOSE g : g = [m \in 0 .. n |-> Body(g, m)]
             h == [m \in 0 .. n |-> f[m]]
  <2>1. AddDays(d, n) = after[n]
    BY DEF AddDays
  <2>2. ASSUME NEW m \in 0 .. n PROVE h[m] = Body(h, m)
    <3>1. CASE m = 0
      BY <1>4, <3>1 DEF GoesOn
    <3>2. CASE m # 0
      <4>1. m - 1 \in Nat /\ m - 1 \in 0 .. n /\ (m - 1) + 1 = m
        BY <3>2
      <4>2. f[(m - 1) + 1] = step[m - 1][f[m - 1]] /\ f[m - 1] \in Dates
        BY <1>4, <4>1 DEF GoesOn
      <4>3. step[m - 1][f[m - 1]] = NextDay(f[m - 1])
        BY <1>3, <4>1, <4>2
      <4> QED BY <3>2, <4>1, <4>2, <4>3
    <3> QED BY <3>1, <3>2
  <2>3. h = [m \in 0 .. n |-> Body(h, m)]
    <3> HIDE DEF Body
    <3> QED BY <2>2
  <2>4. after = [m \in 0 .. n |-> Body(after, m)]
    <3> HIDE DEF Body
    <3> QED BY <2>3
  <2> HIDE DEF after
  <2>5. \A m \in 0 .. n : after[m] = Body(after, m)
    <3> HIDE DEF Body
    <3> QED BY <2>4
  <2> DEFINE T == {m \in Nat : m <= n => after[m] = f[m]}
  <2>6. 0 \in T
    BY <1>4, <2>5 DEF GoesOn
  <2>7. ASSUME NEW m \in Nat \cap T PROVE m + 1 \in T
    <3> SUFFICES ASSUME m + 1 <= n PROVE after[m + 1] = f[m + 1]
      OBVIOUS
    <3>1. m + 1 \in 0 .. n /\ m + 1 # 0 /\ (m + 1) - 1 = m /\ after[m] = f[m]
      OBVIOUS
    <3>2. after[m + 1] = NextDay(f[m])
      BY <2>5, <3>1
    <3>3. f[m] \in Dates /\ f[m + 1] = step[m][f[m]]
      BY <1>4 DEF GoesOn
    <3>4. step[m][f[m]] = NextDay(f[m])
      BY <1>3, <3>3
    <3> QED BY <3>2, <3>3, <3>4
  <2> HIDE DEF T
  <2>8. Nat \subseteq T
    BY <2>6, <2>7, Induction
  <2> QED BY <2>1, <2>8 DEF T
<1>6. ASSUME NEW n \in Nat
      PROVE  IsDate(AddDays(d, n)) /\ AddDays(d, n + 1) = NextDay(AddDays(d, n))
  <2>1. AddDays(d, n) = f[n] /\ AddDays(d, n + 1) = f[n + 1] /\ f[n] \in Dates
    BY <1>4, <1>5
  <2>2. f[n + 1] = NextDay(f[n])
    BY <1>3, <1>4, <2>1 DEF GoesOn
  <2> QED BY <2>1, <2>2 DEF Dates
<1>7. AddDays(d, 0) = d
  BY <1>4, <1>5 DEF GoesOn
<1> QED BY <1>6, <1>7

\* Division leaves a remainder below the divisor.
LEMMA Divided ==
  ASSUME NEW a \in Nat, NEW d \in Nat, d > 0, NEW q, q = a \div d, NEW r, r = a % d
  PROVE  q \in Nat /\ r \in Nat /\ r < d /\ a = d * q + r
<1>1. q \in Nat
  OBVIOUS
<1>2. r \in Nat /\ r < d
  OBVIOUS
<1>3. a = d * q + r
  BY <1>1, <1>2
<1> QED BY <1>1, <1>2, <1>3

\* A rounded number is a number.
LEMMA RoundedInt ==
  ASSUME NEW n \in Int, NEW d \in Nat \ {0}
  PROVE  Round(n, d) \in Int
  BY DEF Round

\* What is rounded to the even neighbour is off by no more than a half.
LEMMA HalfToEven ==
  ASSUME NEW n \in Int, NEW d \in Nat \ {0}
  PROVE  /\ BankersRound(n, d) \in Int
         /\ 2 * Magnitude(n - BankersRound(n, d) * d) <= d
         /\ -d <= 2 * n => BankersRound(n, d) >= 0
<1> DEFINE a == Magnitude(n)
           q == a \div d
           r == a % d
           s == IF 2 * r > d \/ (2 * r = d /\ q % 2 = 1) THEN q + 1 ELSE q
<1>1. a \in Nat /\ (n >= 0 => a = n) /\ (n < 0 => a = -n)
  BY DEF Magnitude
<1> HIDE DEF a
<1>2. q \in Nat /\ r \in Nat /\ r < d /\ a = d * q + r
  BY <1>1, Divided
<1>3. BankersRound(n, d) = IF n < 0 THEN -s ELSE s
  BY DEF BankersRound, a
<1> HIDE DEF q, r
<1>4. q % 2 \in {0, 1} /\ (q = 0 => q % 2 = 0)
  BY <1>2
<1>5. s \in Nat /\ (s = q \/ s = q + 1)
  BY <1>2, <1>4
<1>6. (q + 1) * d = d * q + d /\ q * d = d * q
  BY <1>2
<1>7. s * d \in Int /\ s * d - a <= d - r /\ a - s * d = IF s = q THEN r ELSE r - d
  BY <1>1, <1>2, <1>5, <1>6
<1>8. 2 * Magnitude(a - s * d) <= d
  <2>1. CASE s = q
    <3>1. 2 * r <= d
      BY <1>2, <1>4, <2>1
    <3> QED BY <1>2, <1>7, <2>1, <3>1 DEF Magnitude
  <2>2. CASE s = q + 1
    <3>1. 2 * r >= d
      BY <1>2, <1>4, <2>2
    <3> QED BY <1>2, <1>7, <2>2, <3>1 DEF Magnitude
  <2> QED BY <1>5, <2>1, <2>2
<1>9. CASE n >= 0
  BY <1>1, <1>3, <1>5, <1>8, <1>9
<1>10. CASE n < 0
  <2>1. BankersRound(n, d) = -s
    BY <1>3, <1>10
  <2>2. (-s) * d = -(s * d)
    BY <1>5
  <2>3. n - (-s) * d = -(a - s * d)
    BY <1>1, <1>7, <1>10, <2>2
  <2>4. Magnitude(-(a - s * d)) = Magnitude(a - s * d)
    BY <1>1, <1>7 DEF Magnitude
  <2>5. ASSUME -d <= 2 * n PROVE s = 0
    <3>1. 2 * a <= d
      BY <1>1, <1>10, <2>5
    <3>2. q = 0
      <4>1. CASE q >= 1
        <5>1. d * q >= d
          BY <1>2, <4>1
        <5> QED BY <1>1, <1>2, <3>1, <5>1
      <4> QED BY <1>2, <4>1
    <3>3. d * q = 0
      BY <3>2
    <3>4. 2 * r <= d
      BY <1>1, <1>2, <3>1, <3>3
    <3> QED BY <1>2, <1>4, <3>2, <3>4
  <2> QED BY <1>5, <1>8, <2>1, <2>3, <2>4, <2>5
<1> QED BY <1>9, <1>10

\* The sums up to every position.
Sums(ns, s) ==
  /\ s \in [0 .. Len(ns) -> Int]
  /\ s[0] = 0
  /\ \A n \in 1 .. Len(ns) : s[n] = s[n - 1] + ns[n]
  /\ Total(ns) = s[Len(ns)]

\* A sequence of numbers has them.
LEMMA Summed ==
  ASSUME NEW ns \in Seq(Int)
  PROVE  \E s : Sums(ns, s)
<1> DEFINE N == Len(ns)
           Body(g, n) == IF n = 0 THEN 0 ELSE g[n - 1] + ns[n]
           upTo == CHOOSE g : g = [n \in 0 .. N |-> Body(g, n)]
           step == [n \in Nat |-> [x \in Int |-> IF n + 1 \in 1 .. N THEN x + ns[n + 1] ELSE x]]
<1>1. N \in Nat /\ \A n \in 1 .. N : ns[n] \in Int
  OBVIOUS
<1>2. Total(ns) = upTo[N]
  BY DEF Total
<1> HIDE DEF N
<1>3. step \in [Nat -> [Int -> Int]]
  BY <1>1
<1> HIDE DEF step
<1>4. PICK h \in [0 .. N -> Int] : UpTo(N, h, 0, step)
  <2>1. 0 \in Int
    OBVIOUS
  <2> QED BY <1>1, <1>3, <2>1, RecursionUpTo, Zenon
<1>5. ASSUME NEW n \in 0 .. N PROVE h[n] = Body(h, n)
  <2>1. CASE n = 0
    BY <1>4, <2>1 DEF UpTo
  <2>2. CASE n # 0
    <3>1. n \in 1 .. N /\ n - 1 \in Nat /\ (n - 1) + 1 = n /\ n - 1 \in 0 .. N - 1
      BY <1>1, <2>2
    <3>2. step[n - 1][h[n - 1]] = h[n - 1] + ns[n]
      BY <1>1, <1>4, <3>1 DEF step
    <3>3. h[(n - 1) + 1] = step[n - 1][h[n - 1]]
      BY <1>4, <3>1 DEF UpTo
    <3> QED BY <2>2, <3>1, <3>2, <3>3
  <2> QED BY <2>1, <2>2
<1>6. h = [n \in 0 .. N |-> Body(h, n)]
  <2> HIDE DEF Body
  <2> QED BY <1>5
<1>7. upTo = [n \in 0 .. N |-> Body(upTo, n)]
  <2> HIDE DEF Body
  <2> QED BY <1>6
<1> HIDE DEF upTo
<1>8. DOMAIN upTo = 0 .. N /\ \A n \in 0 .. N : upTo[n] = Body(upTo, n)
  <2> HIDE DEF Body
  <2> QED BY <1>7
<1>9. upTo[0] \in Int
  BY <1>1, <1>8
<1>10. ASSUME NEW n \in 1 .. N, upTo[n - 1] \in Int PROVE upTo[n] \in Int
  <2>1. n \in 0 .. N /\ n # 0
    BY <1>1
  <2>2. upTo[n] = upTo[n - 1] + ns[n]
    BY <1>8, <2>1
  <2> QED BY <1>1, <1>10, <2>2
<1>11. \A n \in 0 .. N : upTo[n] \in Int
  BY <1>1, <1>9, <1>10, InductionUpTo, Zenon
<1>12. upTo \in [0 .. N -> Int]
  BY <1>7, <1>11
<1>13. upTo[0] = 0 /\ \A n \in 1 .. N : upTo[n] = upTo[n - 1] + ns[n]
  BY <1>1, <1>8
<1>14. Sums(ns, upTo)
  BY <1>2, <1>12, <1>13 DEF Sums, N
<1> QED BY <1>14

\* The sum of a sequence of numbers is one, and what is added to its first
\* number is added to the sum.
LEMMA SumFirst ==
  ASSUME NEW ns \in Seq(Int), NEW ms \in Seq(Int), Len(ms) = Len(ns), Len(ns) >= 1,
         NEW x \in Int, ms[1] = ns[1] + x, \A n \in 2 .. Len(ns) : ms[n] = ns[n]
  PROVE  Total(ms) \in Int /\ Total(ns) \in Int /\ Total(ms) = Total(ns) + x
<1> DEFINE N == Len(ns)
<1>1. N \in Nat /\ N >= 1 /\ \A n \in 1 .. N : ns[n] \in Int /\ ms[n] \in Int
  OBVIOUS
<1>2. PICK s : Sums(ns, s)
  BY Summed
<1>3. PICK t : Sums(ms, t)
  BY Summed
<1>4. s \in [0 .. N -> Int] /\ t \in [0 .. N -> Int] /\ s[0] = 0 /\ t[0] = 0
      /\ Total(ns) = s[N] /\ Total(ms) = t[N]
  BY <1>2, <1>3 DEF Sums
<1>5. \A n \in 1 .. N : s[n] = s[n - 1] + ns[n] /\ t[n] = t[n - 1] + ms[n]
  BY <1>2, <1>3 DEF Sums
<1> HIDE DEF N
<1> DEFINE T == {n \in Nat : n + 1 <= N => t[n + 1] = s[n + 1] + x}
<1>6. 0 \in T
  <2>1. 1 \in 1 .. N /\ 0 + 1 = 1 /\ 1 - 1 = 0
    BY <1>1
  <2>2. s[1] = ns[1] /\ t[1] = ms[1]
    BY <1>1, <1>4, <1>5, <2>1
  <2> QED BY <2>1, <2>2
<1>7. ASSUME NEW n \in Nat \cap T PROVE n + 1 \in T
  <2> SUFFICES ASSUME n + 2 <= N PROVE t[n + 2] = s[n + 2] + x
    BY <1>1
  <2>1. n + 2 \in 2 .. N /\ n + 2 \in 1 .. N /\ n + 1 \in 0 .. N /\ (n + 2) - 1 = n + 1
    BY <1>1
  <2>2. t[n + 1] = s[n + 1] + x
    BY <1>1
  <2>3. ms[n + 2] = ns[n + 2]
    BY <2>1 DEF N
  <2>4. s[n + 2] = s[n + 1] + ns[n + 2] /\ t[n + 2] = t[n + 1] + ms[n + 2]
    BY <1>5, <2>1
  <2>5. s[n + 1] \in Int /\ ns[n + 2] \in Int
    BY <1>1, <1>4, <2>1
  <2> QED BY <2>2, <2>3, <2>4, <2>5
<1> HIDE DEF T
<1>8. Nat \subseteq T
  BY <1>6, <1>7, Induction
<1>9. N - 1 \in T /\ (N - 1) + 1 = N
  BY <1>1, <1>8
<1> QED BY <1>1, <1>4, <1>9 DEF T

\* What is joined is built part by part.
Joins(g, parts, N, E) ==
  /\ g \in [0 .. N -> Seq(E)] /\ g[0] = << >> /\ Concatenated(parts) = g[N]
  /\ \A n \in 1 .. N : g[n] = g[n - 1] \o parts[n]

\* Every sequence of parts is joined that way.
LEMMA JoinedUpTo ==
  ASSUME NEW E, NEW N \in Nat, NEW parts, DOMAIN parts = 1 .. N, Len(parts) = N,
         \A n \in 1 .. N : parts[n] \in Seq(E)
  PROVE  \E g : Joins(g, parts, N, E)
<1> DEFINE S == Seq(E)
           Body(g, n) == IF n = 0 THEN << >> ELSE g[n - 1] \o parts[n]
           upTo == CHOOSE g : g = [n \in 0 .. N |-> Body(g, n)]
           step == [n \in Nat |-> [x \in S |-> IF n + 1 \in 1 .. N THEN x \o parts[n + 1] ELSE x]]
<1>1. << >> \in S /\ \A n \in 1 .. N, x \in S : x \o parts[n] \in S
  OBVIOUS
<1>2. Concatenated(parts) = upTo[N]
  BY DEF Concatenated
<1> HIDE DEF S
<1>3. step \in [Nat -> [S -> S]]
  BY <1>1
<1> HIDE DEF step
<1>4. PICK h \in [0 .. N -> S] : UpTo(N, h, << >>, step)
  BY <1>1, <1>3, RecursionUpTo, Zenon
<1>5. ASSUME NEW n \in 0 .. N PROVE h[n] = Body(h, n)
  <2>1. CASE n = 0
    BY <1>4, <2>1 DEF UpTo
  <2>2. CASE n # 0
    <3>1. n \in 1 .. N /\ n - 1 \in Nat /\ (n - 1) + 1 = n /\ n - 1 \in 0 .. N - 1
      BY <2>2
    <3>2. step[n - 1][h[n - 1]] = h[n - 1] \o parts[n]
      <4>1. h[n - 1] \in S
        BY <1>4, <3>1
      <4> QED BY <3>1, <4>1 DEF step
    <3>3. h[(n - 1) + 1] = step[n - 1][h[n - 1]]
      BY <1>4, <3>1 DEF UpTo
    <3> QED BY <2>2, <3>1, <3>2, <3>3
  <2> QED BY <2>1, <2>2
<1>6. h = [n \in 0 .. N |-> Body(h, n)]
  <2> HIDE DEF Body
  <2> QED BY <1>5
<1>7. upTo = [n \in 0 .. N |-> Body(upTo, n)]
  <2> HIDE DEF Body
  <2> QED BY <1>6
<1> HIDE DEF upTo
<1>8. DOMAIN upTo = 0 .. N /\ \A n \in 0 .. N : upTo[n] = Body(upTo, n)
  <2> HIDE DEF Body
  <2> QED BY <1>7
<1>9. upTo[0] = << >>
  <2>1. 0 \in 0 .. N
    OBVIOUS
  <2> QED BY <1>8, <2>1
<1>10. \A n \in 1 .. N : upTo[n] = upTo[n - 1] \o parts[n]
  <2>1. \A n \in 1 .. N : n \in 0 .. N /\ n # 0
    OBVIOUS
  <2> QED BY <1>8, <2>1
<1>11. \A n \in 1 .. N : upTo[n - 1] \in S => upTo[n] \in S
  BY <1>1, <1>10
<1>12. \A n \in 0 .. N : upTo[n] \in S
  BY <1>1, <1>9, <1>11, InductionUpTo, Zenon
<1>13. upTo = [n \in 0 .. N |-> upTo[n]]
  BY <1>7, <1>8
<1>14. upTo \in [0 .. N -> S]
  BY <1>12, <1>13, Zenon
<1>15. Joins(upTo, parts, N, E)
  BY <1>2, <1>9, <1>10, <1>14, Zenon DEF S, Joins
<1> QED BY <1>15

\* Sequences joined are a sequence of what is in them.
LEMMA Joined ==
  ASSUME NEW E, NEW N \in Nat, NEW parts, DOMAIN parts = 1 .. N, Len(parts) = N,
         \A n \in 1 .. N : parts[n] \in Seq(E)
  PROVE  Concatenated(parts) \in Seq(E)
<1>1. PICK g : Joins(g, parts, N, E)
  BY JoinedUpTo, Zenon
<1>2. g \in [0 .. N -> Seq(E)] /\ Concatenated(parts) = g[N]
  BY <1>1, Zenon DEF Joins
<1>3. N \in 0 .. N
  OBVIOUS
<1> QED BY <1>2, <1>3

\* The amount of a flow that grows every year is a whole number of cents.
LEMMA GrownInt ==
  ASSUME NEW flow, flow.amount \in Int, flow.growth \in Int, IsDate(flow.from), IsDate(date)
  PROVE  GrownAmount(flow) \in Int
<1> DEFINE N == FullYearsBetween(flow.from, date)
           S == Int \X (Nat \ {0})
           Body(g, n) == IF n = 0 THEN <<1, 1>>
                         ELSE <<g[n - 1][1] * (100 + flow.growth), g[n - 1][2] * 100>>
           power == CHOOSE g : g = [n \in 0 .. N |-> Body(g, n)]
           step == [n \in Nat |-> [x \in S |-> <<x[1] * (100 + flow.growth), x[2] * 100>>]]
<1>1. N \in Nat
  <2>1. /\ flow.from.year \in Int /\ flow.from.month \in Int /\ flow.from.day \in Int
        /\ date.year \in Int /\ date.month \in Int /\ date.day \in Int
    BY DEF IsDate
  <2> QED BY <2>1 DEF FullYearsBetween, Larger
<1>2. GrownAmount(flow) = Round(flow.amount * power[N][1], power[N][2])
  BY DEF GrownAmount
<1> HIDE DEF N
<1>3. <<1, 1>> \in S /\ \A x \in S : <<x[1] * (100 + flow.growth), x[2] * 100>> \in S
  OBVIOUS
<1>4. \A x \in S : x[1] \in Int /\ x[2] \in Nat /\ x[2] # 0
  OBVIOUS
<1> HIDE DEF S
<1>5. step \in [Nat -> [S -> S]]
  BY <1>3
<1>6. \A n \in Nat, x \in S : step[n][x] = <<x[1] * (100 + flow.growth), x[2] * 100>>
  OBVIOUS
<1> HIDE DEF step
<1>7. PICK h \in [0 .. N -> S] : UpTo(N, h, <<1, 1>>, step)
  BY <1>1, <1>3, <1>5, RecursionUpTo, Zenon
<1>8. ASSUME NEW n \in 0 .. N PROVE h[n] = Body(h, n)
  <2>1. CASE n = 0
    BY <1>7, <2>1 DEF UpTo
  <2>2. CASE n # 0
    <3>1. n - 1 \in Nat /\ (n - 1) + 1 = n /\ n - 1 \in 0 .. N - 1 /\ n - 1 \in 0 .. N
      BY <1>1, <2>2
    <3>2. step[n - 1][h[n - 1]] = <<h[n - 1][1] * (100 + flow.growth), h[n - 1][2] * 100>>
      BY <1>6, <1>7, <3>1
    <3>3. h[(n - 1) + 1] = step[n - 1][h[n - 1]]
      BY <1>7, <3>1 DEF UpTo
    <3> QED BY <2>2, <3>1, <3>2, <3>3
  <2> QED BY <2>1, <2>2
<1>9. h = [n \in 0 .. N |-> Body(h, n)]
  <2> HIDE DEF Body
  <2> QED BY <1>8
<1>10. power = [n \in 0 .. N |-> Body(power, n)]
  <2> HIDE DEF Body
  <2> QED BY <1>9
<1> HIDE DEF power
<1>11. DOMAIN power = 0 .. N /\ \A n \in 0 .. N : power[n] = Body(power, n)
  <2> HIDE DEF Body
  <2> QED BY <1>10
<1>12. power[0] \in S
  BY <1>1, <1>3, <1>11
<1>13. ASSUME NEW n \in 1 .. N, power[n - 1] \in S PROVE power[n] \in S
  <2>1. n \in 0 .. N /\ n # 0
    BY <1>1
  <2>2. power[n] = <<power[n - 1][1] * (100 + flow.growth), power[n - 1][2] * 100>>
    BY <1>11, <2>1
  <2> QED BY <1>3, <1>13, <2>2
<1>14. \A n \in 0 .. N : power[n] \in S
  BY <1>1, <1>12, <1>13, InductionUpTo, Zenon
<1>15. power[N] \in S
  BY <1>1, <1>14
<1>16. power[N][1] \in Int /\ power[N][2] \in Nat /\ power[N][2] # 0
  BY <1>4, <1>15
<1>17. flow.amount * power[N][1] \in Int /\ power[N][2] \in Nat \ {0}
  BY <1>16
<1> QED BY <1>2, <1>17, RoundedInt

-----------------------------------------------------------------------------
(***************************************************************************)
(* The plan of a projection: its rows, its flows, and its rows with what   *)
(* the flows write into them.                                              *)
(***************************************************************************)

\* What the rows of a plan have.
LEMMA RowsTyped ==
  ASSUME NEW p, Projectable(p)
  PROVE  /\ \A kind \in Kinds : Len(p[kind]) \in Nat /\ DOMAIN p[kind] = 1 .. Len(p[kind])
         /\ \A kind \in {"income", "expense"} : \A n \in DOMAIN p[kind] :
              LET row == p[kind][n] IN
              row.amount \in Int /\ row.every \in Frequencies /\ row.start \in Int
              /\ row.growth \in Int
         /\ \A n \in DOMAIN p.asset : LET row == p.asset[n] IN
              row.value \in Int /\ row.connected \in BOOLEAN /\ row.rate \in Int
              /\ row.units \in Int /\ row.price \in Int /\ row.recur \in Int
              /\ row.every \in Frequencies
         /\ \A n \in DOMAIN p.debt : LET row == p.debt[n] IN
              row.value \in Int /\ row.connected \in BOOLEAN /\ row.rate \in Int
              /\ row.pmt \in Int /\ row.extra \in Int /\ row.every \in Frequencies
              /\ row.extraEvery \in Frequencies /\ row.start \in Int
<1>1. \A x \in {"amount", "start", "growth", "value", "rate", "units", "price", "recur", "pmt",
                "extra"} : ValuesOf(x) = Int
  BY DEF ValuesOf
<1>2. \A x \in {"every", "extraEvery"} : ValuesOf(x) = Frequencies
  BY DEF ValuesOf
<1>3. ValuesOf("connected") = BOOLEAN
  BY DEF ValuesOf
<1>4. \A kind \in Kinds : IsRows(kind, p[kind])
  BY Zenon DEF Projectable
<1>5. \A kind \in Kinds : Len(p[kind]) \in Nat /\ DOMAIN p[kind] = 1 .. Len(p[kind])
  BY <1>4, Sequence DEF IsRows
<1>6. \A kind \in Kinds : \A n \in DOMAIN p[kind], x \in FieldsOf(kind) :
        p[kind][n][x] \in ValuesOf(x)
  BY <1>4, Zenon DEF IsRows, HasFields
<1>7. FieldsOf("income") = FlowFields /\ FieldsOf("expense") = FlowFields
      /\ FieldsOf("asset") = AssetFields /\ FieldsOf("debt") = DebtFields
  BY DEF FieldsOf
<1>8. "income" \in Kinds /\ "expense" \in Kinds /\ "asset" \in Kinds /\ "debt" \in Kinds
  BY DEF Kinds
<1>9. ASSUME NEW kind \in {"income", "expense"}, NEW n \in DOMAIN p[kind]
      PROVE  /\ p[kind][n].amount \in Int /\ p[kind][n].every \in Frequencies
             /\ p[kind][n].start \in Int /\ p[kind][n].growth \in Int
  <2>1. \A x \in FlowFields : p[kind][n][x] \in ValuesOf(x)
    BY <1>6, <1>7, <1>8
  <2>2. "amount" \in FlowFields /\ "every" \in FlowFields /\ "start" \in FlowFields
        /\ "growth" \in FlowFields
    BY DEF FlowFields
  <2> QED BY <1>1, <1>2, <2>1, <2>2
<1>10. ASSUME NEW n \in DOMAIN p.asset
       PROVE  /\ p.asset[n].value \in Int /\ p.asset[n].connected \in BOOLEAN
              /\ p.asset[n].rate \in Int /\ p.asset[n].units \in Int
              /\ p.asset[n].price \in Int /\ p.asset[n].recur \in Int
              /\ p.asset[n].every \in Frequencies
  <2>1. \A x \in AssetFields : p.asset[n][x] \in ValuesOf(x)
    BY <1>6, <1>7, <1>8
  <2>2. "value" \in AssetFields /\ "connected" \in AssetFields /\ "rate" \in AssetFields
        /\ "units" \in AssetFields /\ "price" \in AssetFields /\ "recur" \in AssetFields
        /\ "every" \in AssetFields
    BY DEF AssetFields
  <2> QED BY <1>1, <1>2, <1>3, <2>1, <2>2
<1>11. ASSUME NEW n \in DOMAIN p.debt
       PROVE  /\ p.debt[n].value \in Int /\ p.debt[n].connected \in BOOLEAN
              /\ p.debt[n].rate \in Int /\ p.debt[n].pmt \in Int /\ p.debt[n].extra \in Int
              /\ p.debt[n].every \in Frequencies /\ p.debt[n].extraEvery \in Frequencies
              /\ p.debt[n].start \in Int
  <2>1. \A x \in DebtFields : p.debt[n][x] \in ValuesOf(x)
    BY <1>6, <1>7, <1>8
  <2>2. "value" \in DebtFields /\ "connected" \in DebtFields /\ "rate" \in DebtFields
        /\ "pmt" \in DebtFields /\ "extra" \in DebtFields /\ "every" \in DebtFields
        /\ "extraEvery" \in DebtFields /\ "start" \in DebtFields
    BY DEF DebtFields
  <2> QED BY <1>1, <1>2, <1>3, <2>1, <2>2
<1> QED BY <1>5, <1>9, <1>10, <1>11

\* The flows of a plan have that.
LEMMA FlowsTyped ==
  ASSUME Projectable(plan)
  PROVE  /\ IsDate(ScenarioStart)
         /\ Len(RecurringFlows) \in Nat
         /\ \A n \in 1 .. Len(RecurringFlows) : GoodFlow(RecurringFlows[n])
<1> DEFINE F == {"income", "expense", "transfer", "debt_payment"}
           U == [kind : F, target : Int, amount : Int, every : Frequencies, start : Nat,
                 from : Dates, growth : Int, to : Int]
           G == {f \in U : /\ f.from = AddDays(ScenarioStart, f.start)
                           /\ f.kind = "transfer" => f.to \in Assets
                           /\ f.kind = "debt_payment" => f.to \in Debts}
<1>1. plan.checkpoint.day \in Nat /\ IsDate(plan.start)
  BY DEF Projectable, IsCheckpoint
<1>2. IsDate(ScenarioStart)
  BY <1>1, AddedDays DEF ScenarioStart
<1>3. \A n \in Nat : AddDays(ScenarioStart, n) \in Dates
  BY <1>2, AddedDays DEF Dates, IsDate
<1>4. \A row : row.start \in Int => StartDay(row) \in Nat
  BY <1>1 DEF StartDay, Larger
<1>5. /\ Len(plan.income) \in Nat /\ DOMAIN plan.income = 1 .. Len(plan.income)
      /\ Len(plan.expense) \in Nat /\ DOMAIN plan.expense = 1 .. Len(plan.expense)
      /\ Len(plan.asset) \in Nat /\ DOMAIN plan.asset = 1 .. Len(plan.asset)
      /\ Len(plan.debt) \in Nat /\ DOMAIN plan.debt = 1 .. Len(plan.debt)
  BY RowsTyped DEF Kinds
<1>6. ASSUME NEW kind \in F, NEW n \in Int, NEW amount \in Int, NEW every \in Frequencies,
             NEW start \in Nat, NEW growth \in Int, NEW to \in Int,
             kind = "transfer" => to \in Assets,
             kind = "debt_payment" => to \in Debts
      PROVE  Flow(kind, n, amount, every, start, growth, to) \in G
  <2>1. Flow(kind, n, amount, every, start, growth, to) \in U
    BY <1>3 DEF Flow
  <2> QED BY <2>1, <1>6 DEF Flow
<1> HIDE DEF G
<1>7. ASSUME NEW n \in 1 .. Len(plan.income)
      PROVE  Flow("income", n, plan.income[n].amount, plan.income[n].every,
                  StartDay(plan.income[n]), plan.income[n].growth, 0) \in G
  <2>1. plan.income[n].amount \in Int /\ plan.income[n].every \in Frequencies
        /\ plan.income[n].start \in Int /\ plan.income[n].growth \in Int
    BY <1>5, RowsTyped
  <2>2. StartDay(plan.income[n]) \in Nat
    BY <1>4, <2>1
  <2> QED BY <1>5, <1>6, <2>1, <2>2
<1>8. ASSUME NEW n \in 1 .. Len(plan.expense)
      PROVE  Flow("expense", n, plan.expense[n].amount, plan.expense[n].every,
                  StartDay(plan.expense[n]), Inflation(plan.expense[n]), 0) \in G
  <2>1. plan.expense[n].amount \in Int /\ plan.expense[n].every \in Frequencies
        /\ plan.expense[n].start \in Int /\ plan.expense[n].growth \in Int
    BY <1>5, RowsTyped
  <2>2. StartDay(plan.expense[n]) \in Nat
    BY <1>4, <2>1
  <2>3. Inflation(plan.expense[n]) \in Int
    BY <2>1 DEF Inflation, Projectable
  <2> QED BY <1>5, <1>6, <2>1, <2>2, <2>3
<1>9. ASSUME NEW n \in 1 .. Len(plan.asset) PROVE Contribution(n) \in Seq(G)
  <2>1. plan.asset[n].recur \in Int /\ plan.asset[n].every \in Frequencies
    BY <1>5, RowsTyped
  <2>2. n \in Assets
    BY DEF Assets
  <2>3. "transfer" \in F /\ n \in Int /\ "transfer" # "debt_payment"
    OBVIOUS
  <2>4. Flow("transfer", n, plan.asset[n].recur, plan.asset[n].every, 0, 0, n) \in G
    <3> HIDE DEF F
    <3> QED BY <1>6, <2>1, <2>2, <2>3
  <2> QED BY <2>4 DEF Contribution
<1>10. ASSUME NEW n \in 1 .. Len(plan.debt) PROVE Payments(n) \in Seq(G)
  <2>1. plan.debt[n].pmt \in Int /\ plan.debt[n].every \in Frequencies
        /\ plan.debt[n].extra \in Int /\ plan.debt[n].extraEvery \in Frequencies
        /\ plan.debt[n].start \in Int
    BY <1>5, RowsTyped
  <2>2. StartDay(plan.debt[n]) \in Nat
    BY <1>4, <2>1
  <2>3. Len(plan.asset) + n \in Debts /\ Len(plan.asset) + n \in Int
    <3>1. \A a, b \in Nat : n \in 1 .. b => a + n \in a + 1 .. a + b /\ a + n \in Int
      OBVIOUS
    <3>2. Len(plan.asset) + n \in Len(plan.asset) + 1 .. Len(plan.asset) + Len(plan.debt)
          /\ Len(plan.asset) + n \in Int
      BY <1>5, <3>1
    <3> QED BY <3>2 DEF Debts
  <2> DEFINE One == Flow("debt_payment", n, plan.debt[n].pmt, plan.debt[n].every,
                         StartDay(plan.debt[n]), 0, Len(plan.asset) + n)
             Two == Flow("debt_payment", n, plan.debt[n].extra, plan.debt[n].extraEvery,
                         StartDay(plan.debt[n]), 0, Len(plan.asset) + n)
  <2>4. One \in G
    BY <1>6, <2>1, <2>2, <2>3
  <2>5. Two \in G
    BY <1>6, <2>1, <2>2, <2>3
  <2>6. Payments(n) = (IF plan.debt[n].pmt > 0 THEN <<One>> ELSE << >>)
                      \o (IF plan.debt[n].extra > 0 THEN <<Two>> ELSE << >>)
    BY DEF Payments
  <2> HIDE DEF One, Two
  <2> QED BY <2>4, <2>5, <2>6
<1> DEFINE I == [n \in 1 .. Len(plan.income) |->
                   Flow("income", n, plan.income[n].amount, plan.income[n].every,
                        StartDay(plan.income[n]), plan.income[n].growth, 0)]
           X == [n \in 1 .. Len(plan.expense) |->
                   Flow("expense", n, plan.expense[n].amount, plan.expense[n].every,
                        StartDay(plan.expense[n]), Inflation(plan.expense[n]), 0)]
           C == [n \in 1 .. Len(plan.asset) |-> Contribution(n)]
           P == [n \in 1 .. Len(plan.debt) |-> Payments(n)]
<1>11. I \in Seq(G) /\ X \in Seq(G)
  BY <1>5, <1>7, <1>8
<1>12. Concatenated(C) \in Seq(G)
  <2>1. DOMAIN C = 1 .. Len(plan.asset) /\ Len(C) = Len(plan.asset)
        /\ \A n \in 1 .. Len(plan.asset) : C[n] \in Seq(G)
    BY <1>5, <1>9
  <2> HIDE DEF C
  <2> QED BY <1>5, <2>1, Joined
<1>13. Concatenated(P) \in Seq(G)
  <2>1. DOMAIN P = 1 .. Len(plan.debt) /\ Len(P) = Len(plan.debt)
        /\ \A n \in 1 .. Len(plan.debt) : P[n] \in Seq(G)
    BY <1>5, <1>10
  <2> HIDE DEF P
  <2> QED BY <1>5, <2>1, Joined
<1>14. RecurringFlows = I \o X \o Concatenated(C) \o Concatenated(P)
  BY DEF RecurringFlows
<1> HIDE DEF I, X, C, P
<1>15. RecurringFlows \in Seq(G)
  BY <1>11, <1>12, <1>13, <1>14
<1>16. \A f \in G : GoodFlow(f)
  BY DEF G, GoodFlow
<1>17. Len(RecurringFlows) \in Nat
       /\ \A n \in 1 .. Len(RecurringFlows) : RecurringFlows[n] \in G
  BY <1>15
<1> QED BY <1>2, <1>16, <1>17

\* What the flows into a node write into its row.
LEMMA FlowsIntoTyped ==
  ASSUME NEW a, \A kind \in Kinds : IsRows(kind, a[kind]), NEW edges, IsEdges(edges), NEW node
  PROVE  /\ InAMonth(a, FlowsInto(a, edges, node)) \in Int
         /\ Sum(a, FlowsInto(a, edges, node)) \in Int
         /\ RecurOf(FlowsInto(a, edges, node)) \in Frequencies
         /\ FlowsInto(a, edges, node) # << >> =>
              LET flows == FlowsInto(a, edges, node) IN
              flows[Len(flows)].freq \in Frequencies /\ AmountOf(flows[Len(flows)]) \in Int
<1> DEFINE flows == FlowsInto(a, edges, node)
           K == {i \in DOMAIN edges : edges[i].to = node /\ Counts(a, edges[i])}
<1>1. IsSequence(edges) /\ \A i \in DOMAIN edges : IsEdge(edges[i])
  BY DEF IsEdges
<1>2. /\ IsSequence(flows)
      /\ \A i \in DOMAIN flows : \E j \in K \cap DOMAIN edges : flows[i] = edges[j]
  <2>1. /\ IsSequence(Kept(edges, K))
        /\ \A i \in DOMAIN Kept(edges, K) : \E j \in K \cap DOMAIN edges :
             Kept(edges, K)[i] = edges[j]
    <3> HIDE DEF K
    <3> QED BY <1>1, KeptElements
  <2>2. flows = Kept(edges, K)
    BY DEF FlowsInto
  <2> HIDE DEF flows, K
  <2> QED BY <2>1, <2>2, Zenon
<1>3. \A i \in DOMAIN flows : IsEdge(flows[i]) /\ Counts(a, flows[i])
  BY <1>1, <1>2
<1> HIDE DEF flows
<1>4. DOMAIN flows = 1 .. Len(flows) /\ Len(flows) \in Nat
  BY <1>2, Sequence
<1>5. \A f \in Frequencies : PerMonth(f) \in Int
  BY DEF PerMonth, Frequencies
<1>6. ASSUME NEW i \in DOMAIN flows PROVE MonthlyFlow(a, flows[i]) \in Int
  <2>1. flows[i].amount \in Int /\ flows[i].freq \in Frequencies
    BY <1>3 DEF IsEdge
  <2>2. CASE flows[i].mode = "percent"
    <3> DEFINE row == a.income[flows[i].from[2]]
    <3>1. flows[i].from \in Nodes(a) /\ flows[i].from[1] = "income"
      BY <1>3, <2>2 DEF Counts
    <3>2. PICK kind \in Kinds : flows[i].from \in {kind} \X DOMAIN a[kind]
      BY <3>1 DEF Nodes
    <3>3. flows[i].from[2] \in DOMAIN a.income
      BY <3>1, <3>2
    <3>4. IsRows("income", a.income)
      BY DEF Kinds
    <3>5. HasFields(row, FlowFields)
      BY <3>3, <3>4 DEF IsRows, FieldsOf
    <3>6. row["amount"] \in ValuesOf("amount") /\ row["every"] \in ValuesOf("every")
      BY <3>5 DEF HasFields, FlowFields
    <3>7. row.amount \in Int /\ row.every \in Frequencies
      BY <3>6 DEF ValuesOf
    <3>8. MonthlyFlow(a, flows[i]) = row.amount * PerMonth(row.every) * flows[i].amount
      BY <2>2 DEF MonthlyFlow
    <3> HIDE DEF row
    <3>9. PerMonth(row.every) \in Int
      BY <1>5, <3>7
    <3> QED BY <2>1, <3>7, <3>8, <3>9
  <2>3. CASE flows[i].mode # "percent"
    <3>1. MonthlyFlow(a, flows[i]) = flows[i].amount * PerMonth(flows[i].freq) * 100
      BY <2>3 DEF MonthlyFlow, Monthly
    <3>2. PerMonth(flows[i].freq) \in Int
      BY <1>5, <2>1
    <3> QED BY <2>1, <3>1, <3>2
  <2> QED BY <2>2, <2>3
<1>7. InAMonth(a, flows) \in Int /\ Sum(a, flows) \in Int
  <2> DEFINE ns == [i \in DOMAIN flows |-> MonthlyFlow(a, flows[i])]
  <2>1. ns \in Seq(Int)
    BY <1>4, <1>6
  <2> HIDE DEF ns
  <2>2. PICK s : Sums(ns, s)
    BY <2>1, Summed
  <2>3. Len(ns) \in 0 .. Len(ns)
    BY <2>1
  <2>4. Total(ns) \in Int
    BY <2>2, <2>3 DEF Sums
  <2>5. InAMonth(a, flows) = Total(ns) /\ Sum(a, flows) = Round(Total(ns), MonthlyScale)
    BY DEF Sum, InAMonth, ns
  <2>6. MonthlyScale \in Nat \ {0}
    BY DEF MonthlyScale
  <2> QED BY <2>4, <2>5, <2>6, RoundedInt
<1>8. RecurOf(flows) \in Frequencies
  <2> DEFINE named == {i \in DOMAIN flows : flows[i].recur # "none"}
             T == {n \in Nat : \E i \in named : n = Len(flows) - i}
  <2>1. CASE named = {}
    BY <2>1 DEF RecurOf, Frequencies
  <2>2. CASE named # {}
    <3>1. PICK i0 \in named : TRUE
      BY <2>2
    <3>2. i0 \in 1 .. Len(flows)
      BY <1>4
    <3>3. Len(flows) - i0 \in T
      BY <1>4, <3>2
    <3>4. PICK n \in T : \A m \in T : n <= m
      BY <3>3, Least
    <3>5. PICK i \in named : n = Len(flows) - i
      OBVIOUS
    <3>6. ASSUME NEW j \in named PROVE j <= i
      <4>1. Len(flows) - j \in T /\ i \in 1 .. Len(flows) /\ j \in 1 .. Len(flows)
        BY <1>4
      <4>2. n <= Len(flows) - j
        BY <3>4, <4>1
      <4> QED BY <1>4, <3>5, <4>1, <4>2
    <3> HIDE DEF T
    <3>7. (CHOOSE x \in named : \A y \in named : y <= x) \in named
      BY <3>6
    <3>8. RecurOf(flows) = flows[CHOOSE x \in named : \A y \in named : y <= x].recur
      BY <2>2 DEF RecurOf
    <3>9. \A x \in named : flows[x].recur \in Frequencies
      BY <1>3 DEF IsEdge
    <3> HIDE DEF named
    <3> QED BY <3>7, <3>8, <3>9
  <2> QED BY <2>1, <2>2
<1>9. flows # << >> => /\ flows[Len(flows)].freq \in Frequencies
                       /\ AmountOf(flows[Len(flows)]) \in Int
  <2> SUFFICES ASSUME flows # << >>
               PROVE  /\ flows[Len(flows)].freq \in Frequencies
                      /\ AmountOf(flows[Len(flows)]) \in Int
    OBVIOUS
  <2>1. Len(flows) \in DOMAIN flows
    <3>1. flows \in Seq(ElementsOf(flows))
      BY <1>2 DEF IsSequence, ElementsOf
    <3>2. Len(flows) # 0
      BY <3>1
    <3> QED BY <1>4, <3>2
  <2>2. flows[Len(flows)].freq \in Frequencies /\ flows[Len(flows)].amount \in Int
    BY <1>3, <2>1 DEF IsEdge
  <2> QED BY <2>2 DEF AmountOf
<1> QED BY <1>7, <1>8, <1>9 DEF flows

\* A row keeps its fields where a value for one of them is written.
LEMMA FieldWritten ==
  ASSUME NEW row, NEW fields, HasFields(row, fields), NEW x, NEW v, v \in ValuesOf(x)
  PROVE  HasFields([row EXCEPT ![x] = v], fields)
  BY DEF HasFields

\* The rows of a plan keep their fields when its flows are written into them.
LEMMA RowsRouted ==
  ASSUME NEW row, NEW sum \in Int, NEW now \in Int, NEW flows,
         RecurOf(flows) \in Frequencies,
         flows # << >> => /\ flows[Len(flows)].freq \in Frequencies
                          /\ AmountOf(flows[Len(flows)]) \in Int
  PROVE  /\ HasFields(row, AssetFields) => HasFields(FlowIntoAsset(row, sum, flows), AssetFields)
         /\ HasFields(row, DebtFields)
              => HasFields(FlowIntoDebt(row, sum, flows, now), DebtFields)
         /\ HasFields(row, FlowFields)
              => HasFields(FlowIntoExpense(row, sum, flows), FlowFields)
<1>1. /\ ValuesOf("recur") = Int /\ ValuesOf("every") = Frequencies /\ ValuesOf("extra") = Int
      /\ ValuesOf("extraEvery") = Frequencies /\ ValuesOf("pmt") = Int /\ ValuesOf("start") = Int
      /\ ValuesOf("amount") = Int /\ "monthly" \in Frequencies
  BY DEF ValuesOf, Frequencies
<1>2. ASSUME HasFields(row, AssetFields)
      PROVE  HasFields(FlowIntoAsset(row, sum, flows), AssetFields)
  <2> DEFINE r1 == [row EXCEPT !["recur"] = Round(sum, MonthlyScale)]
             r2 == [r1 EXCEPT !["every"] = RecurOf(flows)]
  <2>0. Round(sum, MonthlyScale) \in Int
    BY RoundedInt DEF MonthlyScale
  <2>1. HasFields(r1, AssetFields)
    BY <1>1, <1>2, <2>0, FieldWritten
  <2>2. HasFields(r2, AssetFields)
    <3> HIDE DEF r1
    <3> QED BY <1>1, <2>1, FieldWritten
  <2>3. FlowIntoAsset(row, sum, flows) = IF sum > 0 THEN r2 ELSE row
    BY DEF FlowIntoAsset
  <2> HIDE DEF r1, r2
  <2> QED BY <1>2, <2>2, <2>3
<1>3. ASSUME HasFields(row, DebtFields)
      PROVE  HasFields(FlowIntoDebt(row, sum, flows, now), DebtFields)
  <2> DEFINE last == flows[Len(flows)]
             r1 == [row EXCEPT !["extra"] = sum]
             r2 == [r1 EXCEPT !["extraEvery"] = "monthly"]
             r3 == [r2 EXCEPT !["every"] = last.freq]
             r4 == [r3 EXCEPT !["pmt"] = IF row.pmt = 0 THEN AmountOf(last) ELSE row.pmt]
             r5 == [r4 EXCEPT !["start"] = IF row.start = NoStart THEN now ELSE row.start]
  <2>1. CASE flows = << >>
    BY <1>3, <2>1 DEF FlowIntoDebt
  <2>2. CASE flows # << >>
    <3>1. HasFields(r1, DebtFields)
      BY <1>1, <1>3, FieldWritten
    <3>2. HasFields(r2, DebtFields)
      <4> HIDE DEF r1
      <4> QED BY <1>1, <3>1, FieldWritten
    <3>3. HasFields(r3, DebtFields)
      <4> HIDE DEF r2
      <4> QED BY <1>1, <2>2, <3>2, FieldWritten
    <3>4. row.pmt \in Int
      BY <1>1, <1>3 DEF HasFields, DebtFields
    <3>5. (IF row.pmt = 0 THEN AmountOf(last) ELSE row.pmt) \in Int
      BY <2>2, <3>4
    <3>6. HasFields(r4, DebtFields)
      <4> HIDE DEF r3, last
      <4> QED BY <1>1, <3>3, <3>5, FieldWritten
    <3>7. (IF row.start = NoStart THEN now ELSE row.start) \in Int
      BY <1>1, <1>3 DEF HasFields, DebtFields
    <3>8. HasFields(r5, DebtFields)
      <4> HIDE DEF r4
      <4> QED BY <1>1, <3>6, <3>7, FieldWritten
    <3>9. FlowIntoDebt(row, sum, flows, now) = r5
      BY <2>2 DEF FlowIntoDebt
    <3> QED BY <3>8, <3>9
  <2> QED BY <2>1, <2>2
<1>4. ASSUME HasFields(row, FlowFields)
      PROVE  HasFields(FlowIntoExpense(row, sum, flows), FlowFields)
  <2> DEFINE r1 == [row EXCEPT !["amount"] = sum]
             r2 == [r1 EXCEPT !["every"] = "monthly"]
  <2>1. HasFields(r1, FlowFields)
    BY <1>1, <1>4, FieldWritten
  <2>2. HasFields(r2, FlowFields)
    <3> HIDE DEF r1
    <3> QED BY <1>1, <2>1, FieldWritten
  <2>3. FlowIntoExpense(row, sum, flows) = IF flows = << >> THEN row ELSE r2
    BY DEF FlowIntoExpense
  <2> HIDE DEF r1, r2
  <2> QED BY <1>4, <2>2, <2>3
<1> QED BY <1>2, <1>3, <1>4

\* What applying the flows does: each row gets what leads to it, the rest stays, and
\* the rows keep their fields.
LEMMA FlowsWritten ==
  ASSUME NEW a, Kinds \subseteq DOMAIN a, \A kind \in Kinds : IsRows(kind, a[kind]),
         NEW edges, IsEdges(edges), NEW now \in Int
  PROVE  LET b == ApplyFlows(a, edges, now)
             Into(kind, n) == FlowsInto(a, edges, <<kind, n>>)
         IN /\ DOMAIN b = DOMAIN a
            /\ \A x \in DOMAIN a \ {"asset", "debt", "expense"} : b[x] = a[x]
            /\ \A kind \in Kinds : IsRows(kind, b[kind]) /\ DOMAIN b[kind] = DOMAIN a[kind]
            /\ \A n \in DOMAIN a.asset :
                 b.asset[n] = FlowIntoAsset(a.asset[n], InAMonth(a, Into("asset", n)),
                                            Into("asset", n))
            /\ \A n \in DOMAIN a.debt :
                 b.debt[n] = FlowIntoDebt(a.debt[n], Sum(a, Into("debt", n)),
                                          Into("debt", n), now)
            /\ \A n \in DOMAIN a.expense :
                 b.expense[n] = FlowIntoExpense(a.expense[n], Sum(a, Into("expense", n)),
                                                Into("expense", n))
<1> DEFINE Into(kind, n) == FlowsInto(a, edges, <<kind, n>>)
           asset == [n \in DOMAIN a.asset |->
             FlowIntoAsset(a.asset[n], InAMonth(a, Into("asset", n)), Into("asset", n))]
           debt == [n \in DOMAIN a.debt |->
             FlowIntoDebt(a.debt[n], Sum(a, Into("debt", n)), Into("debt", n), now)]
           expense == [n \in DOMAIN a.expense |->
             FlowIntoExpense(a.expense[n], Sum(a, Into("expense", n)), Into("expense", n))]
           b == [a EXCEPT !.asset = asset, !.debt = debt, !.expense = expense]
<1>1. ApplyFlows(a, edges, now) = b
  BY DEF ApplyFlows
<1>2. \A kind, n : /\ InAMonth(a, Into(kind, n)) \in Int /\ Sum(a, Into(kind, n)) \in Int
                   /\ RecurOf(Into(kind, n)) \in Frequencies
                   /\ Into(kind, n) # << >> =>
                        /\ Into(kind, n)[Len(Into(kind, n))].freq \in Frequencies
                        /\ AmountOf(Into(kind, n)[Len(Into(kind, n))]) \in Int
  BY FlowsIntoTyped, Zenon
<1>3. /\ \A n \in DOMAIN a.asset :
           asset[n] = FlowIntoAsset(a.asset[n], InAMonth(a, Into("asset", n)), Into("asset", n))
      /\ \A n \in DOMAIN a.debt :
           debt[n] = FlowIntoDebt(a.debt[n], Sum(a, Into("debt", n)), Into("debt", n), now)
      /\ \A n \in DOMAIN a.expense :
           expense[n]
             = FlowIntoExpense(a.expense[n], Sum(a, Into("expense", n)), Into("expense", n))
  OBVIOUS
<1> HIDE DEF Into
<1>4. \A row, kind, n :
        /\ HasFields(row, AssetFields)
             => HasFields(FlowIntoAsset(row, InAMonth(a, Into(kind, n)), Into(kind, n)),
                          AssetFields)
        /\ HasFields(row, DebtFields)
             => HasFields(FlowIntoDebt(row, Sum(a, Into(kind, n)), Into(kind, n), now),
                          DebtFields)
        /\ HasFields(row, FlowFields)
             => HasFields(FlowIntoExpense(row, Sum(a, Into(kind, n)), Into(kind, n)), FlowFields)
  BY <1>2, RowsRouted, Zenon
<1>5. /\ FieldsOf("income") = FlowFields /\ FieldsOf("expense") = FlowFields
      /\ FieldsOf("asset") = AssetFields /\ FieldsOf("debt") = DebtFields
  BY DEF FieldsOf
<1>6. /\ \A n \in DOMAIN a.asset : HasFields(a.asset[n], AssetFields)
      /\ \A n \in DOMAIN a.debt : HasFields(a.debt[n], DebtFields)
      /\ \A n \in DOMAIN a.expense : HasFields(a.expense[n], FlowFields)
      /\ IsRows("income", a.income)
  BY <1>5 DEF Kinds, IsRows
<1>7. /\ Len(a.asset) \in Nat /\ DOMAIN a.asset = 1 .. Len(a.asset)
      /\ Len(a.debt) \in Nat /\ DOMAIN a.debt = 1 .. Len(a.debt)
      /\ Len(a.expense) \in Nat /\ DOMAIN a.expense = 1 .. Len(a.expense)
  <2>1. \A kind \in Kinds : IsSequence(a[kind])
    BY DEF IsRows
  <2>2. \A kind \in Kinds : Len(a[kind]) \in Nat /\ DOMAIN a[kind] = 1 .. Len(a[kind])
    BY <2>1, Sequence
  <2> QED BY <2>2 DEF Kinds
<1>8. \A n \in DOMAIN a.asset : HasFields(asset[n], AssetFields)
  BY <1>4, <1>6
<1>9. \A n \in DOMAIN a.debt : HasFields(debt[n], DebtFields)
  BY <1>4, <1>6
<1>10. \A n \in DOMAIN a.expense : HasFields(expense[n], FlowFields)
  BY <1>4, <1>6
<1>11. /\ DOMAIN asset = DOMAIN a.asset /\ DOMAIN debt = DOMAIN a.debt
       /\ DOMAIN expense = DOMAIN a.expense
       /\ asset = [n \in DOMAIN a.asset |-> asset[n]]
       /\ debt = [n \in DOMAIN a.debt |-> debt[n]]
       /\ expense = [n \in DOMAIN a.expense |-> expense[n]]
  OBVIOUS
<1>12. /\ DOMAIN b = DOMAIN a
       /\ b.asset = asset /\ b.debt = debt /\ b.expense = expense
       /\ \A x \in DOMAIN a \ {"asset", "debt", "expense"} : b[x] = a[x]
  <2>1. "asset" \in DOMAIN a /\ "debt" \in DOMAIN a /\ "expense" \in DOMAIN a
    BY DEF Kinds
  <2> HIDE DEF asset, debt, expense
  <2> QED BY <2>1
<1>13. b.income = a.income
  BY <1>12 DEF Kinds
<1> HIDE DEF asset, debt, expense, b
<1>14. IsSequence(asset)
  BY <1>7, <1>11, Listed
<1>15. IsSequence(debt)
  BY <1>7, <1>11, Listed
<1>16. IsSequence(expense)
  BY <1>7, <1>11, Listed
<1>17. /\ IsRows("asset", b.asset) /\ IsRows("debt", b.debt)
       /\ IsRows("expense", b.expense) /\ IsRows("income", b.income)
  BY <1>5, <1>6, <1>8, <1>9, <1>10, <1>11, <1>12, <1>13, <1>14, <1>15, <1>16, Zenon DEF IsRows
<1>18. \A kind \in Kinds : IsRows(kind, b[kind]) /\ DOMAIN b[kind] = DOMAIN a[kind]
  BY <1>11, <1>12, <1>13, <1>17 DEF Kinds
<1> QED BY <1>1, <1>3, <1>12, <1>18, Zenon DEF Into

\* With the flows applied to it a plan is still one that can be projected.
LEMMA RoutedProjectable ==
  ASSUME NEW p, Projectable(p)
  PROVE  Projectable(Routed(p))
<1>1. CASE p.edges = << >>
  BY <1>1 DEF Routed
<1>2. CASE p.edges # << >>
  <2>1. PICK q : q = ApplyFlows(p, p.edges, p.today)
    OBVIOUS
  <2>2. /\ DOMAIN p = Kinds \union {"start", "today", "days", "inflation", "checkpoint",
                                    "edges", "augment"}
        /\ IsDate(p.start) /\ p.today \in Int /\ p.days \in Nat /\ p.inflation \in Int
        /\ IsCheckpoint(p.checkpoint)
        /\ IsEdges(p.edges)
        /\ p.augment.halves \in Int
        /\ \A kind \in Kinds : IsRows(kind, p[kind])
    BY Zenon DEF Projectable
  <2>3. Kinds \subseteq DOMAIN p
    BY <2>2
  <2>4. /\ DOMAIN q = DOMAIN p
        /\ \A x \in DOMAIN p \ {"asset", "debt", "expense"} : q[x] = p[x]
        /\ \A kind \in Kinds : IsRows(kind, q[kind])
    BY <2>1, <2>2, <2>3, FlowsWritten
  <2>5. /\ q.start = p.start /\ q.days = p.days /\ q.checkpoint = p.checkpoint
        /\ q.edges = p.edges /\ q.augment = p.augment
        /\ q.today = p.today /\ q.inflation = p.inflation
    BY <2>2, <2>4
  <2>6. Routed(p) = q
    BY <1>2, <2>1 DEF Routed
  <2> QED BY <2>2, <2>4, <2>5, <2>6, Zenon DEF Projectable
<1> QED BY <1>1, <1>2

-----------------------------------------------------------------------------
(***************************************************************************)
(* Where a run of the projection is.                                       *)
(***************************************************************************)

\* What is chosen among some rows.
Chosen(S) == CHOOSE row \in S : TRUE

\* What is made of a plan is the same as long as the plan is.
LEMMA PlanSame ==
  ASSUME plan' = plan
  PROVE  /\ ScenarioStart' = ScenarioStart /\ RecurringFlows' = RecurringFlows
         /\ Assets' = Assets /\ Debts' = Debts /\ Accounts' = Accounts
         /\ \A a : /\ SeededBalance(a)' = SeededBalance(a)
                 /\ RowOf(a)' = RowOf(a) /\ SeedRow(a)' = SeedRow(a)
<1>1. ScenarioStart' = ScenarioStart
  BY Zenon DEF ScenarioStart
<1>2. RecurringFlows' = RecurringFlows
  BY Zenon DEF RecurringFlows, ScenarioStart, StartDay, Inflation, Flow, Payments, Contribution
<1>3. Assets' = Assets /\ Debts' = Debts
  BY Zenon DEF Assets, Debts
<1>4. Accounts' = Accounts
  BY Zenon DEF Accounts, Assets, Debts
<1>5. \A a : RowOf(a)' = RowOf(a)
  BY Zenon DEF RowOf, Assets
<1>6. \A a : SeededBalance(a)' = SeededBalance(a) /\ SeedRow(a)' = SeedRow(a)
  <2>1. \A a : Seen(a)' = Seen(a)
    BY <1>3, <1>5, Zenon DEF Seen
  <2>2. \A a : SeedRow(a)' = SeedRow(a)
    <3>1. \A a : SeedRow(a) = IF RowOf(a).connected \/ Seen(a) = {} THEN RowOf(a)
                             ELSE Chosen(Seen(a))
      BY Zenon DEF SeedRow, Chosen
    <3>2. \A a : SeedRow(a)' = IF RowOf(a)'.connected \/ Seen(a)' = {} THEN RowOf(a)'
                              ELSE Chosen(Seen(a)')
      BY Zenon DEF SeedRow, Chosen
    <3> QED BY <1>5, <2>1, <3>1, <3>2, Zenon
  <2>3. \A a : IsPosition(a)' = IsPosition(a)
    BY <1>3, <1>5, <2>2, Zenon DEF IsPosition
  <2> QED BY <2>2, <2>3, Zenon DEF SeededBalance
<1> QED BY <1>1, <1>2, <1>3, <1>4, <1>5, <1>6

\* Before the first run.
LEMMA InitRun == Init => RunInv
  BY DEF Init, RunInv, Phases, Built

\* A turn of a loop comes to the next of its elements or leaves it.
LEMMA Turned ==
  ASSUME NEW limit, NEW next, k \in Nat \ {0}, Turn(limit, next)
  PROVE  k' \in Nat \ {0} /\ (phase' = phase \/ (phase' = next /\ k' = 1))
  BY DEF Turn

\* The steps of Ledger are such steps.
LEMMA LedgerStepped == [Next]_vars => Stepped
  BY LedgerAssumption DEF Next, Stepped

\* Every step leaves the run where it is said to be.
LEMMA RunStep == RunInv /\ Stepped => RunInv'
<1> SUFFICES ASSUME RunInv, Stepped PROVE RunInv'
  OBVIOUS
<1>1. /\ phase \in Phases /\ day \in Nat /\ k \in Nat \ {0}
      /\ phase \notin {"flows", "accrual", "payments"} => k = 1
      /\ ~Built \/ phase = "seed" => day = 0
      /\ phase # "unbuilt" => Projectable(plan)
      /\ Built => date = AddDays(ScenarioStart, day)
  BY DEF RunInv
<1>2. ASSUME plan' = plan, phase # "unbuilt", phase' \in Phases \ {"unbuilt", "clone"},
             day' \in Nat, k' \in Nat \ {0},
             phase' \notin {"flows", "accrual", "payments"} => k' = 1,
             phase' = "seed" => day' = 0, date' = AddDays(ScenarioStart, day')
      PROVE  RunInv'
  <2>1. ScenarioStart' = ScenarioStart
    BY <1>2, PlanSame
  <2>2. Projectable(plan)'
    BY <1>1, <1>2
  <2>3. (~Built \/ phase = "seed" => day = 0)'
    BY <1>2 DEF Built
  <2>4. (date = AddDays(ScenarioStart, day))'
    BY <1>2, <2>1
  <2> QED BY <1>2, <2>2, <2>3, <2>4 DEF RunInv
<1>3. ASSUME plan' = plan, day' = day, date' = date, Built, k \in Nat \ {0},
             phase' \in Phases \ {"unbuilt", "clone", "seed"}, k' \in Nat \ {0},
             phase' \notin {"flows", "accrual", "payments"} => k' = 1
      PROVE  RunInv'
  <2>1. phase # "unbuilt" /\ phase' # "seed"
    BY <1>3 DEF Built
  <2> QED BY <1>1, <1>2, <1>3, <2>1
<1>4. ASSUME NEW p, Projectable(p), Clone(p) PROVE RunInv'
  <2>1. phase' = "clone" /\ day' = 0 /\ k' = 1
    BY <1>1, <1>4 DEF Clone, Built
  <2>2. Projectable(plan')
    BY <1>4, RoutedProjectable DEF Clone
  <2>3. phase' \in Phases /\ day' \in Nat /\ k' \in Nat \ {0} /\ ~Built' /\ phase' # "seed"
    BY <2>1 DEF Phases, Built
  <2> QED BY <2>1, <2>2, <2>3 DEF RunInv
<1>5. ASSUME Build PROVE RunInv'
  <2>1. /\ plan' = plan /\ phase = "clone" /\ phase' = "seed" /\ day' = day /\ k' = k
        /\ date' = ScenarioStart
    BY <1>5 DEF Build
  <2>2. day = 0 /\ k = 1
    BY <1>1, <2>1 DEF Built
  <2>3. IsDate(ScenarioStart)
    BY <1>1, <2>1, FlowsTyped
  <2>4. date' = AddDays(ScenarioStart, day')
    BY <2>1, <2>2, <2>3, AddedDays
  <2> QED BY <1>2, <2>1, <2>2, <2>4 DEF Phases
<1>6. CASE SeedCheckpoint
  BY <1>1, <1>3, <1>6 DEF SeedCheckpoint, Phases, Built
<1>7. CASE AddLumpSum
  BY <1>1, <1>3, <1>7 DEF AddLumpSum, Phases, Built
<1>8. CASE RunFlow
  <2>1. /\ plan' = plan /\ day' = day /\ date' = date /\ phase = "flows"
        /\ Turn(Len(RecurringFlows), "extras")
    BY <1>8 DEF RunFlow
  <2>2. k' \in Nat \ {0} /\ (phase' = phase \/ (phase' = "extras" /\ k' = 1))
    BY <1>1, <2>1, Turned
  <2> QED BY <1>1, <1>3, <2>1, <2>2 DEF Phases, Built
<1>9. CASE AddExtras
  BY <1>1, <1>3, <1>9 DEF AddExtras, Phases, Built
<1>10. CASE Accrue
  <2>1. /\ plan' = plan /\ day' = day /\ date' = date /\ phase = "accrual"
        /\ Turn(Len(plan.asset) + Len(plan.debt), "payments")
    BY <1>10 DEF Accrue
  <2>2. k' \in Nat \ {0} /\ (phase' = phase \/ (phase' = "payments" /\ k' = 1))
    BY <1>1, <2>1, Turned
  <2> QED BY <1>1, <1>3, <2>1, <2>2 DEF Phases, Built
<1>11. CASE PayDebt
  <2>1. /\ plan' = plan /\ day' = day /\ date' = date /\ phase = "payments"
        /\ Turn(Len(RecurringFlows), "floor")
    BY <1>11 DEF PayDebt
  <2>2. k' \in Nat \ {0} /\ (phase' = phase \/ (phase' = "floor" /\ k' = 1))
    BY <1>1, <2>1, Turned
  <2> QED BY <1>1, <1>3, <2>1, <2>2 DEF Phases, Built
<1>12. CASE FloorDebts
  BY <1>1, <1>3, <1>12 DEF FloorDebts, Phases, Built
<1>13. CASE NextMorning
  <2>1. /\ plan' = plan /\ day' = day + 1 /\ date' = NextDay(date) /\ phase = "night"
        /\ phase' = "lump sum" /\ k' = k
    BY <1>13 DEF NextMorning
  <2>2. IsDate(ScenarioStart) /\ date = AddDays(ScenarioStart, day)
    BY <1>1, <2>1, FlowsTyped DEF Built
  <2>3. date' = AddDays(ScenarioStart, day')
    BY <1>1, <2>1, <2>2, AddedDays
  <2>4. k = 1
    BY <1>1, <2>1
  <2>5. day' \in Nat /\ k' \in Nat \ {0} /\ k' = 1
    <3>1. day \in Nat /\ day' = day + 1 /\ k' = 1
      BY <1>1, <2>1, <2>4
    <3> QED BY <3>1
  <2>6. phase' \in Phases \ {"unbuilt", "clone"} /\ phase' # "seed" /\ phase # "unbuilt"
    BY <2>1 DEF Phases
  <2> QED BY <1>2, <2>1, <2>3, <2>5, <2>6
<1>14. CASE UNCHANGED vars
  <2>1. UNCHANGED <<plan, day, date, phase, k>>
    BY <1>14 DEF vars
  <2>2. ScenarioStart' = ScenarioStart
    BY <2>1, PlanSame
  <2> QED BY <1>1, <2>1, <2>2 DEF RunInv, Built
<1> QED BY <1>4, <1>5, <1>6, <1>7, <1>8, <1>9, <1>10, <1>11, <1>12, <1>13, <1>14
        DEF Stepped, Run

-----------------------------------------------------------------------------
(***************************************************************************)
(* What is due in a month.                                                 *)
(***************************************************************************)

\* The days of one month are numbered one after the other.
LEMMA SameMonth ==
  ASSUME NEW d0, IsDate(d0), NEW a \in Nat, NEW n \in Nat, n < AddDays(d0, a + n).day
  PROVE  AddDays(d0, a).day = AddDays(d0, a + n).day - n
<1> DEFINE D(m) == AddDays(d0, m).day
           T == {m \in Nat : m < D(a + m) => D(a) = D(a + m) - m}
<1>1. \A m \in Nat : /\ D(m) \in Nat
                     /\ D(m + 1) = D(m) + 1 \/ D(m + 1) = 1
  <2> SUFFICES ASSUME NEW m \in Nat
               PROVE  D(m) \in Nat /\ (D(m + 1) = D(m) + 1 \/ D(m + 1) = 1)
    OBVIOUS
  <2>1. IsDate(AddDays(d0, m)) /\ AddDays(d0, m + 1) = NextDay(AddDays(d0, m))
    BY AddedDays
  <2>2. \/ NextDay(AddDays(d0, m)).day = AddDays(d0, m).day + 1
        \/ NextDay(AddDays(d0, m)).day = 1
    BY <2>1, Tomorrow
  <2>3. AddDays(d0, m).day \in Nat
    BY <2>1 DEF IsDate
  <2> QED BY <2>1, <2>2, <2>3
<1> HIDE DEF D
<1>2. 0 \in T
  BY <1>1
<1>3. ASSUME NEW m \in Nat \cap T PROVE m + 1 \in T
  <2> SUFFICES ASSUME m + 1 < D(a + (m + 1)) PROVE D(a) = D(a + (m + 1)) - (m + 1)
    OBVIOUS
  <2>1. a + m \in Nat /\ (a + m) + 1 = a + (m + 1)
    OBVIOUS
  <2>2. D((a + m) + 1) = D(a + m) + 1 \/ D((a + m) + 1) = 1
    BY <1>1, <2>1
  <2>3. D(a + m) \in Nat /\ D((a + m) + 1) = D(a + (m + 1))
    BY <1>1, <2>1
  <2>4. D(a + (m + 1)) = D(a + m) + 1
    BY <2>2, <2>3
  <2>5. m < D(a + m)
    BY <2>3, <2>4
  <2>6. D(a) = D(a + m) - m
    BY <2>5
  <2> QED BY <2>3, <2>4, <2>6
<1> HIDE DEF T
<1>4. n \in T
  BY <1>2, <1>3, Induction
<1> QED BY <1>4 DEF T, D

\* The fields of a date.
LEMMA DateFields ==
  ASSUME NEW d, IsDate(d)
  PROVE  d.day \in Nat /\ d.day >= 1 /\ d.day <= DaysIn(d.year, d.month)
  BY DEF IsDate

\* The day of the month on which something is due on that day or on its last.
LEMMA DueDay ==
  ASSUME NEW n \in Nat, n >= 1, NEW y, NEW m
  PROVE  /\ Lesser(n, DaysIn(y, m)) \in Nat /\ Lesser(n, DaysIn(y, m)) >= 1
         /\ Lesser(n, DaysIn(y, m)) <= DaysIn(y, m) /\ Lesser(n, DaysIn(y, m)) <= n
         /\ n < DaysIn(y, m) => Lesser(n, DaysIn(y, m)) = n
<1>1. DaysIn(y, m) \in Nat /\ DaysIn(y, m) >= 28
  BY DEF DaysIn
<1> QED BY <1>1 DEF Lesser

\* What the turns of a day have to work with.
LEMMA Turns ==
  ASSUME RunInv, Built
  PROVE  /\ IsDate(date) /\ day \in Nat /\ k \in Nat \ {0} /\ date = AddDays(ScenarioStart, day)
         /\ IsDate(ScenarioStart) /\ Projectable(plan)
         /\ Len(RecurringFlows) \in Nat
         /\ \A i \in 1 .. Len(RecurringFlows) :
              GoodFlow(RecurringFlows[i]) /\ IsDate(RecurringFlows[i].from)
<1>1. /\ day \in Nat /\ k \in Nat \ {0} /\ date = AddDays(ScenarioStart, day)
      /\ Projectable(plan)
  BY DEF RunInv, Built
<1>2. /\ IsDate(ScenarioStart) /\ Len(RecurringFlows) \in Nat
      /\ \A i \in 1 .. Len(RecurringFlows) : GoodFlow(RecurringFlows[i])
  BY <1>1, FlowsTyped
<1>3. IsDate(date)
  BY <1>1, <1>2, AddedDays
<1>4. \A i \in 1 .. Len(RecurringFlows) : IsDate(RecurringFlows[i].from)
  BY <1>2, AddedDays DEF GoodFlow
<1> QED BY <1>1, <1>2, <1>3, <1>4

\* In a step that no flow has its turn in, nothing is due.
LEMMA QuietStep ==
  ASSUME FiredInv, Built, Built', plan' = plan, day' = day, date' = date, fired' = fired,
         \A i \in 1 .. Len(RecurringFlows) : Ran(i)' <=> Ran(i)
  PROVE  FiredInv'
<1>1. RecurringFlows' = RecurringFlows
  BY PlanSame
<1>2. PICK R : R = RecurringFlows
  OBVIOUS
<1>3. /\ fired \in [1 .. Len(R) -> Nat]
      /\ \A i \in 1 .. Len(R) : R[i].every = "monthly" => fired[i] = Due(R[i], date, day, Ran(i))
  BY <1>2 DEF FiredInv
<1>4. \A i \in 1 .. Len(R) : R[i].every = "monthly" => fired'[i] = Due(R[i], date', day', Ran(i)')
  <2> SUFFICES ASSUME NEW i \in 1 .. Len(R), R[i].every = "monthly"
               PROVE  fired'[i] = Due(R[i], date', day', Ran(i)')
    OBVIOUS
  <2>1. fired[i] = Due(R[i], date, day, Ran(i))
    BY <1>3
  <2>2. Ran(i)' <=> Ran(i)
    BY <1>2
  <2> QED BY <2>1, <2>2 DEF Due
<1>5. RecurringFlows' = R /\ fired' \in [1 .. Len(R) -> Nat]
  BY <1>1, <1>2, <1>3
<1> QED BY <1>4, <1>5, Zenon DEF FiredInv

\* A turn of the loop over the flows.
LEMMA FlowTurn == RunInv /\ FiredInv /\ RunFlow => FiredInv'
<1> SUFFICES ASSUME RunInv, FiredInv, RunFlow PROVE FiredInv'
  OBVIOUS
<1>1. PICK R : R = RecurringFlows
  OBVIOUS
<1>2. /\ plan' = plan /\ day' = day /\ date' = date /\ phase = "flows" /\ Built
      /\ Turn(Len(R), "extras")
      /\ fired' = IF k <= Len(R) /\ ShouldFire(R[k]) THEN [fired EXCEPT ![k] = @ + 1] ELSE fired
  BY <1>1 DEF RunFlow, Built
<1>3. /\ IsDate(date) /\ day \in Nat /\ k \in Nat \ {0} /\ Len(R) \in Nat
      /\ \A i \in 1 .. Len(R) : GoodFlow(R[i]) /\ IsDate(R[i].from)
  BY <1>1, <1>2, Turns
<1>4. /\ fired \in [1 .. Len(R) -> Nat]
      /\ \A i \in 1 .. Len(R) : R[i].every = "monthly" => fired[i] = Due(R[i], date, day, Ran(i))
  BY <1>1, <1>2 DEF FiredInv
<1>5. RecurringFlows' = R
  BY <1>1, <1>2, PlanSame
<1>6. fired' \in [1 .. Len(R) -> Nat]
  BY <1>2, <1>3, <1>4
<1>7. ASSUME NEW i \in 1 .. Len(R)
      PROVE  (Ran(i) <=> k > i) /\ (Ran(i)' <=> k >= i)
  BY <1>2, <1>3 DEF Ran, Turn
<1>8. ASSUME NEW i \in 1 .. Len(R), R[i].every = "monthly"
      PROVE  fired'[i] = Due(R[i], date', day', Ran(i)')
  <2>1. fired[i] = Due(R[i], date, day, Ran(i))
    BY <1>4, <1>8
  <2>2. CASE i # k
    <3>1. fired'[i] = fired[i]
      BY <1>2, <1>4, <2>2
    <3>2. Ran(i)' <=> Ran(i)
      BY <1>3, <1>7, <2>2
    <3> QED BY <1>2, <2>1, <3>1, <3>2 DEF Due
  <2>3. CASE i = k
    <3> DEFINE due == Lesser(R[i].from.day, DaysIn(date.year, date.month))
    <3>1. ~Ran(i) /\ Ran(i)'
      BY <1>3, <1>7, <2>3
    <3>2. ShouldFire(R[i]) <=> day >= R[i].start /\ date.day = due
      BY <1>8 DEF ShouldFire, FiresOnDayOfMonth
    <3>3. fired'[i] = IF ShouldFire(R[i]) THEN fired[i] + 1 ELSE fired[i]
      BY <1>2, <1>4, <2>3
    <3>4. date.day \in Int /\ due \in Int /\ R[i].start \in Nat
      <4>1. R[i].from.day \in Nat /\ R[i].from.day >= 1 /\ date.day \in Nat
        BY <1>3, DateFields
      <4>2. due \in Nat
        BY <4>1, DueDay
      <4>3. R[i].start \in Nat
        BY <1>3 DEF GoodFlow
      <4> HIDE DEF due
      <4> QED BY <4>1, <4>2, <4>3
    <3>5. fired[i] = IF date.day > due /\ day - (date.day - due) >= R[i].start THEN 1 ELSE 0
      BY <2>1, <3>1 DEF Due
    <3>6. Due(R[i], date, day, Ran(i)')
            = IF date.day >= due /\ day - (date.day - due) >= R[i].start THEN 1 ELSE 0
      BY <3>1, <3>4 DEF Due
    <3> HIDE DEF due
    <3>7. fired'[i] = Due(R[i], date, day, Ran(i)')
      BY <1>3, <3>2, <3>3, <3>4, <3>5, <3>6
    <3> QED BY <1>2, <3>7
  <2> QED BY <2>2, <2>3
<1> QED BY <1>5, <1>6, <1>8, Zenon DEF FiredInv

\* The next morning, of the same month or of another.
LEMMA MorningTurn == RunInv /\ FiredInv /\ NextMorning => FiredInv'
<1> SUFFICES ASSUME RunInv, FiredInv, NextMorning PROVE FiredInv'
  OBVIOUS
<1>1. PICK R : R = RecurringFlows
  OBVIOUS
<1>2. /\ plan' = plan /\ day' = day + 1 /\ date' = NextDay(date) /\ phase = "night" /\ Built
      /\ phase' = "lump sum"
      /\ fired' = IF date'.day = 1 THEN [f \in DOMAIN fired |-> 0] ELSE fired
  BY DEF NextMorning, Built
<1>3. /\ IsDate(date) /\ day \in Nat /\ Len(R) \in Nat
      /\ \A i \in 1 .. Len(R) : GoodFlow(R[i]) /\ IsDate(R[i].from)
  BY <1>1, <1>2, Turns
<1>4. /\ fired \in [1 .. Len(R) -> Nat]
      /\ \A i \in 1 .. Len(R) : R[i].every = "monthly" => fired[i] = Due(R[i], date, day, Ran(i))
  BY <1>1, <1>2 DEF FiredInv
<1>5. RecurringFlows' = R
  BY <1>1, <1>2, PlanSame
<1>6. fired' \in [1 .. Len(R) -> Nat]
  BY <1>2, <1>4
<1>7. \A i : Ran(i) /\ ~Ran(i)'
  BY <1>2 DEF Ran
<1>9. date.day \in Nat /\ date.day >= 1 /\ date.day <= DaysIn(date.year, date.month)
  BY <1>3, DateFields
<1>10. ASSUME NEW i \in 1 .. Len(R), R[i].every = "monthly"
       PROVE  fired'[i] = Due(R[i], date', day', Ran(i)')
  <2> DEFINE due == Lesser(R[i].from.day, DaysIn(date.year, date.month))
             due2 == Lesser(R[i].from.day, DaysIn(date'.year, date'.month))
  <2>1. R[i].from.day \in Nat /\ R[i].from.day >= 1 /\ R[i].start \in Nat
    BY <1>3, DateFields DEF GoodFlow
  <2>2. due \in Nat /\ due2 \in Nat /\ due >= 1 /\ due2 >= 1
    BY <2>1, DueDay
  <2>3. fired[i] = IF date.day >= due /\ day - (date.day - due) >= R[i].start THEN 1 ELSE 0
    <3>1. fired[i] = IF (date.day > due \/ date.day = due) /\ day - (date.day - due) >= R[i].start
                     THEN 1 ELSE 0
      BY <1>4, <1>7, <1>10 DEF Due
    <3>2. date.day > due \/ date.day = due <=> date.day >= due
      <4> HIDE DEF due
      <4> QED BY <1>9, <2>2
    <3> HIDE DEF due
    <3> QED BY <3>1, <3>2
  <2>4. Due(R[i], date', day', Ran(i)')
          = IF date'.day > due2 /\ day' - (date'.day - due2) >= R[i].start THEN 1 ELSE 0
    BY <1>7 DEF Due
  <2>5. CASE date.day < DaysIn(date.year, date.month)
    <3>1. date' = [year |-> date.year, month |-> date.month, day |-> date.day + 1]
      BY <1>2, <1>3, <2>5, Tomorrow
    <3>2. due2 = due /\ date'.day = date.day + 1
      BY <3>1
    <3>3. date'.day # 1
      BY <1>9, <3>2
    <3>4. fired' = fired
      BY <1>2, <3>3
    <3> HIDE DEF due, due2
    <3>5. day' - (date'.day - due2) = day - (date.day - due)
      <4>1. day \in Nat /\ day' = day + 1
        BY <1>2, <1>3
      <4> QED BY <1>9, <2>2, <3>2, <4>1
    <3>6. date'.day > due2 <=> date.day >= due
      BY <1>9, <2>2, <3>2
    <3> QED BY <2>3, <2>4, <3>4, <3>5, <3>6
  <2>6. CASE ~(date.day < DaysIn(date.year, date.month))
    <3>1. date'.day = 1
      BY <1>2, <1>3, <2>6, Tomorrow
    <3>2. fired'[i] = 0
      BY <1>2, <1>4, <3>1
    <3> HIDE DEF due, due2
    <3> QED BY <2>2, <2>4, <3>1, <3>2
  <2> QED BY <2>5, <2>6
<1> QED BY <1>5, <1>6, <1>10, Zenon DEF FiredInv

\* The first day of a run.
LEMMA BuildTurn == RunInv /\ Build => FiredInv'
<1> SUFFICES ASSUME RunInv, Build PROVE FiredInv'
  OBVIOUS
<1>1. PICK R : R = RecurringFlows
  OBVIOUS
<1>2. /\ plan' = plan /\ phase = "clone" /\ phase' = "seed" /\ day' = day
      /\ date' = ScenarioStart /\ fired' = [f \in 1 .. Len(R) |-> 0]
  BY <1>1 DEF Build
<1>3. day = 0 /\ Projectable(plan)
  BY <1>2 DEF RunInv, Built
<1>4. /\ IsDate(date') /\ Len(R) \in Nat
      /\ \A i \in 1 .. Len(R) : GoodFlow(R[i]) /\ IsDate(R[i].from)
  <2>1. /\ IsDate(ScenarioStart) /\ Len(R) \in Nat
        /\ \A i \in 1 .. Len(R) : GoodFlow(R[i])
    BY <1>1, <1>3, FlowsTyped
  <2>2. \A i \in 1 .. Len(R) : IsDate(R[i].from)
    BY <2>1, AddedDays DEF GoodFlow
  <2> QED BY <1>2, <2>1, <2>2
<1>5. RecurringFlows' = R
  BY <1>1, <1>2, PlanSame
<1>6. fired' \in [1 .. Len(R) -> Nat]
  BY <1>2, <1>4
<1>7. \A i : ~Ran(i)'
  BY <1>2 DEF Ran
<1>8. ASSUME NEW i \in 1 .. Len(R)
      PROVE  fired'[i] = Due(R[i], date', day', Ran(i)')
  <2> DEFINE due == Lesser(R[i].from.day, DaysIn(date'.year, date'.month))
  <2>1. R[i].from.day \in Nat /\ R[i].from.day >= 1 /\ R[i].start \in Nat
        /\ date'.day \in Nat
    BY <1>4, DateFields DEF GoodFlow
  <2>2. due \in Nat
    BY <2>1, DueDay
  <2>3. Due(R[i], date', day', Ran(i)')
          = IF date'.day > due /\ day' - (date'.day - due) >= R[i].start THEN 1 ELSE 0
    BY <1>7 DEF Due
  <2> HIDE DEF due
  <2> QED BY <1>2, <1>3, <2>1, <2>2, <2>3
<1> QED BY <1>5, <1>6, <1>8, Zenon DEF FiredInv

\* Every step of a run.
LEMMA FiredStep == RunInv /\ FiredInv /\ Stepped => FiredInv'
<1> SUFFICES ASSUME RunInv, FiredInv, Stepped PROVE FiredInv'
  OBVIOUS
<1>0. /\ phase \in Phases /\ k \in Nat \ {0}
      /\ phase \notin {"flows", "accrual", "payments"} => k = 1
  BY DEF RunInv
<1>1. CASE \E p : Projectable(p) /\ Clone(p)
  BY <1>1 DEF Clone, FiredInv, Built
<1>2. CASE Build
  BY <1>2, BuildTurn
<1>3. CASE SeedCheckpoint
  <2>1. /\ Built /\ Built' /\ plan' = plan /\ day' = day /\ date' = date /\ fired' = fired
        /\ phase = "seed" /\ phase' = "lump sum"
    BY <1>3 DEF SeedCheckpoint, Built
  <2>2. \A i : Ran(i)' <=> Ran(i)
    BY <2>1 DEF Ran
  <2> QED BY <2>1, <2>2, QuietStep
<1>4. CASE AddLumpSum
  <2>1. /\ Built /\ Built' /\ plan' = plan /\ day' = day /\ date' = date /\ fired' = fired
        /\ phase = "lump sum" /\ phase' = "flows" /\ k' = k /\ k = 1
    BY <1>0, <1>4 DEF AddLumpSum, Built
  <2>2. \A i \in 1 .. Len(RecurringFlows) : Ran(i)' <=> Ran(i)
    <3>1. Len(RecurringFlows) \in Nat
      BY <2>1, Turns
    <3>2. \A i \in 1 .. Len(RecurringFlows) : ~(1 > i)
      BY <3>1
    <3> QED BY <2>1, <3>2, Zenon DEF Ran
  <2> QED BY <2>1, <2>2, QuietStep
<1>5. CASE RunFlow
  BY <1>5, FlowTurn
<1>6. CASE AddExtras
  <2>1. /\ Built /\ Built' /\ plan' = plan /\ day' = day /\ date' = date /\ fired' = fired
        /\ phase = "extras" /\ phase' = "accrual"
    BY <1>6 DEF AddExtras, Built
  <2>2. \A i : Ran(i)' <=> Ran(i)
    BY <2>1 DEF Ran
  <2> QED BY <2>1, <2>2, QuietStep
<1>7. CASE Accrue
  <2>1. /\ plan' = plan /\ day' = day /\ date' = date /\ fired' = fired
        /\ phase = "accrual" /\ Turn(Len(plan.asset) + Len(plan.debt), "payments")
    BY <1>7 DEF Accrue
  <2>2. phase' = "accrual" \/ phase' = "payments"
    BY <1>0, <2>1, Turned
  <2>3. (\A i : Ran(i)' <=> Ran(i)) /\ Built /\ Built'
    BY <2>1, <2>2 DEF Ran, Built
  <2> QED BY <2>1, <2>3, QuietStep
<1>8. CASE PayDebt
  <2>1. /\ plan' = plan /\ day' = day /\ date' = date /\ fired' = fired
        /\ phase = "payments" /\ Turn(Len(RecurringFlows), "floor")
    BY <1>8 DEF PayDebt
  <2>2. phase' = "payments" \/ phase' = "floor"
    BY <1>0, <2>1, Turned
  <2>3. (\A i : Ran(i)' <=> Ran(i)) /\ Built /\ Built'
    BY <2>1, <2>2 DEF Ran, Built
  <2> QED BY <2>1, <2>3, QuietStep
<1>9. CASE FloorDebts
  <2>1. /\ Built /\ Built' /\ plan' = plan /\ day' = day /\ date' = date /\ fired' = fired
        /\ phase = "floor" /\ phase' = "night"
    BY <1>9 DEF FloorDebts, Built
  <2>2. \A i : Ran(i)' <=> Ran(i)
    BY <2>1 DEF Ran
  <2> QED BY <2>1, <2>2, QuietStep
<1>10. CASE NextMorning
  BY <1>10, MorningTurn
<1>11. CASE UNCHANGED vars
  <2>1. /\ plan' = plan /\ day' = day /\ date' = date /\ fired' = fired
        /\ phase' = phase /\ k' = k
    BY <1>11 DEF vars
  <2>2. (\A i : Ran(i)' <=> Ran(i)) /\ (Built' <=> Built)
    BY <2>1 DEF Ran, Built
  <2>3. CASE Built
    BY <2>1, <2>2, <2>3, QuietStep
  <2>4. CASE ~Built
    BY <2>2, <2>4 DEF FiredInv
  <2> QED BY <2>3, <2>4
<1> QED BY <1>1, <1>2, <1>3, <1>4, <1>5, <1>6, <1>7, <1>8, <1>9, <1>10, <1>11 DEF Stepped, Run

\* On the last night of a month what is due in it has been, once.
LEMMA FiredSuffices == RunInv /\ FiredInv => FiresOnceAMonth
<1> SUFFICES ASSUME RunInv, FiredInv, phase = "night", date.day = DaysIn(date.year, date.month),
                    NEW i \in 1 .. Len(RecurringFlows), RecurringFlows[i].every = "monthly",
                    day >= RecurringFlows[i].start
             PROVE  fired[i] = 1
  BY DEF FiresOnceAMonth
<1>1. PICK f : f = RecurringFlows[i]
  OBVIOUS
<1> DEFINE due == Lesser(f.from.day, DaysIn(date.year, date.month))
<1>2. Built /\ Ran(i)
  BY DEF Built, Ran
<1>3. /\ IsDate(date) /\ day \in Nat /\ date = AddDays(ScenarioStart, day)
      /\ IsDate(ScenarioStart) /\ GoodFlow(f) /\ IsDate(f.from)
  BY <1>1, <1>2, Turns
<1>4. fired[i] = IF (date.day > due \/ date.day = due) /\ day - (date.day - due) >= f.start
                 THEN 1 ELSE 0
  BY <1>1, <1>2 DEF FiredInv, Due
<1>5. f.start \in Nat /\ f.from = AddDays(ScenarioStart, f.start) /\ day >= f.start
  BY <1>1, <1>3 DEF GoodFlow
<1>6. date.day \in Nat /\ f.from.day \in Nat /\ f.from.day >= 1
  BY <1>3, DateFields
<1>7. /\ due \in Nat /\ due <= date.day /\ due <= f.from.day
      /\ f.from.day < date.day => due = f.from.day
      /\ due = f.from.day \/ due = date.day
  BY <1>6, DueDay DEF Lesser
<1> HIDE DEF due
<1>8. day - (date.day - due) >= f.start
  <2> SUFFICES ASSUME day - (date.day - due) < f.start PROVE FALSE
    BY <1>3, <1>5, <1>6, <1>7
  <2> DEFINE n == day - f.start
  <2>1. n \in Nat /\ f.start + n = day
    BY <1>3, <1>5
  <2>2. n < date.day - due
    BY <1>3, <1>5, <1>6, <1>7
  <2>3. n < date.day
    BY <1>6, <1>7, <2>1, <2>2
  <2> HIDE DEF n
  <2>4. AddDays(ScenarioStart, f.start + n) = date
    BY <1>3, <2>1
  <2>5. f.from.day = date.day - n
    BY <1>3, <1>5, <2>1, <2>3, <2>4, SameMonth
  <2> QED BY <1>6, <1>7, <2>1, <2>2, <2>5
<1>9. date.day > due \/ date.day = due
  BY <1>6, <1>7
<1> QED BY <1>4, <1>8, <1>9

\* Whatever the plan and however many days of it are run: on the last night of a month
\* every flow that is due each month has run in it once, in the month it starts as in
\* the shorter months.
THEOREM OnceAMonth == Spec => []FiresOnceAMonth
<1>1. Init => FiredInv
  BY DEF Init, FiredInv, Built
<1>2. RunInv /\ FiredInv /\ [Next]_vars => (RunInv /\ FiredInv)'
  BY LedgerStepped, RunStep, FiredStep
<1> QED BY <1>1, <1>2, InitRun, FiredSuffices, PTL DEF Spec

-----------------------------------------------------------------------------
(***************************************************************************)
(* The books.                                                              *)
(***************************************************************************)

\* What the books say includes what is asked of them.
LEMMA BooksSuffice == BooksInv => BooksBalance
  BY DEF BooksInv, BooksBalance, Built, Right, Conserved, InterestIsExact, DebtsNotOverpaid,
         Ordinary

\* The accounts of a plan, and what their rows have.
LEMMA AccountsOf ==
  ASSUME Projectable(plan)
  PROVE  /\ Len(plan.asset) \in Nat /\ Len(plan.debt) \in Nat
         /\ Len(plan.asset) + Len(plan.debt) \in Nat
         /\ Assets = 1 .. Len(plan.asset)
         /\ Debts = Len(plan.asset) + 1 .. Len(plan.asset) + Len(plan.debt)
         /\ \A a \in Assets : a \in Int /\ a >= 1 /\ a \notin Debts
         /\ \A a \in Debts : a \in Int /\ a >= 1 /\ a \notin Assets
         /\ Accounts = 0 .. Len(plan.asset) + Len(plan.debt)
         /\ \A a \in Accounts : a # 0 => a \in Assets \union Debts
         /\ \A a \in Accounts : a # 0 => RowOf(a).rate \in Int /\ Rate(a) \in Int
         /\ \A a \in Debts : Rate(a) = RowOf(a).rate
         /\ plan.augment.halves \in Int
<1>1. /\ Len(plan.asset) \in Nat /\ Len(plan.debt) \in Nat
      /\ DOMAIN plan.asset = 1 .. Len(plan.asset) /\ DOMAIN plan.debt = 1 .. Len(plan.debt)
      /\ \A n \in DOMAIN plan.asset : plan.asset[n].rate \in Int
      /\ \A n \in DOMAIN plan.debt : plan.debt[n].rate \in Int
  BY RowsTyped DEF Kinds
<1>2. PICK A \in Nat : A = Len(plan.asset)
  BY <1>1
<1>3. PICK D \in Nat : D = Len(plan.debt)
  BY <1>1
<1>4. Assets = 1 .. A /\ Debts = A + 1 .. A + D
  BY <1>2, <1>3 DEF Assets, Debts
<1>5. /\ \A a \in Assets : a \in Int /\ a >= 1 /\ a \notin Debts
      /\ \A a \in Debts : a \in Int /\ a >= 1 /\ a \notin Assets
  BY <1>4
<1>6. Accounts = 0 .. A + D
  BY <1>4 DEF Accounts
<1>7. \A a \in Accounts : a # 0 => a \in Assets \union Debts
  BY DEF Accounts
<1>8. plan.augment.halves \in Int
  BY DEF Projectable
<1>9. \A a \in Debts : Rate(a) = RowOf(a).rate
  BY <1>5 DEF Rate
<1>10. ASSUME NEW a \in Accounts, a # 0 PROVE RowOf(a).rate \in Int /\ Rate(a) \in Int
  <2>1. CASE a \in Assets
    <3>1. RowOf(a).rate \in Int
      BY <1>1, <1>2, <1>4, <2>1 DEF RowOf
    <3>2. RowOf(a).rate * plan.augment.halves \in Int /\ 2 \in Nat \ {0}
      BY <1>8, <3>1
    <3>3. Round(RowOf(a).rate * plan.augment.halves, 2) \in Int
      BY <3>2, RoundedInt
    <3> QED BY <2>1, <3>1, <3>3 DEF Rate, Scaled
  <2>2. CASE a \in Debts
    <3>1. a - A \in 1 .. D
      BY <1>4, <2>2
    <3>2. RowOf(a) = plan.debt[a - A]
      BY <1>2, <1>5, <2>2 DEF RowOf
    <3> QED BY <1>1, <1>3, <1>9, <2>2, <3>1, <3>2
  <2> QED BY <1>7, <1>10, <2>1, <2>2
<1>11. Len(plan.asset) + Len(plan.debt) \in Nat
  <2>1. A + D \in Nat
    OBVIOUS
  <2> QED BY <1>2, <1>3, <2>1
<1> QED BY <1>1, <1>2, <1>3, <1>4, <1>5, <1>6, <1>7, <1>8, <1>9, <1>10, <1>11

\* A plan that stays has the positions it had.
LEMMA PositionsSame == plan' = plan => Positions' = Positions
<1> SUFFICES ASSUME plan' = plan PROVE Positions' = Positions
  OBVIOUS
<1>1. Assets' = Assets /\ \A a : RowOf(a)' = RowOf(a) /\ SeedRow(a)' = SeedRow(a)
  BY PlanSame
<1>2. \A a : IsPosition(a)' <=> IsPosition(a)
  BY <1>1, Zenon DEF IsPosition
<1> QED BY <1>1, <1>2 DEF Positions

\* What is posted changes the balance by the same.
LEMMA Booked ==
  ASSUME BooksInv, Built, Built', plan' = plan,
         carry' = carry, accrued' = accrued, credited' = credited,
         DOMAIN balance' = Accounts, DOMAIN posted' = Accounts,
         NEW delta, \A a \in Accounts : /\ delta[a] \in Int
                                        /\ balance'[a] = balance[a] + delta[a]
                                        /\ posted'[a] = posted[a] + delta[a],
         held' \in [Positions -> [units : Int, price : Int]],
         StartsFromCheckpoint',
         \A d \in Debts : Ordinary(d) /\ balance[d] >= 0 => balance[d] + delta[d] >= 0
  PROVE  BooksInv'
<1>1. /\ Assets' = Assets /\ Debts' = Debts /\ Accounts' = Accounts
      /\ \A a : SeededBalance(a)' = SeededBalance(a) /\ RowOf(a)' = RowOf(a)
      /\ Positions' = Positions
  BY PlanSame, PositionsSame
<1>2. /\ DOMAIN carry = Accounts /\ DOMAIN accrued = Accounts /\ DOMAIN credited = Accounts
      /\ \A a \in Accounts :
           Right(SeededBalance(a), balance[a], posted[a], carry[a], accrued[a], credited[a])
      /\ \A d \in Debts : Ordinary(d) => balance[d] >= 0
  BY DEF BooksInv
<1>3. \A a \in Accounts :
        Right(SeededBalance(a)', balance'[a], posted'[a], carry'[a], accrued'[a], credited'[a])
  <2> SUFFICES ASSUME NEW a \in Accounts
               PROVE  Right(SeededBalance(a)', balance'[a], posted'[a], carry'[a], accrued'[a],
                            credited'[a])
    OBVIOUS
  <2>1. /\ balance[a] \in Int /\ posted[a] \in Int /\ carry[a] \in Int /\ accrued[a] \in Int
        /\ credited[a] \in Int /\ SeededBalance(a) \in Int
        /\ balance[a] = SeededBalance(a) + posted[a]
        /\ accrued[a] = credited[a] * RateDenom + carry[a]
        /\ 2 * Magnitude(carry[a]) <= RateDenom
    BY <1>2 DEF Right
  <2>2. balance'[a] = SeededBalance(a)' + posted'[a]
    BY <1>1, <2>1
  <2>3. balance'[a] \in Int /\ posted'[a] \in Int /\ SeededBalance(a)' \in Int
    BY <1>1, <2>1
  <2>4. carry'[a] = carry[a] /\ accrued'[a] = accrued[a] /\ credited'[a] = credited[a]
    OBVIOUS
  <2> QED BY <2>1, <2>2, <2>3, <2>4, Zenon DEF Right
<1>4. \A d \in Debts : Ordinary(d)' => balance'[d] >= 0
  BY <1>1, <1>2 DEF Ordinary, Accounts
<1> QED BY <1>1, <1>2, <1>3, <1>4, Zenon DEF BooksInv

\* What is added to the cash is added to the net worth.
LEMMA WorthOf ==
  ASSUME Projectable(plan), NEW b, NEW c, NEW x \in Int, \A a \in Accounts : b[a] \in Int,
         c[0] = b[0] + x, \A a \in Accounts : a # 0 => c[a] = b[a]
  PROVE  NetWorth(b) \in Int /\ NetWorth(c) = NetWorth(b) + x
<1> DEFINE N == Len(plan.asset) + Len(plan.debt)
           Terms(f, S) == [n \in 1 .. N + 1 |-> IF n - 1 \in S THEN f[n - 1] ELSE 0]
<1>1. N \in Nat /\ Accounts = 0 .. N /\ 0 \in Accounts
  <2>1. /\ Len(plan.asset) + Len(plan.debt) \in Nat
        /\ Accounts = 0 .. Len(plan.asset) + Len(plan.debt)
    BY AccountsOf
  <2>2. N \in Nat
    BY <2>1, Zenon
  <2>3. Accounts = 0 .. N
    BY <2>1, Zenon
  <2> HIDE DEF N
  <2>4. 0 \in 0 .. N
    BY <2>2
  <2> QED BY <2>2, <2>3, <2>4, Zenon
<1>2. \A f, S : SumOf(f, S) = Total(Terms(f, S))
  BY DEF SumOf
<1>3. 0 \notin Debts /\ 0 \in {0} \union Assets
  <2>1. \A a \in Debts : a >= 1
    BY AccountsOf
  <2> QED BY <2>1
<1> HIDE DEF N
<1>4. ASSUME NEW S PROVE Terms(b, S) \in Seq(Int) /\ Len(Terms(b, S)) = N + 1
  BY <1>1
<1>5. ASSUME NEW S PROVE Terms(c, S) \in Seq(Int) /\ Len(Terms(c, S)) = N + 1
  <2>1. \A a \in Accounts : c[a] \in Int
    BY <1>1
  <2> QED BY <1>1, <2>1
<1>6. ASSUME NEW S
      PROVE  /\ Terms(c, S)[1] = Terms(b, S)[1] + (IF 0 \in S THEN x ELSE 0)
             /\ \A n \in 2 .. N + 1 : Terms(c, S)[n] = Terms(b, S)[n]
  <2>1. 1 \in 1 .. N + 1 /\ 1 - 1 = 0
    BY <1>1
  <2>2. Terms(c, S)[1] = Terms(b, S)[1] + (IF 0 \in S THEN x ELSE 0)
    BY <1>1, <2>1
  <2>3. ASSUME NEW n \in 2 .. N + 1 PROVE Terms(c, S)[n] = Terms(b, S)[n]
    <3>1. n \in 1 .. N + 1 /\ n - 1 \in Accounts /\ n - 1 # 0
      BY <1>1
    <3> QED BY <3>1
  <2> QED BY <2>2, <2>3
<1> HIDE DEF Terms
<1>7. ASSUME NEW S
      PROVE  /\ Total(Terms(b, S)) \in Int
             /\ Total(Terms(c, S)) = Total(Terms(b, S)) + (IF 0 \in S THEN x ELSE 0)
  <2>1. (IF 0 \in S THEN x ELSE 0) \in Int /\ N + 1 >= 1
    BY <1>1
  <2> QED BY <1>4, <1>5, <1>6, <2>1, SumFirst
<1>8. /\ SumOf(b, {0} \union Assets) \in Int /\ SumOf(b, Debts) \in Int
      /\ SumOf(c, {0} \union Assets) = SumOf(b, {0} \union Assets) + x
      /\ SumOf(c, Debts) = SumOf(b, Debts)
  <2>1. /\ Total(Terms(b, {0} \union Assets)) \in Int
        /\ Total(Terms(c, {0} \union Assets)) = Total(Terms(b, {0} \union Assets)) + x
    BY <1>3, <1>7
  <2>2. /\ Total(Terms(b, Debts)) \in Int
        /\ Total(Terms(c, Debts)) = Total(Terms(b, Debts)) + 0
    BY <1>3, <1>7
  <2> QED BY <1>2, <2>1, <2>2
<1> QED BY <1>8 DEF NetWorth

\* The net worth of a plan that stays.
LEMMA WorthSame == plan' = plan => NetWorth(balance)' = NetWorth(balance')
  BY Zenon DEF NetWorth, SumOf, Assets, Debts

\* What an account is seeded with.
LEMMA SeedsTyped ==
  ASSUME Projectable(plan)
  PROVE  /\ \A a \in Accounts : SeededBalance(a) \in Int
         /\ \A a \in Positions : SeedRow(a).units \in Int /\ SeedRow(a).price \in Int
<1> DEFINE cp == plan.checkpoint
<1>1. /\ \A n \in DOMAIN plan.asset :
           /\ plan.asset[n].value \in Int /\ plan.asset[n].units \in Int
           /\ plan.asset[n].price \in Int
      /\ \A n \in DOMAIN plan.debt : plan.debt[n].value \in Int
      /\ DOMAIN plan.asset = 1 .. Len(plan.asset) /\ DOMAIN plan.debt = 1 .. Len(plan.debt)
      /\ Len(plan.asset) \in Nat /\ Len(plan.debt) \in Nat
  BY RowsTyped DEF Kinds
<1>2. /\ \A n \in DOMAIN cp.asset :
           HasFields(cp.asset[n], {"id", "mode", "value", "units", "price"})
      /\ \A n \in DOMAIN cp.debt : HasFields(cp.debt[n], {"id", "value"})
  BY DEF Projectable, IsCheckpoint
<1>3. ValuesOf("value") = Int /\ ValuesOf("units") = Int /\ ValuesOf("price") = Int
  BY DEF ValuesOf
<1>4. /\ \A n \in DOMAIN cp.asset : /\ cp.asset[n].value \in Int /\ cp.asset[n].units \in Int
                                    /\ cp.asset[n].price \in Int
      /\ \A n \in DOMAIN cp.debt : cp.debt[n].value \in Int
  BY <1>2, <1>3 DEF HasFields
<1> HIDE DEF cp
<1>5. ASSUME NEW a \in Assets
      PROVE  SeedRow(a).value \in Int /\ SeedRow(a).units \in Int /\ SeedRow(a).price \in Int
  <2>1. RowOf(a) = plan.asset[a] /\ a \in DOMAIN plan.asset
    BY <1>1 DEF RowOf, Assets
  <2>2. CASE RowOf(a).connected \/ Seen(a) = {}
    BY <1>1, <2>1, <2>2 DEF SeedRow
  <2>3. CASE ~(RowOf(a).connected \/ Seen(a) = {})
    <3>1. SeedRow(a) \in Seen(a)
      BY <2>3 DEF SeedRow
    <3>2. PICK n \in DOMAIN cp.asset : SeedRow(a) = cp.asset[n]
      BY <3>1 DEF Seen, cp
    <3> QED BY <1>4, <3>2
  <2> QED BY <2>2, <2>3
<1>6. ASSUME NEW a \in Debts PROVE SeedRow(a).value \in Int
  <2>1. a \notin Assets /\ a - Len(plan.asset) \in DOMAIN plan.debt
    <3>1. /\ Debts = Len(plan.asset) + 1 .. Len(plan.asset) + Len(plan.debt)
          /\ a \in Int /\ a \notin Assets
      BY AccountsOf
    <3>2. \A m, n \in Nat : a \in m + 1 .. m + n => a - m \in 1 .. n
      BY <3>1
    <3> QED BY <1>1, <3>1, <3>2
  <2>2. RowOf(a) = plan.debt[a - Len(plan.asset)]
    BY <2>1 DEF RowOf
  <2>3. CASE RowOf(a).connected \/ Seen(a) = {}
    BY <1>1, <2>1, <2>2, <2>3 DEF SeedRow
  <2>4. CASE ~(RowOf(a).connected \/ Seen(a) = {})
    <3>1. SeedRow(a) \in Seen(a)
      BY <2>4 DEF SeedRow
    <3>2. PICK n \in DOMAIN cp.debt : SeedRow(a) = cp.debt[n]
      BY <2>1, <3>1 DEF Seen, cp
    <3> QED BY <1>4, <3>2
  <2> QED BY <2>3, <2>4
<1>7. ASSUME NEW a \in Accounts PROVE SeededBalance(a) \in Int
  <2>1. CASE a = 0
    <3>1. 0 \notin Assets
      <4>1. \A b \in Assets : b >= 1
        BY AccountsOf
      <4> QED BY <4>1
    <3>2. ~IsPosition(a)
      BY <2>1, <3>1 DEF IsPosition
    <3> QED BY <2>1, <3>2 DEF SeededBalance
  <2>2. CASE a # 0 /\ IsPosition(a)
    <3>1. a \in Assets
      BY <2>2 DEF IsPosition
    <3>2. SeedRow(a).units * SeedRow(a).price \in Int /\ Micro \in Nat \ {0}
      BY <1>5, <3>1, LedgerAssumption
    <3>3. BankersRound(SeedRow(a).units * SeedRow(a).price, Micro) \in Int
      BY <3>2, HalfToEven
    <3> QED BY <2>2, <3>3 DEF SeededBalance
  <2>3. CASE a # 0 /\ ~IsPosition(a)
    <3>1. SeededBalance(a) = SeedRow(a).value
      BY <2>3 DEF SeededBalance
    <3>2. a \in Assets \/ a \in Debts
      BY <2>3 DEF Accounts
    <3> QED BY <1>5, <1>6, <3>1, <3>2
  <2> QED BY <2>1, <2>2, <2>3
<1> QED BY <1>5, <1>7 DEF Positions

\* The scenario of a clone.
LEMMA BuildStep == RunInv /\ Build => BooksInv'
<1> SUFFICES ASSUME RunInv, Build PROVE BooksInv'
  OBVIOUS
<1>1. /\ plan' = plan /\ phase = "clone" /\ phase' = "seed"
      /\ balance' = [a \in Accounts |-> SeededBalance(a)]
      /\ carry' = Nothing /\ posted' = Nothing /\ accrued' = Nothing /\ credited' = Nothing
      /\ held' = [a \in Positions |-> [units |-> SeedRow(a).units, price |-> SeedRow(a).price]]
  BY DEF Build, Positions
<1>2. Projectable(plan)
  BY <1>1 DEF RunInv
<1>3. /\ \A a \in Accounts : SeededBalance(a) \in Int
      /\ \A a \in Positions : SeedRow(a).units \in Int /\ SeedRow(a).price \in Int
  BY <1>2, SeedsTyped
<1>4. /\ Debts' = Debts /\ Accounts' = Accounts
      /\ \A a : SeededBalance(a)' = SeededBalance(a) /\ RowOf(a)' = RowOf(a)
      /\ Positions' = Positions
  BY <1>1, PlanSame, PositionsSame
<1>5. held' \in [Positions -> [units : Int, price : Int]]
  BY <1>1, <1>3
<1>6. RateDenom \in Nat
  BY LedgerAssumption
<1>7. ASSUME NEW a \in Accounts
      PROVE  Right(SeededBalance(a), balance'[a], posted'[a], carry'[a], accrued'[a], credited'[a])
  <2>1. /\ balance'[a] = SeededBalance(a) /\ posted'[a] = 0 /\ carry'[a] = 0 /\ accrued'[a] = 0
        /\ credited'[a] = 0 /\ SeededBalance(a) \in Int
    BY <1>1, <1>3 DEF Nothing
  <2>2. 0 = 0 * RateDenom + 0 /\ 2 * Magnitude(0) <= RateDenom
    BY <1>6 DEF Magnitude
  <2>3. SeededBalance(a) = SeededBalance(a) + 0 /\ 0 \in Int
    BY <2>1
  <2> QED BY <2>1, <2>2, <2>3, Zenon DEF Right
<1>8. \A d \in Debts : Ordinary(d)' => balance'[d] >= 0
  BY <1>1, <1>4 DEF Ordinary, Accounts
<1>9. /\ DOMAIN balance' = Accounts /\ DOMAIN posted' = Accounts /\ DOMAIN carry' = Accounts
      /\ DOMAIN accrued' = Accounts /\ DOMAIN credited' = Accounts
  BY <1>1 DEF Nothing
<1>10. StartsFromCheckpoint'
  BY <1>1 DEF StartsFromCheckpoint
<1>11. \A a \in Accounts :
         Right(SeededBalance(a)', balance'[a], posted'[a], carry'[a], accrued'[a], credited'[a])
  BY <1>4, <1>7, Zenon
<1> QED BY <1>4, <1>5, <1>8, <1>9, <1>10, <1>11, Zenon DEF BooksInv

\* What the augment makes of an amount.
LEMMA Amounts ==
  ASSUME Projectable(plan)
  PROVE  /\ \A n \in Int : \A kind, target : Scaled(n, kind, target) \in Int
         /\ \A kind : Extra(kind) \in Int
         /\ LumpSum \in Int
<1>1. plan.augment.halves \in Int
  BY DEF Projectable
<1>2. ASSUME NEW n \in Int, NEW kind, NEW target PROVE Scaled(n, kind, target) \in Int
  <2>1. n * plan.augment.halves \in Int /\ 2 \in Nat \ {0}
    BY <1>1
  <2>2. Round(n * plan.augment.halves, 2) \in Int
    BY <2>1, RoundedInt
  <2> QED BY <2>2 DEF Scaled
<1>3. ASSUME NEW kind PROVE Extra(kind) \in Int
  BY <1>1 DEF Extra
<1>4. LumpSum \in Int
  BY <1>3 DEF LumpSum
<1> QED BY <1>2, <1>3, <1>4

\* What is posted to the cash.
LEMMA CashBooked ==
  ASSUME RunInv, BooksInv, Built, Built', plan' = plan,
         carry' = carry, accrued' = accrued, credited' = credited, held' = held,
         NEW x \in Int, Books(0, x), StartsFromCheckpoint'
  PROVE  BooksInv'
<1>1. Projectable(plan)
  BY DEF RunInv, Built
<1>2. /\ DOMAIN balance = Accounts /\ DOMAIN posted = Accounts
      /\ held \in [Positions -> [units : Int, price : Int]]
      /\ \A a \in Accounts : balance[a] \in Int /\ posted[a] \in Int
  BY DEF BooksInv, Right
<1>3. /\ balance' = [balance EXCEPT ![0] = @ + x] /\ posted' = [posted EXCEPT ![0] = @ + x]
  BY DEF Books, Posts
<1> DEFINE delta == [a \in Accounts |-> IF a = 0 THEN x ELSE 0]
<1>4. DOMAIN balance' = Accounts /\ DOMAIN posted' = Accounts
  BY <1>2, <1>3
<1>5. \A a \in Accounts : /\ delta[a] \in Int
                          /\ balance'[a] = balance[a] + delta[a]
                          /\ posted'[a] = posted[a] + delta[a]
  BY <1>2, <1>3
<1>6. \A d \in Debts : d \in Accounts /\ d # 0
  <2>1. \A d \in Debts : d >= 1
    BY <1>1, AccountsOf
  <2> QED BY <2>1 DEF Accounts
<1>7. \A d \in Debts : balance[d] + delta[d] = balance[d]
  BY <1>2, <1>6
<1> HIDE DEF delta
<1>8. \A d \in Debts : Ordinary(d) /\ balance[d] >= 0 => balance[d] + delta[d] >= 0
  BY <1>7
<1> QED BY <1>2, <1>4, <1>5, <1>8, Booked

\* A step that books nothing.
LEMMA NothingBooked ==
  ASSUME BooksInv, Built, Built', plan' = plan, carry' = carry, accrued' = accrued,
         credited' = credited, balance' = balance, posted' = posted, held' = held,
         StartsFromCheckpoint'
  PROVE  BooksInv'
<1> DEFINE delta == [a \in Accounts |-> 0]
<1>1. /\ DOMAIN balance = Accounts /\ DOMAIN posted = Accounts
      /\ held \in [Positions -> [units : Int, price : Int]]
      /\ \A a \in Accounts : balance[a] \in Int /\ posted[a] \in Int
  BY DEF BooksInv, Right
<1>2. \A a \in Accounts : /\ delta[a] \in Int
                          /\ balance'[a] = balance[a] + delta[a]
                          /\ posted'[a] = posted[a] + delta[a]
  BY <1>1
<1>3. \A d \in Debts : d \in Accounts
  BY DEF Accounts
<1>4. \A d \in Debts : balance[d] + delta[d] = balance[d]
  BY <1>1, <1>3
<1> HIDE DEF delta
<1>5. \A d \in Debts : Ordinary(d) /\ balance[d] >= 0 => balance[d] + delta[d] >= 0
  BY <1>4
<1> QED BY <1>1, <1>2, <1>5, Booked

\* What moves between the cash and another account.
LEMMA MovedBetween ==
  ASSUME RunInv, BooksInv, Built, Built', plan' = plan,
         carry' = carry, accrued' = accrued, credited' = credited,
         held' \in [Positions -> [units : Int, price : Int]],
         NEW to \in Accounts, to # 0, NEW x \in Int, NEW y \in Int,
         balance' = [balance EXCEPT ![0] = @ - x, ![to] = @ + y],
         posted' = [posted EXCEPT ![0] = @ - x, ![to] = @ + y],
         to \in Debts => balance[to] + y >= 0,
         StartsFromCheckpoint'
  PROVE  BooksInv'
<1>1. Projectable(plan)
  BY DEF RunInv, Built
<1>2. /\ DOMAIN balance = Accounts /\ DOMAIN posted = Accounts
      /\ \A a \in Accounts : balance[a] \in Int /\ posted[a] \in Int
  BY DEF BooksInv, Right
<1> DEFINE delta == [a \in Accounts |-> IF a = 0 THEN -x ELSE IF a = to THEN y ELSE 0]
<1>4. DOMAIN balance' = Accounts /\ DOMAIN posted' = Accounts
  BY <1>2
<1>5. ASSUME NEW a \in Accounts
      PROVE  /\ delta[a] \in Int
             /\ balance'[a] = balance[a] + delta[a]
             /\ posted'[a] = posted[a] + delta[a]
  <2>1. CASE a = 0
    BY <1>2, <2>1
  <2>2. CASE a = to
    BY <1>2, <2>2
  <2>3. CASE a # 0 /\ a # to
    BY <1>2, <2>3
  <2> QED BY <2>1, <2>2, <2>3
<1>6. \A d \in Debts : d \in Accounts /\ d # 0
  <2>1. \A d \in Debts : d >= 1
    BY <1>1, AccountsOf
  <2> QED BY <2>1 DEF Accounts
<1>7. \A d \in Debts : balance[d] >= 0 => balance[d] + delta[d] >= 0
  BY <1>2, <1>6
<1> HIDE DEF delta
<1>8. \A d \in Debts : Ordinary(d) /\ balance[d] >= 0 => balance[d] + delta[d] >= 0
  BY <1>7
<1> QED BY <1>4, <1>5, <1>8, Booked

\* The step that seeds what the checkpoint has seen beyond its rows.
LEMMA SeedStep == RunInv /\ BooksInv /\ SeedCheckpoint => BooksInv'
<1> SUFFICES ASSUME RunInv, BooksInv, SeedCheckpoint PROVE BooksInv'
  OBVIOUS
<1> DEFINE x == IF plan.checkpoint = NoCheckpoint THEN 0
                ELSE plan.checkpoint.netWorth - NetWorth(balance)
<1>1. /\ Built /\ Built' /\ plan' = plan /\ held' = held
      /\ carry' = carry /\ accrued' = accrued /\ credited' = credited
      /\ Books(0, x)
  BY DEF SeedCheckpoint, Built
<1>2. Projectable(plan)
  BY <1>1 DEF RunInv, Built
<1>3. /\ DOMAIN balance = Accounts
      /\ \A a \in Accounts : balance[a] \in Int
  BY <1>1 DEF BooksInv, Right
<1>4. plan.checkpoint.netWorth \in Int
  BY <1>2 DEF Projectable, IsCheckpoint
<1>5. NetWorth(balance) \in Int
  <2> DEFINE z == 0
  <2>1. balance[0] = balance[0] + 0
    <3>1. 0 \in Accounts
      BY DEF Accounts
    <3> QED BY <1>3, <3>1
  <2>2. \A a \in Accounts : a # 0 => balance[a] = balance[a]
    OBVIOUS
  <2> QED BY <1>2, <1>3, <2>1, <2>2, WorthOf
<1>6. x \in Int
  BY <1>4, <1>5
<1>7. balance' = [balance EXCEPT ![0] = @ + x]
  BY <1>1 DEF Books
<1> HIDE DEF x
<1>8. NetWorth(balance') = NetWorth(balance) + x
  <2>1. 0 \in Accounts
    BY DEF Accounts
  <2>2. balance'[0] = balance[0] + x /\ \A a \in Accounts : a # 0 => balance'[a] = balance[a]
    BY <1>3, <1>7, <2>1
  <2> QED BY <1>2, <1>3, <1>6, <2>2, WorthOf
<1>9. NetWorth(balance)' = NetWorth(balance) + x
  BY <1>1, <1>8, WorthSame
<1>10. StartsFromCheckpoint'
  <2> SUFFICES ASSUME plan'.checkpoint # NoCheckpoint
               PROVE  NetWorth(balance)' = plan'.checkpoint.netWorth
    BY DEF StartsFromCheckpoint
  <2>1. x = plan.checkpoint.netWorth - NetWorth(balance)
    BY <1>1 DEF x
  <2> QED BY <1>1, <1>4, <1>5, <1>9, <2>1
<1> QED BY <1>1, <1>6, <1>10, CashBooked

\* A turn of the loop over the flows.
LEMMA FlowStep == RunInv /\ BooksInv /\ RunFlow => BooksInv'
<1> SUFFICES ASSUME RunInv, BooksInv, RunFlow PROVE BooksInv'
  OBVIOUS
<1>1. PICK flow : flow = RecurringFlows[k]
  OBVIOUS
<1> DEFINE due == k <= Len(RecurringFlows) /\ ShouldFire(flow)
<1>2. /\ phase = "flows" /\ Turn(Len(RecurringFlows), "extras")
      /\ plan' = plan /\ carry' = carry /\ accrued' = accrued /\ credited' = credited
      /\ IF due /\ flow.kind # "debt_payment"
           THEN CASE flow.kind = "income"   -> Earn(flow, GrownAmount(flow))
                  [] flow.kind = "expense"  -> Spend(flow, GrownAmount(flow))
                  [] flow.kind = "transfer" -> Contribute(flow, GrownAmount(flow))
           ELSE UNCHANGED <<balance, posted, held>>
  BY <1>1 DEF RunFlow
<1>3. Built /\ k \in Nat \ {0}
  BY <1>2 DEF RunInv, Built
<1>4. phase' = "flows" \/ phase' = "extras"
  BY <1>2, <1>3, Turned
<1>5. Built' /\ StartsFromCheckpoint'
  BY <1>4 DEF Built, StartsFromCheckpoint
<1>6. Projectable(plan)
  BY <1>3 DEF RunInv, Built
<1>7. /\ DOMAIN balance = Accounts /\ DOMAIN posted = Accounts
      /\ held \in [Positions -> [units : Int, price : Int]]
      /\ \A a \in Accounts : balance[a] \in Int /\ posted[a] \in Int
      /\ 0 \in Accounts
  BY <1>3 DEF BooksInv, Right, Accounts
<1>8. CASE due /\ flow.kind # "debt_payment"
  <2>1. GoodFlow(flow) /\ IsDate(flow.from) /\ IsDate(date)
    BY <1>1, <1>3, <1>8, Turns
  <2>2. GrownAmount(flow) \in Int
    BY <2>1, GrownInt DEF GoodFlow
  <2>3. PICK amount \in Int : amount = GrownAmount(flow)
    BY <2>2
  <2>4. \/ flow.kind = "income" /\ Earn(flow, amount)
        \/ flow.kind = "expense" /\ Spend(flow, amount)
        \/ flow.kind = "transfer" /\ Contribute(flow, amount)
    BY <1>2, <1>8, <2>1, <2>3 DEF GoodFlow
  <2>5. CASE Earn(flow, amount)
    <3> DEFINE x == IF Effect("pause-income", flow.target) THEN 0
                    ELSE Scaled(amount, "scale-income", flow.target)
    <3>1. x \in Int
      BY <1>6, Amounts
    <3>2. Books(0, x) /\ held' = held
      BY <2>5 DEF Earn
    <3> HIDE DEF x
    <3> QED BY <1>2, <1>3, <1>5, <3>1, <3>2, CashBooked
  <2>6. CASE Spend(flow, amount)
    <3> DEFINE x == IF Effect("pause-expense", flow.target) THEN 0
                    ELSE -Scaled(amount, "scale-expense", flow.target)
    <3>1. x \in Int
      BY <1>6, Amounts
    <3>2. Books(0, x) /\ held' = held
      BY <2>6 DEF Spend
    <3> HIDE DEF x
    <3> QED BY <1>2, <1>3, <1>5, <3>1, <3>2, CashBooked
  <2>7. CASE flow.kind = "transfer" /\ Contribute(flow, amount)
    <3>1. flow.to \in Assets
      BY <2>1, <2>7 DEF GoodFlow
    <3>2. flow.to \in Accounts /\ flow.to # 0 /\ flow.to \notin Debts
      <4>1. \A a \in Assets : a >= 1 /\ a \notin Debts
        BY <1>6, AccountsOf
      <4> QED BY <3>1, <4>1 DEF Accounts
    <3>3. held' \in [Positions -> [units : Int, price : Int]]
      <4>1. CASE flow.to \in DOMAIN held /\ amount > 0 /\ held[flow.to].price > 0
        <5>1. held[flow.to].units \in Int /\ held[flow.to].price \in Nat \ {0}
              /\ amount * Micro \in Int
          BY <1>7, <4>1, LedgerAssumption
        <5>2. BankersRound(amount * Micro, held[flow.to].price) \in Int
          BY <5>1, HalfToEven
        <5>3. PICK u \in Int :
                u = held[flow.to].units + BankersRound(amount * Micro, held[flow.to].price)
          BY <5>1, <5>2
        <5>4. held' = [held EXCEPT ![flow.to].units = u]
          BY <2>7, <4>1, <5>3 DEF Contribute
        <5> QED BY <1>7, <4>1, <5>4
      <4>2. CASE ~(flow.to \in DOMAIN held /\ amount > 0 /\ held[flow.to].price > 0)
        BY <1>7, <2>7, <4>2 DEF Contribute
      <4> QED BY <4>1, <4>2
    <3>4. /\ balance' = [balance EXCEPT ![0] = @ - amount, ![flow.to] = @ + amount]
          /\ posted' = [posted EXCEPT ![0] = @ - amount, ![flow.to] = @ + amount]
      BY <2>7 DEF Contribute
    <3> QED BY <1>2, <1>3, <1>5, <3>2, <3>3, <3>4, MovedBetween
  <2> QED BY <2>4, <2>5, <2>6, <2>7
<1>9. CASE ~(due /\ flow.kind # "debt_payment")
  <2>1. UNCHANGED <<balance, posted, held>>
    BY <1>2, <1>9
  <2> QED BY <1>2, <1>3, <1>5, <1>7, <2>1, NothingBooked
<1> QED BY <1>8, <1>9

\* What one account earns is credited to it or carried.
LEMMA CreditedTo ==
  ASSUME BooksInv, Built, Built', plan' = plan, NEW a \in Accounts,
         NEW x \in Int, NEW c \in Int, NEW e \in Int, NEW r \in Int,
         DOMAIN balance' = Accounts, DOMAIN posted' = Accounts, DOMAIN carry' = Accounts,
         DOMAIN accrued' = Accounts, DOMAIN credited' = Accounts,
         \A b \in Accounts : b # a =>
           /\ balance'[b] = balance[b] /\ posted'[b] = posted[b] /\ carry'[b] = carry[b]
           /\ accrued'[b] = accrued[b] /\ credited'[b] = credited[b],
         balance'[a] = balance[a] + x, posted'[a] = posted[a] + x, carry'[a] = c,
         accrued'[a] = accrued[a] + e, credited'[a] = credited[a] + r,
         carry[a] + e = r * RateDenom + c, 2 * Magnitude(c) <= RateDenom,
         held' \in [Positions -> [units : Int, price : Int]],
         StartsFromCheckpoint',
         a \in Debts /\ Ordinary(a) /\ balance[a] >= 0 => balance[a] + x >= 0
  PROVE  BooksInv'
<1>1. /\ Debts' = Debts /\ Accounts' = Accounts
      /\ \A b : SeededBalance(b)' = SeededBalance(b) /\ RowOf(b)' = RowOf(b)
      /\ Positions' = Positions
  BY PlanSame, PositionsSame
<1>2. /\ \A b \in Accounts :
           Right(SeededBalance(b), balance[b], posted[b], carry[b], accrued[b], credited[b])
      /\ \A d \in Debts : Ordinary(d) => balance[d] >= 0
  BY DEF BooksInv
<1>3. ASSUME NEW b \in Accounts
      PROVE  Right(SeededBalance(b), balance'[b], posted'[b], carry'[b], accrued'[b], credited'[b])
  <2>1. CASE b # a
    BY <1>2, <2>1
  <2>2. CASE b = a
    <3>1. /\ balance[a] \in Int /\ posted[a] \in Int /\ carry[a] \in Int /\ accrued[a] \in Int
          /\ credited[a] \in Int /\ SeededBalance(a) \in Int
          /\ balance[a] = SeededBalance(a) + posted[a]
          /\ accrued[a] = credited[a] * RateDenom + carry[a]
      BY <1>2 DEF Right
    <3>2. /\ balance'[a] \in Int /\ posted'[a] \in Int /\ carry'[a] \in Int
          /\ accrued'[a] \in Int /\ credited'[a] \in Int
          /\ balance'[a] = SeededBalance(a) + posted'[a]
      BY <3>1
    <3>3. accrued'[a] = credited'[a] * RateDenom + carry'[a]
      <4>1. RateDenom \in Int
        BY LedgerAssumption
      <4>2. (credited[a] + r) * RateDenom = credited[a] * RateDenom + r * RateDenom
        BY <3>1, <4>1
      <4>3. credited[a] * RateDenom \in Int /\ r * RateDenom \in Int
        BY <3>1, <4>1
      <4> QED BY <3>1, <4>2, <4>3
    <3> QED BY <2>2, <3>1, <3>2, <3>3 DEF Right
  <2> QED BY <2>1, <2>2
<1>4. ASSUME NEW d \in Debts, Ordinary(d)' PROVE balance'[d] >= 0
  <2>1. Ordinary(d) /\ d \in Accounts /\ balance[d] >= 0
    BY <1>1, <1>2, <1>4 DEF Ordinary, Accounts
  <2>2. CASE d = a
    BY <2>1, <2>2
  <2>3. CASE d # a
    BY <2>1, <2>3
  <2> QED BY <2>2, <2>3
<1>5. \A b \in Accounts :
        Right(SeededBalance(b)', balance'[b], posted'[b], carry'[b], accrued'[b], credited'[b])
  BY <1>1, <1>3, Zenon
<1>6. \A d \in Debts : Ordinary(d)' => balance'[d] >= 0
  BY <1>4
<1> QED BY <1>1, <1>5, <1>6, Zenon DEF BooksInv

\* A turn of the loop over the accounts.
LEMMA InterestStep == RunInv /\ BooksInv /\ Accrue => BooksInv'
<1> SUFFICES ASSUME RunInv, BooksInv, Accrue PROVE BooksInv'
  OBVIOUS
<1>1. /\ phase = "accrual" /\ plan' = plan
      /\ Turn(Len(plan.asset) + Len(plan.debt), "payments")
      /\ IF k \in DOMAIN held THEN ValuePosition(k)
         ELSE IF k \in Accounts /\ Rate(k) # 0 THEN AccrueInterest(k)
         ELSE UNCHANGED books
  BY DEF Accrue
<1>2. Built /\ k \in Nat \ {0}
  BY <1>1 DEF RunInv, Built
<1>3. phase' = "accrual" \/ phase' = "payments"
  BY <1>1, <1>2, Turned
<1>4. Built' /\ StartsFromCheckpoint'
  BY <1>3 DEF Built, StartsFromCheckpoint
<1>5. Projectable(plan)
  BY <1>2 DEF RunInv, Built
<1>6. /\ DOMAIN balance = Accounts /\ DOMAIN posted = Accounts /\ DOMAIN carry = Accounts
      /\ DOMAIN accrued = Accounts /\ DOMAIN credited = Accounts
      /\ held \in [Positions -> [units : Int, price : Int]]
      /\ \A a \in Accounts :
           /\ balance[a] \in Int /\ posted[a] \in Int /\ carry[a] \in Int
           /\ accrued[a] \in Int /\ credited[a] \in Int
           /\ 2 * Magnitude(carry[a]) <= RateDenom
  BY <1>2 DEF BooksInv, Right
<1>7. RateDenom \in Nat \ {0} /\ Micro \in Nat \ {0}
  BY LedgerAssumption
<1>8. CASE k \in DOMAIN held
  <2>1. ValuePosition(k)
    BY <1>1, <1>8
  <2>2. k \in Positions /\ k \in Assets /\ k \in Accounts /\ k # 0
    BY <1>2, <1>6, <1>8 DEF Positions, Accounts
  <2>3. k \notin Debts /\ Rate(k) \in Int
    BY <1>5, <2>2, AccountsOf
  <2>4. PICK rate \in Int : rate = Rate(k)
    BY <2>3
  <2>5. PICK p0 \in Int : p0 = held[k].price
    BY <1>6, <2>2
  <2>6. held[k].units \in Int
    BY <1>6, <2>2
  <2> DEFINE numer == p0 * rate + carry[k]
             delta == BankersRound(numer, RateDenom)
             moves == rate # 0 /\ p0 > 0
             price == IF moves THEN p0 + delta ELSE p0
             x == BankersRound(held[k].units * price, Micro) - balance[k]
  <2>7. /\ held' = [held EXCEPT ![k].price = price]
        /\ carry' = IF moves THEN [carry EXCEPT ![k] = numer - delta * RateDenom] ELSE carry
        /\ accrued' = IF moves THEN [accrued EXCEPT ![k] = @ + p0 * rate] ELSE accrued
        /\ credited' = IF moves THEN [credited EXCEPT ![k] = @ + delta] ELSE credited
        /\ balance' = [balance EXCEPT ![k] = @ + x]
        /\ posted' = [posted EXCEPT ![k] = @ + x]
    BY <2>1, <2>4, <2>5 DEF ValuePosition, Books, Posts
  <2>8. numer \in Int /\ p0 * rate \in Int
    BY <1>6, <2>2
  <2>9. delta \in Int /\ 2 * Magnitude(numer - delta * RateDenom) <= RateDenom
    <3> HIDE DEF numer
    <3> QED BY <1>7, <2>8, HalfToEven
  <2> HIDE DEF delta
  <2>10. price \in Int
    BY <2>9
  <2> HIDE DEF price
  <2>11. x \in Int
    <3>1. held[k].units * price \in Int
      BY <2>6, <2>10
    <3>2. BankersRound(held[k].units * price, Micro) \in Int
      BY <1>7, <3>1, HalfToEven
    <3> QED BY <1>6, <2>2, <3>2
  <2> HIDE DEF x
  <2>12. held' \in [Positions -> [units : Int, price : Int]]
    BY <1>6, <2>2, <2>7, <2>10
  <2>13. delta * RateDenom \in Int
    BY <1>7, <2>9
  <2>14. CASE moves
    <3> DEFINE c == numer - delta * RateDenom
               e == p0 * rate
    <3>1. c \in Int /\ e \in Int /\ carry[k] + e = delta * RateDenom + c
      BY <1>6, <2>2, <2>8, <2>13
    <3>2. 2 * Magnitude(c) <= RateDenom
      BY <2>9
    <3>3. /\ carry' = [carry EXCEPT ![k] = c] /\ accrued' = [accrued EXCEPT ![k] = @ + e]
          /\ credited' = [credited EXCEPT ![k] = @ + delta]
      BY <2>7, <2>14
    <3> HIDE DEF c, e, moves, numer
    <3>4. /\ DOMAIN balance' = Accounts /\ DOMAIN posted' = Accounts /\ DOMAIN carry' = Accounts
          /\ DOMAIN accrued' = Accounts /\ DOMAIN credited' = Accounts
      BY <1>6, <2>7, <3>3
    <3>5. /\ balance'[k] = balance[k] + x /\ posted'[k] = posted[k] + x /\ carry'[k] = c
          /\ accrued'[k] = accrued[k] + e /\ credited'[k] = credited[k] + delta
      BY <1>6, <2>2, <2>7, <3>3
    <3>6. \A b \in Accounts : b # k =>
            /\ balance'[b] = balance[b] /\ posted'[b] = posted[b] /\ carry'[b] = carry[b]
            /\ accrued'[b] = accrued[b] /\ credited'[b] = credited[b]
      BY <1>6, <2>7, <3>3
    <3> QED BY <1>1, <1>2, <1>4, <2>2, <2>3, <2>9, <2>11, <2>12, <3>1, <3>2, <3>4, <3>5, <3>6,
               CreditedTo
  <2>15. CASE ~moves
    <3>1. carry' = carry /\ accrued' = accrued /\ credited' = credited
      BY <2>7, <2>15
    <3>2. /\ carry[k] \in Int /\ carry[k] + 0 = 0 * RateDenom + carry[k]
          /\ 2 * Magnitude(carry[k]) <= RateDenom
      BY <1>6, <1>7, <2>2
    <3>3. /\ DOMAIN balance' = Accounts /\ DOMAIN posted' = Accounts /\ DOMAIN carry' = Accounts
          /\ DOMAIN accrued' = Accounts /\ DOMAIN credited' = Accounts
      BY <1>6, <2>7, <3>1
    <3>4. /\ balance'[k] = balance[k] + x /\ posted'[k] = posted[k] + x /\ carry'[k] = carry[k]
          /\ accrued'[k] = accrued[k] + 0 /\ credited'[k] = credited[k] + 0
      BY <1>6, <2>2, <2>7, <3>1
    <3>5. \A b \in Accounts : b # k =>
            /\ balance'[b] = balance[b] /\ posted'[b] = posted[b] /\ carry'[b] = carry[b]
            /\ accrued'[b] = accrued[b] /\ credited'[b] = credited[b]
      BY <1>6, <2>7, <3>1
    <3>6. 0 \in Int
      OBVIOUS
    <3> HIDE DEF moves, numer
    <3> QED BY <1>1, <1>2, <1>4, <2>2, <2>3, <2>11, <2>12, <3>2, <3>3, <3>4, <3>5, <3>6,
               CreditedTo
  <2> QED BY <2>14, <2>15
<1>9. CASE k \notin DOMAIN held /\ k \in Accounts /\ Rate(k) # 0
  <2>1. AccrueInterest(k) /\ k # 0
    BY <1>1, <1>2, <1>9
  <2>2. PICK rate \in Int : rate = Rate(k)
    BY <1>5, <1>9, <2>1, AccountsOf
  <2> DEFINE e == balance[k] * rate
             numer == e + carry[k]
             cents == BankersRound(numer, RateDenom)
             c == numer - cents * RateDenom
  <2>3. /\ held' = held
        /\ carry' = [carry EXCEPT ![k] = c]
        /\ accrued' = [accrued EXCEPT ![k] = @ + e]
        /\ credited' = [credited EXCEPT ![k] = @ + cents]
        /\ balance' = [balance EXCEPT ![k] = @ + cents]
        /\ posted' = [posted EXCEPT ![k] = @ + cents]
    BY <2>1, <2>2 DEF AccrueInterest, Books, Posts
  <2>4. e \in Int /\ numer \in Int
    BY <1>6, <1>9
  <2>5. k \in Debts /\ Ordinary(k) /\ balance[k] >= 0 => e >= 0
    <3> SUFFICES ASSUME k \in Debts, Ordinary(k), balance[k] >= 0 PROVE e >= 0
      OBVIOUS
    <3>1. rate >= 0
      BY <1>5, <2>2, AccountsOf DEF Ordinary
    <3> QED BY <1>6, <1>9, <3>1
  <2>6. carry[k] \in Int /\ balance[k] \in Int /\ 2 * Magnitude(carry[k]) <= RateDenom
    BY <1>6, <1>9
  <2> HIDE DEF e
  <2>7. e >= 0 => -RateDenom <= 2 * numer
    BY <1>7, <2>4, <2>6 DEF Magnitude
  <2>8. /\ cents \in Int /\ 2 * Magnitude(c) <= RateDenom
        /\ -RateDenom <= 2 * numer => cents >= 0
    <3> HIDE DEF numer
    <3> QED BY <1>7, <2>4, HalfToEven
  <2>9. carry[k] + e = cents * RateDenom + c /\ c \in Int
    <3>1. cents * RateDenom \in Int
      BY <1>7, <2>8
    <3> HIDE DEF cents
    <3> QED BY <2>4, <2>6, <3>1
  <2> HIDE DEF cents, c, numer
  <2>10. k \in Debts /\ Ordinary(k) /\ balance[k] >= 0 => balance[k] + cents >= 0
    BY <2>5, <2>6, <2>7, <2>8
  <2>11. /\ DOMAIN balance' = Accounts /\ DOMAIN posted' = Accounts /\ DOMAIN carry' = Accounts
         /\ DOMAIN accrued' = Accounts /\ DOMAIN credited' = Accounts
    BY <1>6, <2>3
  <2>12. /\ balance'[k] = balance[k] + cents /\ posted'[k] = posted[k] + cents /\ carry'[k] = c
         /\ accrued'[k] = accrued[k] + e /\ credited'[k] = credited[k] + cents
    BY <1>6, <1>9, <2>3
  <2>13. \A b \in Accounts : b # k =>
           /\ balance'[b] = balance[b] /\ posted'[b] = posted[b] /\ carry'[b] = carry[b]
           /\ accrued'[b] = accrued[b] /\ credited'[b] = credited[b]
    BY <1>6, <2>3
  <2>14. held' \in [Positions -> [units : Int, price : Int]]
    BY <1>6, <2>3
  <2> QED BY <1>1, <1>2, <1>4, <1>9, <2>4, <2>8, <2>9, <2>10, <2>11, <2>12, <2>13, <2>14,
             CreditedTo
<1>10. CASE k \notin DOMAIN held /\ ~(k \in Accounts /\ Rate(k) # 0)
  <2>1. UNCHANGED books
    BY <1>1, <1>10
  <2>2. /\ carry' = carry /\ accrued' = accrued /\ credited' = credited /\ balance' = balance
        /\ posted' = posted /\ held' = held
    BY <2>1 DEF books
  <2> QED BY <1>1, <1>2, <1>4, <2>2, NothingBooked
<1> QED BY <1>8, <1>9, <1>10

\* A turn of the loop over the payments.
LEMMA PaymentStep == RunInv /\ BooksInv /\ PayDebt => BooksInv'
<1> SUFFICES ASSUME RunInv, BooksInv, PayDebt PROVE BooksInv'
  OBVIOUS
<1>1. PICK flow : flow = RecurringFlows[k]
  OBVIOUS
<1> DEFINE pays == /\ k <= Len(RecurringFlows) /\ flow.kind = "debt_payment" /\ ShouldFire(flow)
                   /\ ~Effect("pause-debt", flow.target)
                   /\ balance[flow.to] > 0
<1>2. /\ phase = "payments" /\ Turn(Len(RecurringFlows), "floor")
      /\ plan' = plan /\ carry' = carry /\ accrued' = accrued /\ credited' = credited
      /\ held' = held
      /\ pays => /\ balance' = [balance EXCEPT ![0] = @ - Payment(flow),
                                               ![flow.to] = @ - Payment(flow)]
                 /\ posted' = [posted EXCEPT ![0] = @ - Payment(flow),
                                             ![flow.to] = @ - Payment(flow)]
      /\ ~pays => balance' = balance /\ posted' = posted
  BY <1>1 DEF PayDebt
<1>3. Built /\ k \in Nat \ {0}
  BY <1>2 DEF RunInv, Built
<1>4. phase' = "payments" \/ phase' = "floor"
  BY <1>2, <1>3, Turned
<1>5. Built' /\ StartsFromCheckpoint'
  BY <1>4 DEF Built, StartsFromCheckpoint
<1>6. Projectable(plan)
  BY <1>3 DEF RunInv, Built
<1>7. /\ held \in [Positions -> [units : Int, price : Int]]
      /\ \A a \in Accounts : balance[a] \in Int /\ posted[a] \in Int
      /\ DOMAIN balance = Accounts /\ DOMAIN posted = Accounts
  BY <1>3 DEF BooksInv, Right
<1>8. CASE pays
  <2>1. GoodFlow(flow) /\ IsDate(flow.from) /\ IsDate(date)
    BY <1>1, <1>3, <1>8, Turns
  <2>2. GrownAmount(flow) \in Int
    BY <2>1, GrownInt DEF GoodFlow
  <2>3. flow.to \in Debts
    BY <1>8, <2>1 DEF GoodFlow
  <2>4. flow.to \in Accounts /\ flow.to # 0
    <3>1. \A d \in Debts : d >= 1
      BY <1>6, AccountsOf
    <3> QED BY <2>3, <3>1 DEF Accounts
  <2>5. balance[flow.to] \in Int
    BY <1>7, <2>4
  <2>6. Payment(flow) \in Int /\ Payment(flow) <= balance[flow.to]
    BY <2>2, <2>5 DEF Payment, Lesser
  <2>7. PICK x \in Int : x = Payment(flow) /\ x <= balance[flow.to]
    BY <2>6
  <2>8. -x \in Int /\ balance[flow.to] + (-x) >= 0
    BY <2>5, <2>7
  <2>9. /\ balance' = [balance EXCEPT ![0] = @ - x, ![flow.to] = @ + (-x)]
        /\ posted' = [posted EXCEPT ![0] = @ - x, ![flow.to] = @ + (-x)]
    <3>1. /\ balance' = [balance EXCEPT ![0] = @ - x, ![flow.to] = @ - x]
          /\ posted' = [posted EXCEPT ![0] = @ - x, ![flow.to] = @ - x]
      BY <1>2, <1>8, <2>7, Zenon
    <3> QED BY <1>7, <2>4, <3>1
  <2> QED BY <1>2, <1>3, <1>5, <1>7, <2>4, <2>7, <2>8, <2>9, MovedBetween
<1>9. CASE ~pays
  BY <1>2, <1>3, <1>5, <1>9, NothingBooked
<1> QED BY <1>8, <1>9

\* The floor under the debts.
LEMMA FloorStep == RunInv /\ BooksInv /\ FloorDebts => BooksInv'
<1> SUFFICES ASSUME RunInv, BooksInv, FloorDebts PROVE BooksInv'
  OBVIOUS
<1> DEFINE missing == [a \in Accounts |->
                        IF a \in Debts /\ balance[a] < 0 THEN -balance[a] ELSE 0]
<1>1. /\ phase = "floor" /\ phase' = "night" /\ plan' = plan /\ carry' = carry
      /\ accrued' = accrued /\ credited' = credited /\ held' = held
      /\ balance' = [a \in Accounts |-> balance[a] + missing[a]]
      /\ posted' = [a \in Accounts |-> posted[a] + missing[a]]
  BY DEF FloorDebts
<1>2. Built /\ Built' /\ StartsFromCheckpoint'
  BY <1>1 DEF Built, StartsFromCheckpoint
<1>3. /\ held \in [Positions -> [units : Int, price : Int]]
      /\ \A a \in Accounts : balance[a] \in Int /\ posted[a] \in Int
  BY <1>2 DEF BooksInv, Right
<1>4. \A a \in Accounts : missing[a] \in Int /\ (balance[a] >= 0 => missing[a] = 0)
  BY <1>3
<1> HIDE DEF missing
<1>5. \A a \in Accounts : /\ missing[a] \in Int
                          /\ balance'[a] = balance[a] + missing[a]
                          /\ posted'[a] = posted[a] + missing[a]
  BY <1>1, <1>4
<1>6. \A d \in Debts : d \in Accounts
  BY DEF Accounts
<1>7. \A d \in Debts : Ordinary(d) /\ balance[d] >= 0 => balance[d] + missing[d] >= 0
  BY <1>3, <1>4, <1>6
<1>8. DOMAIN balance' = Accounts /\ DOMAIN posted' = Accounts
  BY <1>1
<1> QED BY <1>1, <1>2, <1>3, <1>5, <1>7, <1>8, Booked

\* The books are right in every step.
LEMMA BooksStep == RunInv /\ BooksInv /\ Stepped => BooksInv'
<1> SUFFICES ASSUME RunInv, BooksInv, Stepped PROVE BooksInv'
  OBVIOUS
<1>1. CASE \E p : Projectable(p) /\ Clone(p)
  BY <1>1 DEF Clone, BooksInv, Built
<1>2. CASE Build
  BY <1>2, BuildStep
<1>3. CASE SeedCheckpoint
  BY <1>3, SeedStep
<1>4. CASE AddLumpSum
  <2>1. /\ phase = "lump sum" /\ phase' = "flows" /\ plan' = plan /\ held' = held
        /\ carry' = carry /\ accrued' = accrued /\ credited' = credited /\ Books(0, LumpSum)
    BY <1>4 DEF AddLumpSum
  <2>2. Built /\ Built' /\ StartsFromCheckpoint'
    BY <2>1 DEF Built, StartsFromCheckpoint
  <2>3. LumpSum \in Int
    BY <2>2, Amounts DEF RunInv, Built
  <2> QED BY <2>1, <2>2, <2>3, CashBooked
<1>5. CASE RunFlow
  BY <1>5, FlowStep
<1>6. CASE AddExtras
  <2>1. /\ phase = "extras" /\ phase' = "accrual" /\ plan' = plan /\ held' = held
        /\ carry' = carry /\ accrued' = accrued /\ credited' = credited
        /\ Books(0, Extra("add-income") - Extra("add-expense"))
    BY <1>6 DEF AddExtras
  <2>2. Built /\ Built' /\ StartsFromCheckpoint'
    BY <2>1 DEF Built, StartsFromCheckpoint
  <2>3. Extra("add-income") - Extra("add-expense") \in Int
    <3>1. Extra("add-income") \in Int /\ Extra("add-expense") \in Int
      BY <2>2, Amounts DEF RunInv, Built
    <3> QED BY <3>1
  <2> QED BY <2>1, <2>2, <2>3, CashBooked
<1>7. CASE Accrue
  BY <1>7, InterestStep
<1>8. CASE PayDebt
  BY <1>8, PaymentStep
<1>9. CASE FloorDebts
  BY <1>9, FloorStep
<1>10. CASE NextMorning
  <2>1. /\ phase = "night" /\ phase' = "lump sum" /\ day' = day + 1 /\ plan' = plan /\ held' = held
        /\ carry' = carry /\ accrued' = accrued /\ credited' = credited /\ balance' = balance
        /\ posted' = posted
    BY <1>10 DEF NextMorning, books
  <2>2. day' # 0
    <3>1. day \in Nat
      BY DEF RunInv
    <3>2. day' = day + 1
      BY <2>1, Zenon
    <3>3. \A n \in Nat : n + 1 # 0
      OBVIOUS
    <3> QED BY <3>1, <3>2, <3>3, Zenon
  <2>3. Built /\ Built' /\ StartsFromCheckpoint'
    BY <2>1, <2>2 DEF Built, StartsFromCheckpoint
  <2> QED BY <2>1, <2>3, NothingBooked
<1>11. CASE UNCHANGED vars
  <2>1. /\ phase' = phase /\ day' = day /\ plan' = plan /\ held' = held
        /\ carry' = carry /\ accrued' = accrued /\ credited' = credited /\ balance' = balance
        /\ posted' = posted
    BY <1>11 DEF vars, books
  <2>2. Built' <=> Built
    BY <2>1 DEF Built
  <2>3. CASE Built
    <3>1. NetWorth(balance') = NetWorth(balance)
      BY <2>1, Zenon
    <3>2. NetWorth(balance)' = NetWorth(balance)
      BY <2>1, <3>1, WorthSame
    <3>3. StartsFromCheckpoint
      BY <2>3 DEF BooksInv
    <3>4. StartsFromCheckpoint'
      BY <2>1, <3>2, <3>3, Zenon DEF StartsFromCheckpoint
    <3> QED BY <2>1, <2>2, <2>3, <3>4, NothingBooked
  <2>4. CASE ~Built
    BY <2>2, <2>4 DEF BooksInv
  <2> QED BY <2>3, <2>4
<1> QED BY <1>1, <1>2, <1>3, <1>4, <1>5, <1>6, <1>7, <1>8, <1>9, <1>10, <1>11 DEF Stepped, Run

\* Whatever the plan and however many days of it are run: every account has what it was
\* seeded with and what was posted to it, no fraction of its interest is lost, the run
\* starts from the checkpoint, and no payment takes a debt below nothing.
THEOREM NothingIsLost == Spec => []BooksBalance
<1>1. Init => BooksInv
  BY DEF Init, BooksInv, Built
<1>2. RunInv /\ BooksInv /\ [Next]_vars => (RunInv /\ BooksInv)'
  BY LedgerStepped, RunStep, BooksStep
<1> QED BY <1>1, <1>2, InitRun, BooksSuffice, PTL DEF Spec

-----------------------------------------------------------------------------
(***************************************************************************)
(* The forecast that is shown.                                             *)
(***************************************************************************)

\* Whether a plan makes a simulation read the clock shows in the key.
LEMMA KeyTellsClock ==
  ASSUME NEW p, InStep(p), NEW chosen, NEW n
  PROVE  ReadsClock(PlanOf(Key(p, chosen, n))) = ReadsClock(p)
<1> DEFINE q == PlanOf(Key(p, chosen, n))
<1>1. /\ q.alternatives = p.alternatives /\ q.byAlt = p.byAlt /\ q.checkpoints = p.checkpoints
      /\ q.activeAlt = p.activeAlt /\ q.altChartEnabled = p.altChartEnabled
  BY DEF InStep, Fingerprint, PlanOf, Key
<1> HIDE DEF q
<1>2. Charted(q) = Charted(p)
  BY <1>1, Zenon DEF Charted
<1>3. \A name : CheckpointsOf(q, name) = CheckpointsOf(p, name)
  BY <1>1, Zenon DEF CheckpointsOf
<1>4. \A name : PipelineOf(q, name) = PipelineOf(p, name)
  BY <1>1, Zenon DEF PipelineOf
<1>5. ASSUME NEW name PROVE Undated(q, name) <=> Undated(p, name)
  <2>1. q.alternatives[name] = p.alternatives[name] /\ PipelineOf(q, name) = PipelineOf(p, name)
    BY <1>1, <1>4
  <2> QED BY <2>1, Zenon DEF Undated
<1>6. ReadsClock(q) = ReadsClock(p)
  BY <1>2, <1>3, <1>5, Zenon DEF ReadsClock
<1> QED BY <1>6 DEF q

\* Of a plan that is in step the key says all that a simulation of it reads but the day.
LEMMA KeyIsWhole ==
  ASSUME NEW p, InStep(p), NEW chosen, NEW n, NEW now \in Nat
  PROVE  \E clock \in DaysOf(Key(p, chosen, n), now) :
           Result(p, chosen, n, now) = ResultOf(Key(p, chosen, n), clock)
<1> DEFINE key == Key(p, chosen, n)
           clock == IF ReadsClock(p) THEN now ELSE Timeless
<1>1. clock \in DaysOf(key, now)
  <2>1. now \in 0 .. now
    OBVIOUS
  <2>2. ReadsClock(PlanOf(key)) = ReadsClock(p)
    BY KeyTellsClock
  <2> HIDE DEF key
  <2> QED BY <2>1, <2>2, Zenon DEF DaysOf
<1> HIDE DEF clock
<1>2. Result(p, chosen, n, now) = ResultOf(key, clock)
  BY Zenon DEF InStep, Result, ResultOf, Key, clock
<1> QED BY <1>1, <1>2

\* And what answers the key is the result of one of the days.
LEMMA DayIsADay ==
  ASSUME NEW p, InStep(p), NEW chosen, NEW n, NEW now \in Nat,
         NEW clock \in DaysOf(Key(p, chosen, n), now)
  PROVE  \E d \in 0 .. now : ResultOf(Key(p, chosen, n), clock) = Result(p, chosen, n, d)
<1> DEFINE key == Key(p, chosen, n)
<1>1. ReadsClock(PlanOf(key)) = ReadsClock(p)
  BY KeyTellsClock
<1>2. \A d : (clock = IF ReadsClock(p) THEN d ELSE Timeless)
             => ResultOf(key, clock) = Result(p, chosen, n, d)
  BY Zenon DEF InStep, Result, ResultOf, Key
<1> SUFFICES \E d \in 0 .. now : ResultOf(key, clock) = Result(p, chosen, n, d)
  OBVIOUS
<1> clock \in DaysOf(key, now)
  OBVIOUS
<1> HIDE DEF key
<1>3. CASE ReadsClock(p)
  <2>1. clock \in 0 .. now
    BY <1>1, <1>3 DEF DaysOf
  <2>2. ResultOf(key, clock) = Result(p, chosen, n, clock)
    BY <1>2, <1>3
  <2> QED BY <2>1, <2>2, Zenon
<1>4. CASE ~ReadsClock(p)
  <2>1. clock = Timeless
    BY <1>1, <1>4 DEF DaysOf
  <2>2. 0 \in 0 .. now
    OBVIOUS
  <2>3. ResultOf(key, clock) = Result(p, chosen, n, 0)
    BY <1>2, <1>4, <2>1
  <2> QED BY <2>2, <2>3, Zenon
<1> QED BY <1>3, <1>4

\* Time passes: nothing on the screen becomes wrong by it.
Passes == today \in Nat /\ today' \in Nat /\ today <= today' /\ workers' = workers

\* What the cache and the worker hold stays what some day computed.
LEMMA AnswersStay ==
  ASSUME Passes
  PROVE  /\ \A key, result : Answers(key, result) => Answers(key, result)'
         /\ \A key, result : Asks(key, result) => Asks(key, result)'
<1>1. \A key : DaysOf(key, today) \subseteq DaysOf(key, today')
  <2>1. 0 .. today \subseteq 0 .. today'
    BY DEF Passes
  <2> QED BY <2>1, Zenon DEF DaysOf
<1>2. workers' = workers
  BY DEF Passes
<1> QED BY <1>1, <1>2, Zenon DEF Answers, Asks

\* What the worker answers a request with.
LEMMA ComputedAnswers ==
  ASSUME today \in Nat, NEW key, NEW sent, Asks(key, sent), NEW result \in Computed(sent)
  PROVE  Answers(key, result)
<1> PICK clock \in DaysOf(key, today) : sent = ResultOf(key, clock)
  BY DEF Asks
<1>1. sent.day = clock
  BY DEF ResultOf
<1>2. CASE clock = Timeless
  BY <1>1, <1>2, Zenon DEF Computed, Answers
<1>3. CASE clock # Timeless
  <2>1. ReadsClock(PlanOf(key)) /\ clock \in 0 .. today
    BY <1>3, Zenon DEF DaysOf
  <2> PICK now \in clock .. today : result = [sent EXCEPT !.day = now]
    BY <1>1, <1>3, Zenon DEF Computed
  <2>2. result = ResultOf(key, now)
    BY DEF ResultOf
  <2>3. now \in 0 .. today
    BY <2>1
  <2>4. now \in DaysOf(key, today)
    BY <2>1, <2>3, Zenon DEF DaysOf
  <2> QED BY <2>2, <2>4, Zenon DEF Answers
<1> QED BY <1>2, <1>3

\* The invariant is what the dashboard promises.
LEMMA ForecastInvSuffices == ForecastInv => ForecastIsCurrent
<1> SUFFICES ASSUME ForecastInv PROVE ForecastIsCurrent
  OBVIOUS
<1>1. CASE mounted
  <2> DEFINE key == Key(store, settings, runs)
  <2>1. ShownFor(key)
    BY <1>1 DEF ForecastInv, ScreenTrue
  <2>2. InStep(store) /\ today \in Nat
    BY <1>1 DEF ForecastInv, PlanInStep
  <2>3. ASSUME ~loading, ~failed
        PROVE  \E now \in 0 .. today :
                 LET result == Result(store, settings, runs, now)
                 IN shown = result \/ (~workers /\ shown = Capped(result))
    <3>1. Answers(key, shown)
      BY <2>1, <2>3 DEF ShownFor
    <3> PICK clock \in DaysOf(key, today) :
          shown = ResultOf(key, clock) \/ (~workers /\ shown = Capped(ResultOf(key, clock)))
      BY <3>1, Zenon DEF Answers
    <3> PICK now \in 0 .. today : ResultOf(key, clock) = Result(store, settings, runs, now)
      BY <2>2, DayIsADay
    <3> HIDE DEF key
    <3> QED BY Zenon
  <2> HIDE DEF key
  <2> QED BY <1>1, <2>1, <2>3 DEF ForecastIsCurrent, ShownFor, Awaits
<1>2. CASE ~mounted
  BY <1>2 DEF ForecastIsCurrent
<1> QED BY <1>1, <1>2

-----------------------------------------------------------------------------
\* Entries that move or go leave answers.
LEMMA ButOne ==
  ASSUME CacheTrue, NEW i \in DOMAIN cache
  PROVE  /\ IsSequence(Removed(cache, i))
         /\ \A j \in DOMAIN Removed(cache, i) :
              Answers(Removed(cache, i)[j].key, Removed(cache, i)[j].result)
<1>1. Len(cache) \in Nat /\ DOMAIN cache = 1 .. Len(cache)
  BY Sequence DEF CacheTrue
<1>2. Len(cache) - 1 \in Nat
  BY <1>1
<1>3. DOMAIN Removed(cache, i) = 1 .. Len(cache) - 1
  BY DEF Removed
<1>4. IsSequence(Removed(cache, i))
  BY <1>2, <1>3, Listed DEF Removed
<1>5. ASSUME NEW j \in 1 .. Len(cache) - 1
      PROVE  Answers(Removed(cache, i)[j].key, Removed(cache, i)[j].result)
  <2>1. j \in DOMAIN cache /\ j + 1 \in DOMAIN cache
    BY <1>1
  <2>2. Removed(cache, i)[j] = cache[j] \/ Removed(cache, i)[j] = cache[j + 1]
    BY DEF Removed
  <2> QED BY <2>1, <2>2 DEF CacheTrue
<1> QED BY <1>3, <1>4, <1>5

\* An answer that is added to a cache of answers.
LEMMA OneMore ==
  ASSUME NEW s, IsSequence(s), \A i \in DOMAIN s : Answers(s[i].key, s[i].result),
         NEW e, Answers(e.key, e.result)
  PROVE  /\ IsSequence(Append(s, e))
         /\ \A i \in DOMAIN Append(s, e) :
              Answers(Append(s, e)[i].key, Append(s, e)[i].result)
<1>1. Len(s) \in Nat /\ DOMAIN s = 1 .. Len(s)
  BY Sequence
<1>2. /\ IsSequence(Append(s, e)) /\ DOMAIN Append(s, e) = 1 .. Len(s) + 1
      /\ \A i \in DOMAIN s : Append(s, e)[i] = s[i]
      /\ Append(s, e)[Len(s) + 1] = e
  BY Appended
<1>3. ASSUME NEW i \in 1 .. Len(s) + 1
      PROVE  Answers(Append(s, e)[i].key, Append(s, e)[i].result)
  <2>1. CASE i = Len(s) + 1
    BY <1>2, <2>1
  <2>2. CASE i # Len(s) + 1
    <3>1. i \in DOMAIN s
      BY <1>1, <2>2
    <3> QED BY <1>2, <3>1
  <2> QED BY <2>1, <2>2
<1> QED BY <1>2, <1>3

\* A hit and a new answer keep the cache true.
LEMMA CacheStaysTrue ==
  ASSUME CacheTrue, Passes,
         \/ \E i \in DOMAIN cache : cache' = Refreshed(i)
         \/ \E key, result : Answers(key, result) /\ cache' = Cached(key, result)
  PROVE  CacheTrue'
<1> SUFFICES /\ IsSequence(cache')
             /\ \A i \in DOMAIN cache' : Answers(cache'[i].key, cache'[i].result)
  BY AnswersStay DEF CacheTrue
<1>1. ASSUME NEW i \in DOMAIN cache, cache' = Refreshed(i)
      PROVE  /\ IsSequence(cache')
             /\ \A j \in DOMAIN cache' : Answers(cache'[j].key, cache'[j].result)
  <2>1. Answers(cache[i].key, cache[i].result)
    BY DEF CacheTrue
  <2> QED BY <1>1, <2>1, ButOne, OneMore DEF Refreshed
<1>2. ASSUME NEW key, NEW result, Answers(key, result), cache' = Cached(key, result)
      PROVE  /\ IsSequence(cache')
             /\ \A j \in DOMAIN cache' : Answers(cache'[j].key, cache'[j].result)
  <2> DEFINE others == IF Hits(key) = {} THEN cache
                       ELSE Removed(cache, CHOOSE i \in Hits(key) : TRUE)
             entry == [key |-> key, result |-> result]
             all == Append(others, entry)
  <2>1. IsSequence(others) /\ \A j \in DOMAIN others : Answers(others[j].key, others[j].result)
    <3>1. CASE Hits(key) = {}
      BY <3>1 DEF CacheTrue
    <3>2. CASE Hits(key) # {}
      <4>1. (CHOOSE i \in Hits(key) : TRUE) \in DOMAIN cache
        BY <3>2 DEF Hits
      <4> QED BY <3>2, <4>1, ButOne
    <3> QED BY <3>1, <3>2
  <2>2. Answers(entry.key, entry.result)
    BY <1>2
  <2> HIDE DEF others, entry
  <2>3. IsSequence(all) /\ \A j \in DOMAIN all : Answers(all[j].key, all[j].result)
    BY <2>1, <2>2, OneMore
  <2>4. all # << >>
    <3>1. Len(all) = Len(others) + 1 /\ Len(others) \in Nat
      BY <2>1, Appended, Sequence
    <3> HIDE DEF all
    <3>2. Len(all) # 0
      BY <3>1
    <3> QED BY <3>2
  <2>5. cache' = IF Len(all) > MaxEntries THEN Tail(all) ELSE all
    BY <1>2, Zenon DEF Cached, others, entry
  <2> HIDE DEF all
  <2>6. /\ IsSequence(Tail(all))
        /\ \A j \in DOMAIN Tail(all) : j + 1 \in DOMAIN all /\ Tail(all)[j] = all[j + 1]
    BY <2>3, <2>4, Tailed
  <2> QED BY <2>3, <2>5, <2>6
<1> QED BY <1>1, <1>2

\* An effect leaves what is shown, awaited or failed for the key of its plan.
LEMMA SimulateIsTrue ==
  ASSUME CacheTrue, RequestsTrue, Passes,
         NEW p, InStep(p), NEW chosen, NEW n, Simulate(p, chosen, n)
  PROVE  /\ CacheTrue' /\ RequestsTrue' /\ ShownFor(Key(p, chosen, n))'
         /\ loading' \in BOOLEAN
<1> DEFINE key == Key(p, chosen, n)
           result == Result(p, chosen, n, today)
<1>1. /\ Asks(key, result)
      /\ ~workers => Answers(key, Capped(result))
  <2>1. \E clock \in DaysOf(key, today) : result = ResultOf(key, clock)
    BY KeyIsWhole DEF Passes
  <2> HIDE DEF key, result
  <2> QED BY <2>1, Zenon DEF Asks, Answers
<1>2. \/ /\ \E i \in Hits(key) : cache' = Refreshed(i) /\ shown' = cache[i].result
         /\ loading' = FALSE /\ current' = 0
         /\ UNCHANGED <<asked, worker, inWorker, pending>>
      \/ Post(key, result)
      \/ /\ ~workers /\ Answered(key, Capped(result))
         /\ UNCHANGED <<asked, worker, inWorker, pending>>
      \/ Refused
  BY Zenon DEF Simulate
<1> HIDE DEF key, result
<1>3. CASE /\ \E i \in Hits(key) : cache' = Refreshed(i) /\ shown' = cache[i].result
           /\ loading' = FALSE /\ current' = 0
           /\ UNCHANGED <<asked, worker, inWorker, pending>>
  <2> PICK i \in Hits(key) : cache' = Refreshed(i) /\ shown' = cache[i].result
    BY <1>3
  <2>1. i \in DOMAIN cache /\ cache[i].key = key
    BY DEF Hits
  <2>2. CacheTrue'
    BY <2>1, CacheStaysTrue
  <2>3. RequestsTrue'
    BY <1>3, AnswersStay DEF RequestsTrue
  <2>4. Answers(key, shown)'
    <3>1. Answers(key, cache[i].result)
      BY <2>1 DEF CacheTrue
    <3> PICK found : found = cache[i].result
      OBVIOUS
    <3>2. Answers(key, found)'
      BY <3>1, AnswersStay
    <3> QED BY <3>2
  <2> QED BY <1>3, <2>2, <2>3, <2>4 DEF ShownFor, key
<1>4. CASE Post(key, result)
  <2> DEFINE request == [id |-> asked + 1, key |-> key, result |-> result]
  <2>1. /\ asked' = asked + 1 /\ current' = asked + 1 /\ worker' = TRUE /\ loading' = TRUE
        /\ inWorker' = Append(inWorker, request) /\ pending' = pending \union {asked + 1}
        /\ UNCHANGED cache
    BY <1>4 DEF Post
  <2>2. request.id = asked + 1 /\ request.key = key /\ Asks(request.key, request.result)
    BY <1>1
  <2> HIDE DEF request
  <2>3. /\ asked \in Nat /\ IsSequence(inWorker) /\ pending \subseteq 1 .. asked
        /\ Len(inWorker) \in Nat /\ DOMAIN inWorker = 1 .. Len(inWorker)
        /\ \A i \in DOMAIN inWorker :
             inWorker[i].id \in 1 .. asked /\ Asks(inWorker[i].key, inWorker[i].result)
        /\ \A i, j \in DOMAIN inWorker : inWorker[i].id = inWorker[j].id => i = j
    BY Sequence DEF RequestsTrue
  <2>4. /\ IsSequence(inWorker') /\ DOMAIN inWorker' = 1 .. Len(inWorker) + 1
        /\ \A i \in DOMAIN inWorker : inWorker'[i] = inWorker[i]
        /\ inWorker'[Len(inWorker) + 1] = request
    BY <2>1, <2>3, Appended
  <2>5. \A i \in 1 .. Len(inWorker) + 1 : i \in DOMAIN inWorker \/ i = Len(inWorker) + 1
    BY <2>3
  <2>6. \A i \in DOMAIN inWorker' :
          inWorker'[i].id \in 1 .. asked' /\ Asks(inWorker'[i].key, inWorker'[i].result)
    BY <2>1, <2>2, <2>3, <2>4, <2>5
  <2>7. \A i, j \in DOMAIN inWorker' : inWorker'[i].id = inWorker'[j].id => i = j
    <3>1. \A i \in DOMAIN inWorker : inWorker'[i].id # asked + 1
      BY <2>3, <2>4
    <3>2. inWorker'[Len(inWorker) + 1].id = asked + 1
      BY <2>2, <2>4
    <3> SUFFICES ASSUME NEW i \in DOMAIN inWorker', NEW j \in DOMAIN inWorker',
                        inWorker'[i].id = inWorker'[j].id
                 PROVE  i = j
      OBVIOUS
    <3>3. CASE i \in DOMAIN inWorker /\ j \in DOMAIN inWorker
      BY <2>3, <2>4, <3>3
    <3>4. CASE i \notin DOMAIN inWorker
      <4>1. i = Len(inWorker) + 1
        BY <2>4, <2>5, <3>4
      <4>2. j \notin DOMAIN inWorker
        BY <3>1, <3>2, <4>1
      <4> QED BY <2>4, <2>5, <4>1, <4>2
    <3>5. CASE j \notin DOMAIN inWorker
      <4>1. j = Len(inWorker) + 1
        BY <2>4, <2>5, <3>5
      <4>2. i \notin DOMAIN inWorker
        BY <3>1, <3>2, <4>1
      <4> QED BY <2>4, <2>5, <4>1, <4>2
    <3> QED BY <3>3, <3>4, <3>5
  <2>8. RequestsTrue'
    <3>1. asked' \in Nat /\ pending' \subseteq 1 .. asked'
      BY <2>1, <2>3
    <3> QED BY <2>4, <2>6, <2>7, <3>1, AnswersStay DEF RequestsTrue
  <2>9. Awaits(key)'
    <3>1. Len(inWorker) + 1 \in DOMAIN inWorker'
      BY <2>3, <2>4
    <3> QED BY <2>1, <2>2, <2>4, <3>1 DEF Awaits, key
  <2>10. CacheTrue'
    BY <2>1, AnswersStay DEF CacheTrue
  <2> QED BY <2>1, <2>8, <2>9, <2>10 DEF ShownFor, key
<1>5. CASE /\ ~workers /\ Answered(key, Capped(result))
           /\ UNCHANGED <<asked, worker, inWorker, pending>>
  <2>1. Answers(key, Capped(result))
    BY <1>1, <1>5
  <2>2. CacheTrue'
    BY <1>5, <2>1, CacheStaysTrue DEF Answered
  <2>3. RequestsTrue'
    BY <1>5, AnswersStay DEF RequestsTrue
  <2>4. Answers(key, shown)'
    <3> PICK capped : capped = Capped(result)
      OBVIOUS
    <3>1. Answers(key, capped)'
      BY <2>1, AnswersStay
    <3> QED BY <1>5, <3>1 DEF Answered
  <2> QED BY <1>5, <2>2, <2>3, <2>4 DEF ShownFor, Answered, key
<1>6. CASE Refused
  <2>1. loading' = FALSE /\ failed' = TRUE /\ current' = 0
        /\ UNCHANGED <<asked, inWorker, pending, cache>>
    BY <1>6 DEF Refused
  <2>2. CacheTrue' /\ RequestsTrue'
    BY <2>1, AnswersStay DEF CacheTrue, RequestsTrue
  <2> QED BY <2>1, <2>2 DEF ShownFor
<1> QED BY <1>2, <1>3, <1>4, <1>5, <1>6

-----------------------------------------------------------------------------
(***************************************************************************)
(* The plan.                                                               *)
(***************************************************************************)

\* What the effects of a commit leave is in step.
LEMMA SettledInStep ==
  ASSUME NEW p, DOMAIN p = PlanFields
  PROVE  InStep(Settled(p))
<1> DEFINE q == WithMonthly(p)
<1>1. DOMAIN q = PlanFields
  BY Zenon DEF WithMonthly
<1> HIDE DEF q
<1>2. q.fingerprint = Fingerprint(q) => InStep(q)
  BY <1>1 DEF InStep
<1>3. InStep(Resampled(q))
  <2>1. DOMAIN Resampled(q) = PlanFields /\ Resampled(q).fingerprint = Fingerprint(q)
    BY <1>1 DEF Resampled, PlanFields
  <2>2. \A x \in PlanFields \ {"seed", "fingerprint"} : Resampled(q)[x] = q[x]
    BY <1>1 DEF Resampled
  <2>3. Fingerprint(Resampled(q)) = Fingerprint(q)
    BY <2>2 DEF Fingerprint, PlanFields
  <2> QED BY <2>1, <2>3 DEF InStep
<1> QED BY <1>2, <1>3 DEF Settled, EnsureForecastSeed, q

\* So is the plan after an edit of a plan document; a month may pass.
Committed ==
  /\ InStep(store)' /\ projected = "none" /\ projected' = "none"
  /\ today' = today \/ today' = today + 31

\* An edit leaves the document in step with its fingerprint, and projects nothing.
LEMMA Edited ==
  ASSUME NEW p, DOMAIN p = PlanFields, Edit(p)
  PROVE  Committed
  BY SettledInStep DEF Edit, Committed

\* No edit takes a field from the document.
LEMMA Fields ==
  ASSUME NEW p, DOMAIN p = PlanFields
  PROVE  /\ \A name, alt : DOMAIN SetAlternative(p, name, alt) = PlanFields
         /\ \A edges : DOMAIN SetEdges(p, edges) = PlanFields
         /\ \A kind, n : DOMAIN Slip(p, kind, n) = PlanFields
         /\ \A old, new : DOMAIN Renamed(p, old, new) = PlanFields
         /\ \A name : DOMAIN WithCheckpoint(p, name) = PlanFields
         /\ DOMAIN Resampled(p) = PlanFields
<1>1. \A name, alt : DOMAIN SetAlternative(p, name, alt) = PlanFields
  BY DEF SetAlternative
<1>2. \A edges : DOMAIN SetEdges(p, edges) = PlanFields
  BY DEF SetEdges
<1>3. \A kind, n : DOMAIN Slip(p, kind, n) = PlanFields
  BY Zenon DEF Slip
<1>4. \A old, new : DOMAIN Renamed(p, old, new) = PlanFields
  BY DEF Renamed
<1>5. \A name : DOMAIN WithCheckpoint(p, name) = PlanFields
  BY Zenon DEF WithCheckpoint
<1>6. DOMAIN Resampled(p) = PlanFields
  BY DEF Resampled
<1> QED BY <1>1, <1>2, <1>3, <1>4, <1>5, <1>6

\* An edit in the Accounts screen.
LEMMA AccountsEdited ==
  ASSUME DOMAIN store = PlanFields, EditAccounts
  PROVE  Committed
<1> USE Edited, Fields
<1>1. ASSUME NEW name, SelectAlternative(name)
      PROVE  Committed
  <2>1. Edit([store EXCEPT !.activeAlt = name])
    BY <1>1 DEF SelectAlternative
  <2> QED BY <2>1
<1>2. ASSUME NEW name, DeleteAlternative(name)
      PROVE  Committed
  <2>1. Edit([store EXCEPT !.alternatives = Without(@, store.activeAlt),
                           !.altChartEnabled = Without(@, store.activeAlt),
                           !.activeAlt = name])
    BY <1>2 DEF DeleteAlternative
  <2> QED BY <2>1
<1>3. ASSUME NEW name, NEW alt, Added(name, alt)
      PROVE  Committed
  <2>1. Edit([store EXCEPT !.alternatives = Put(@, name, alt), !.activeAlt = name,
                           !.altChartEnabled = Put(@, name, TRUE)])
    BY <1>3 DEF Added
  <2> QED BY <2>1
<1>4. CASE NewAlternative
  BY <1>3, <1>4, Zenon DEF NewAlternative
<1>5. ASSUME NEW name, CloneAlternative(name)
      PROVE  Committed
  BY <1>3, <1>5, Zenon DEF CloneAlternative
<1>6. ASSUME NEW name, RenameAlternative(name)
      PROVE  Committed
  BY <1>6, Zenon DEF RenameAlternative
<1>7. ASSUME NEW kind, AddRow(kind)
      PROVE  Committed
  BY <1>7, Zenon DEF AddRow
<1>8. ASSUME NEW kind, NEW n, DeleteRow(kind, n)
      PROVE  Committed
  <2>1. DOMAIN SetAlternative(store, store.activeAlt,
                              [Alt EXCEPT ![kind] = Removed(@, n)]) = PlanFields
    BY Zenon
  <2> QED BY <1>8, <2>1, Zenon DEF DeleteRow
<1>9. ASSUME NEW n, NEW kind, NEW field, NEW to, EditCell(n, kind, field, to)
      PROVE  Committed
  BY <1>9, Zenon DEF EditCell
<1>10. ASSUME NEW n, AskQuote(n)
       PROVE  Committed
  BY <1>10, Zenon DEF AskQuote
<1> QED
  BY <1>1, <1>2, <1>4, <1>5, <1>6, <1>7, <1>8, <1>9, <1>10, Zenon DEF EditAccounts, EditRow

\* An edit in the Pipeline Builder.
LEMMA PipelineEdited ==
  ASSUME DOMAIN store = PlanFields, EditPipeline
  PROVE  Committed
<1> USE Edited, Fields
<1>1. \A edges, applied : DOMAIN UpdatePipeline(edges, applied) = PlanFields
  BY Zenon DEF UpdatePipeline
<1>2. ASSUME NEW kind, AddNode(kind)
      PROVE  Committed
  BY <1>2, Zenon DEF AddNode
<1>3. ASSUME NEW kind, NEW n, DeleteNode(kind, n)
      PROVE  Committed
  BY <1>3, Zenon DEF DeleteNode
<1>4. ASSUME NEW from, NEW to, NEW form, CreateFlow(from, to, form)
      PROVE  Committed
  BY <1>1, <1>4, Zenon DEF CreateFlow
<1>5. ASSUME NEW i, DeleteFlow(i)
      PROVE  Committed
  BY <1>1, <1>5, Zenon DEF DeleteFlow
<1>6. ASSUME NEW i, NEW form, EditFlow(i, form)
      PROVE  Committed
  BY <1>1, <1>6, Zenon DEF EditFlow
<1>7. ASSUME NEW n, NEW kind, NEW field, NEW to, SaveNode(n, kind, field, to)
      PROVE  Committed
  BY <1>7, Zenon DEF SaveNode
<1>8. CASE ArrangeNodes
  BY <1>1, <1>8, Zenon DEF ArrangeNodes
<1> QED BY <1>2, <1>3, <1>4, <1>5, <1>6, <1>7, <1>8, Zenon DEF EditPipeline, EditRow

\* An edit of goals, augments and checkpoints.
LEMMA OtherEdited ==
  ASSUME InStep(store), EditOther
  PROVE  Committed
<1> USE Edited, Fields
<1>1. DOMAIN store = PlanFields
  BY DEF InStep
<1>2. ASSUME NEW goals, SetGoals(goals)
      PROVE  Committed
  <2>1. Edit([store EXCEPT !.goals = Put(@, store.activeAlt, goals)])
    BY <1>2 DEF SetGoals
  <2> QED BY <1>1, <2>1
<1>3. ASSUME NEW augments, SetAugments(augments)
      PROVE  Committed
  <2>1. Edit([store EXCEPT !.augments = augments])
    BY <1>3 DEF SetAugments
  <2> QED BY <1>1, <2>1
<1>4. CASE SaveCheckpoint
  BY <1>1, <1>4, Zenon DEF SaveCheckpoint
<1>5. CASE SwitchMonthly
  <2>1. Edit([store EXCEPT !.autoMonthly = ~@])
    BY <1>5 DEF SwitchMonthly
  <2> QED BY <1>1, <2>1
<1>6. CASE MonthPasses
  BY <1>6 DEF MonthPasses, InStep, Fingerprint, Committed
<1> QED
  BY <1>2, <1>3, <1>4, <1>5, <1>6, Zenon
  DEF EditOther, AddGoal, RemoveGoal, AddAugment, RemoveAugment, ToggleAugment

\* An edit on the dashboard.
LEMMA DashboardEdited ==
  ASSUME DOMAIN store = PlanFields, EditOnDashboard
  PROVE  Committed
<1> USE Edited, Fields
<1>1. ASSUME NEW name, ToggleChart(name)
      PROVE  Committed
  <2>1. Edit([store EXCEPT !.altChartEnabled = Put(@, name, ~At(@, name, FALSE))])
    BY <1>1 DEF ToggleChart
  <2> QED BY <2>1
<1>2. CASE ToggleAugment
  <2>1. Edit([store EXCEPT !.augments = <<~Head(store.augments)>>])
    BY <1>2 DEF ToggleAugment, SetAugments
  <2> QED BY <2>1
<1>3. CASE Resample
  BY <1>3, Zenon DEF Resample
<1>4. ASSUME NEW n, NEW kind, NEW field, NEW to, CheckIn(n, kind, field, to)
      PROVE  Committed
  BY <1>4, Zenon DEF CheckIn
<1> QED BY <1>1, <1>2, <1>3, <1>4, Zenon DEF EditOnDashboard, EditRow

\* A quote that arrives.
LEMMA QuoteWritten ==
  ASSUME DOMAIN store = PlanFields, NEW price, QuoteArrives(price)
  PROVE  Committed
<1> DEFINE put == SetAlternative(store, quote.name,
                    [quote.alt EXCEPT !.asset[quote.n] = Quoted(@, price)])
<1>1. DOMAIN put = PlanFields
  BY Fields, Zenon
<1> HIDE DEF put
<1> DEFINE slipped == [put EXCEPT !.byAlt[quote.name].edges =
                         [i \in DOMAIN @ |-> [@[i] EXCEPT !.slipped = TRUE]]]
<1>2. DOMAIN slipped = PlanFields
  BY <1>1, Zenon
<1>3. (store' = Settled(put) \/ store' = Settled(slipped)) /\ projected = "none"
      /\ UNCHANGED <<projected, today>>
  BY Zenon DEF QuoteArrives, put, slipped
<1> HIDE DEF slipped
<1> QED BY <1>1, <1>2, <1>3, SettledInStep DEF Committed

-----------------------------------------------------------------------------
(***************************************************************************)
(* The steps.                                                              *)
(***************************************************************************)

\* The inductive invariant holds at the start.
LEMMA InitForecastInv == DashboardInit => ForecastInv
<1> SUFFICES ASSUME DashboardInit PROVE ForecastInv
  OBVIOUS
<1>1. PICK s \in Sessions : PlanInit(s)
  BY DEF DashboardInit
<1>2. DOMAIN s.plan = PlanFields
  BY PlanningAssumption DEF IsPlan
<1>3. /\ ~mounted /\ mounted = FALSE /\ loading = FALSE /\ current = 0 /\ asked = 0
      /\ inWorker = << >> /\ pending = {} /\ cache = << >>
  BY DEF DashboardInit
<1>4. PlanInStep
  <2>1. CASE projected = "none" /\ store = Settled(s.plan)
    <3>1. InStep(store)
      BY <1>2, <2>1, SettledInStep
    <3> QED BY <2>1, <3>1 DEF PlanInStep, InStep
  <2>2. CASE projected = "a plan" /\ store = s.plan
    BY <1>2, <1>3, <2>2 DEF PlanInStep
  <2> QED BY <1>1, <2>1, <2>2 DEF PlanInit
<1>5. IsSequence(<< >>) /\ DOMAIN << >> = {}
  <2>1. << >> \in Seq({}) /\ DOMAIN << >> = {}
    OBVIOUS
  <2>2. IsSequence(<< >>)
    BY <2>1, SequenceOver
  <2> QED BY <2>1, <2>2
<1>6. CacheTrue /\ RequestsTrue /\ ScreenTrue
  BY <1>3, <1>5 DEF CacheTrue, RequestsTrue, ScreenTrue
<1>7. today \in Nat
  BY <1>1 DEF PlanInit
<1> QED BY <1>3, <1>4, <1>6, <1>7 DEF ForecastInv

\* What is shown for a key and not touched stays right for it.
LEMMA StaysShown ==
  ASSUME Passes, UNCHANGED <<shown, loading, failed, current, worker, inWorker, pending>>,
         NEW key, ShownFor(key)
  PROVE  ShownFor(key)'
<1> PICK now : now = shown
  OBVIOUS
<1>1. Answers(key, now) => Answers(key, now)'
  BY AnswersStay
<1>2. Answers(key, shown) => Answers(key, shown)'
  BY <1>1
<1> QED BY <1>2 DEF ShownFor, Awaits

\* After a commit with a plan in step the screen is right for it.
LEMMA ReactIsTrue ==
  ASSUME ForecastInv, mounted, InStep(store), Passes,
         NEW p, InStep(p), NEW chosen, React(p, chosen)
  PROVE  /\ CacheTrue' /\ RequestsTrue' /\ loading' \in BOOLEAN
         /\ \E key : key = Key(p, settings', runs') /\ ShownFor(key)'
<1> DEFINE new == p.seed # store.seed \/ p.fingerprint # store.fingerprint
                  \/ Clamped(chosen) # settings
<1>1. PICK n, c : /\ settings' = c /\ runs' = n /\ c = Clamped(chosen)
                  /\ IF Key(p, c, n) = Key(store, settings, runs)
                     THEN UNCHANGED <<shown, loading, failed, current, host>>
                     ELSE Simulate(p, c, n)
  <2> DEFINE m == IF new THEN FewRuns ELSE runs
             d == Clamped(chosen)
  <2>1. /\ settings' = d /\ runs' = m
        /\ IF Key(p, d, m) = Key(store, settings, runs)
           THEN UNCHANGED <<shown, loading, failed, current, host>>
           ELSE Simulate(p, d, m)
    BY Zenon DEF React
  <2> HIDE DEF m, new
  <2>2. PICK n, c : n = m /\ c = d
    OBVIOUS
  <2> QED BY <2>1, <2>2, Zenon
<1> DEFINE key == Key(p, c, n)
<1>2. key = Key(p, settings', runs')
  BY <1>1, Zenon
<1>3. CASE key = Key(store, settings, runs)
  <2>1. UNCHANGED <<shown, loading, failed, current, asked, worker, inWorker, pending, cache>>
    BY <1>1, <1>3, Zenon DEF host
  <2>2. ShownFor(key)
    BY <1>3, Zenon DEF ForecastInv, ScreenTrue
  <2> HIDE DEF key
  <2>3. CacheTrue' /\ RequestsTrue' /\ loading' \in BOOLEAN
    BY <2>1, AnswersStay DEF ForecastInv, CacheTrue, RequestsTrue
  <2>4. ShownFor(key)'
    BY <2>1, <2>2, StaysShown
  <2> QED BY <1>2, <2>3, <2>4
<1>4. CASE Simulate(p, c, n)
  <2>1. CacheTrue' /\ RequestsTrue' /\ ShownFor(key)' /\ loading' \in BOOLEAN
    BY <1>4, SimulateIsTrue DEF ForecastInv
  <2> HIDE DEF key
  <2> QED BY <1>2, <2>1
<1> QED BY <1>1, <1>3, <1>4

\* An effect for the plan, the settings and the runs as they are next leaves the
\* screen true.
LEMMA EffectIsTrue ==
  ASSUME ForecastInv, InStep(store), Passes, store' = store,
         projected' = projected, mounted',
         NEW c, NEW n, settings' = c, runs' = n, Simulate(store, c, n)
  PROVE  ForecastInv'
<1> PICK p : p = store
  OBVIOUS
<1> DEFINE key == Key(p, c, n)
<1>1. /\ CacheTrue' /\ RequestsTrue' /\ ShownFor(key)' /\ loading' \in BOOLEAN
  <2>1. Simulate(p, c, n) /\ InStep(p)
    BY Zenon
  <2> QED BY <2>1, SimulateIsTrue DEF ForecastInv
<1>2. key = Key(store', settings', runs')
  BY Zenon
<1> HIDE DEF key
<1>3. ScreenTrue'
  BY <1>1, <1>2 DEF ScreenTrue
<1>4. PlanInStep'
  BY DEF ForecastInv, PlanInStep, InStep, Fingerprint
<1> QED BY <1>1, <1>3, <1>4 DEF ForecastInv, Passes

\* The plan is in step where it is shown.
LEMMA MountedInStep ==
  ASSUME ForecastInv
  PROVE  /\ DOMAIN store = PlanFields
         /\ mounted => InStep(store)
         /\ projected = "none" => InStep(store)
  BY DEF ForecastInv, PlanInStep

\* The dashboard comes to the screen.
LEMMA OpenStep == ForecastInv /\ Open => ForecastInv'
<1> SUFFICES ASSUME ForecastInv, Open PROVE ForecastInv'
  OBVIOUS
<1>1. /\ InStep(store) /\ projected = "none" /\ UNCHANGED <<store, projected>> /\ mounted'
      /\ Passes
  BY MountedInStep DEF Open, planVars, Passes, ForecastInv
<1> PICK c, n : settings' = c /\ runs' = n /\ Simulate(store, c, n)
  BY Zenon DEF Open
<1> QED BY <1>1, EffectIsTrue

\* More runs are asked for.
LEMMA RefineStep == ForecastInv /\ Refine => ForecastInv'
<1> SUFFICES ASSUME ForecastInv, Refine PROVE ForecastInv'
  OBVIOUS
<1>1. /\ InStep(store) /\ UNCHANGED <<store, projected>>
      /\ mounted' /\ Passes
  BY MountedInStep DEF Refine, allPlanVars, planVars, Passes, ForecastInv
<1> PICK c, n : settings' = c /\ runs' = n /\ Simulate(store, c, n)
  BY Zenon DEF Refine
<1> QED BY <1>1, EffectIsTrue

\* After a failure the user asks again.
LEMMA RetryStep == ForecastInv /\ Retry => ForecastInv'
<1> SUFFICES ASSUME ForecastInv, Retry PROVE ForecastInv'
  OBVIOUS
<1>1. /\ InStep(store) /\ UNCHANGED <<store, projected>>
      /\ mounted' /\ Passes
  BY MountedInStep DEF Retry, allPlanVars, planVars, Passes, ForecastInv
<1> PICK c, n : settings' = c /\ runs' = n /\ Simulate(store, c, n)
  BY Zenon DEF Retry
<1> QED BY <1>1, EffectIsTrue

\* The dashboard leaves the screen: what is on its way is for nobody.
LEMMA LeaveStep == ForecastInv /\ Leave => ForecastInv'
<1> SUFFICES ASSUME ForecastInv, Leave PROVE ForecastInv'
  OBVIOUS
<1>1. /\ UNCHANGED <<store, projected, workers, asked, worker, inWorker, pending, cache>>
      /\ ~mounted' /\ loading' = FALSE /\ current' = 0 /\ Passes
  BY DEF Leave, allPlanVars, planVars, host, Passes, ForecastInv
<1>2. PlanInStep' /\ ScreenTrue'
  BY <1>1 DEF ForecastInv, PlanInStep, InStep, Fingerprint, ScreenTrue
<1>3. CacheTrue' /\ RequestsTrue'
  BY <1>1, AnswersStay DEF ForecastInv, CacheTrue, RequestsTrue
<1> QED BY <1>1, <1>2, <1>3 DEF ForecastInv, Passes

\* An edit on the dashboard.
LEMMA EditHereStep == ForecastInv /\ EditHere => ForecastInv'
<1> SUFFICES ASSUME ForecastInv, EditHere PROVE ForecastInv'
  OBVIOUS
<1>1. /\ mounted /\ mounted' /\ UNCHANGED workers
      /\ InStep(store) /\ DOMAIN store = PlanFields
  BY MountedInStep DEF EditHere
<1>2. InStep(store)' /\ projected' = "none" /\ Passes
  <2>1. Committed
    <3>1. CASE EditOnDashboard
      BY <1>1, <3>1, DashboardEdited
    <3>2. ASSUME NEW price \in Prices, QuoteArrives(price)
          PROVE  Committed
      BY <1>1, <3>2, QuoteWritten
    <3> QED BY <3>1, <3>2 DEF EditHere
  <2> QED BY <1>1, <2>1 DEF Committed, Passes, ForecastInv
<1> PICK p : p = store'
  OBVIOUS
<1>3. InStep(p) /\ React(p, settings)
  <2>1. InStep(p)
    BY <1>2 DEF InStep, Fingerprint
  <2>2. React(p, settings)
    BY Zenon DEF EditHere
  <2> QED BY <2>1, <2>2
<1>4. /\ CacheTrue' /\ RequestsTrue' /\ loading' \in BOOLEAN
      /\ \E key : key = Key(p, settings', runs') /\ ShownFor(key)'
  BY <1>1, <1>2, <1>3, ReactIsTrue
<1> PICK key : key = Key(p, settings', runs') /\ ShownFor(key)'
  BY <1>4
<1>5. key = Key(store', settings', runs')
  BY Zenon
<1>6. ScreenTrue'
  BY <1>1, <1>5 DEF ScreenTrue
<1>7. PlanInStep'
  BY <1>2 DEF PlanInStep, InStep
<1> QED BY <1>2, <1>4, <1>6, <1>7 DEF ForecastInv, Passes

\* Another setting.
LEMMA ChooseStep == ASSUME ForecastInv, NEW chosen, Choose(chosen) PROVE ForecastInv'
<1>1. /\ mounted /\ mounted' /\ InStep(store)
      /\ UNCHANGED <<store, projected>> /\ Passes
  BY MountedInStep DEF Choose, planVars, Passes, ForecastInv
<1> PICK p : p = store
  OBVIOUS
<1>2. InStep(p) /\ React(p, chosen)
  BY <1>1, Zenon DEF Choose
<1>3. /\ CacheTrue' /\ RequestsTrue' /\ loading' \in BOOLEAN
      /\ \E key : key = Key(p, settings', runs') /\ ShownFor(key)'
  BY <1>1, <1>2, ReactIsTrue
<1> PICK key : key = Key(p, settings', runs') /\ ShownFor(key)'
  BY <1>3
<1>4. key = Key(store', settings', runs')
  BY <1>1, Zenon
<1>5. ScreenTrue'
  BY <1>1, <1>4 DEF ScreenTrue
<1>6. PlanInStep'
  BY <1>1 DEF ForecastInv, PlanInStep, InStep, Fingerprint
<1> QED BY <1>1, <1>3, <1>5, <1>6 DEF ForecastInv, Passes

\* A month passes before the screen.
LEMMA WaitStep == ForecastInv /\ Wait => ForecastInv'
<1> SUFFICES ASSUME ForecastInv, Wait PROVE ForecastInv'
  OBVIOUS
<1>1. /\ mounted /\ UNCHANGED <<store, projected, mounted, settings, runs, asked, worker,
                                inWorker, pending, cache, shown, loading, failed, current>>
      /\ Passes
  BY DEF Wait, MonthPasses, dashboardVars, view, host, Passes, ForecastInv
<1>2. CacheTrue' /\ RequestsTrue'
  BY <1>1, AnswersStay DEF ForecastInv, CacheTrue, RequestsTrue
<1>3. ScreenTrue'
  <2> PICK key : key = Key(store, settings, runs)
    OBVIOUS
  <2>1. key = Key(store', settings', runs')
    BY <1>1, Zenon
  <2>2. ShownFor(key)'
    BY <1>1, StaysShown DEF ForecastInv, ScreenTrue
  <2> QED BY <1>1, <2>1, <2>2 DEF ScreenTrue
<1>4. PlanInStep'
  BY <1>1 DEF ForecastInv, PlanInStep, InStep, Fingerprint
<1> QED BY <1>1, <1>2, <1>3, <1>4 DEF ForecastInv, Passes

\* An edit that no dashboard sees.
LEMMA EditElsewhereStep == ForecastInv /\ EditElsewhere => ForecastInv'
<1> SUFFICES ASSUME ForecastInv, EditElsewhere PROVE ForecastInv'
  OBVIOUS
<1>1. /\ ~mounted /\ ~mounted' /\ loading' = loading /\ current' = current
      /\ UNCHANGED <<workers, asked, worker, inWorker, pending, cache>>
  BY DEF EditElsewhere, dashboardVars, view, host
<1>2. Committed
  <2>1. CASE EditPlan
    <3>1. projected = "none"
      <4>1. CASE EditAccounts
        BY <4>1, MountedInStep, AccountsEdited DEF Committed
      <4>2. CASE EditPipeline
        BY <4>2, MountedInStep, PipelineEdited DEF Committed
      <4>3. CASE EditOther
        BY <4>3, Zenon
        DEF EditOther, AddGoal, RemoveGoal, AddAugment, RemoveAugment, ToggleAugment,
            SetGoals, SetAugments, SaveCheckpoint, SwitchMonthly, MonthPasses, Edit
      <4> QED BY <2>1, <4>1, <4>2, <4>3 DEF EditPlan
    <3> QED
      BY <2>1, <3>1, MountedInStep, AccountsEdited, PipelineEdited, OtherEdited DEF EditPlan
  <2>2. ASSUME NEW price \in Prices, QuoteArrives(price)
        PROVE  Committed
    BY <2>2, MountedInStep, QuoteWritten
  <2> QED BY <2>1, <2>2 DEF EditElsewhere
<1>3. PlanInStep' /\ Passes
  BY <1>1, <1>2 DEF Committed, PlanInStep, InStep, Passes, ForecastInv
<1>4. ScreenTrue'
  BY <1>1 DEF ForecastInv, ScreenTrue
<1>5. CacheTrue' /\ RequestsTrue'
  BY <1>1, <1>3, AnswersStay DEF ForecastInv, CacheTrue, RequestsTrue
<1> QED BY <1>1, <1>3, <1>4, <1>5 DEF ForecastInv, Passes

\* A projection happens beside the screens.
LEMMA ProjectStep == ForecastInv /\ ProjectOnly => ForecastInv'
<1> SUFFICES ASSUME ForecastInv, ProjectOnly PROVE ForecastInv'
  OBVIOUS
<1>1. /\ loading' = loading /\ current' = current /\ failed' = failed /\ shown' = shown
      /\ settings' = settings /\ runs' = runs /\ mounted' = mounted
      /\ UNCHANGED <<workers, asked, worker, inWorker, pending, cache>>
  BY DEF ProjectOnly, dashboardVars, view, host
<1>2. store' = store /\ (projected' = projected \/ projected = "none") /\ Passes
  <2>1. store' = store /\ (projected' = projected \/ projected = "none") /\ today' = today
    BY DEF ProjectOnly, Projection, Project, ProjectPlan, allPlanVars, planVars
  <2> QED BY <1>1, <2>1 DEF Passes, ForecastInv
<1>3. PlanInStep'
  BY <1>1, <1>2 DEF ForecastInv, PlanInStep, InStep, Fingerprint
<1>4. ScreenTrue'
  <2>1. CASE ~mounted
    BY <1>1, <2>1 DEF ForecastInv, ScreenTrue
  <2>2. CASE mounted
    <3> PICK key : key = Key(store, settings, runs)
      OBVIOUS
    <3>1. key = Key(store', settings', runs')
      BY <1>1, <1>2, Zenon
    <3>2. ShownFor(key)
      BY <2>2 DEF ForecastInv, ScreenTrue
    <3>3. ShownFor(key)'
      BY <1>1, <1>2, <3>2, StaysShown
    <3> QED BY <1>1, <2>2, <3>1, <3>3 DEF ScreenTrue
  <2> QED BY <2>1, <2>2
<1>5. CacheTrue' /\ RequestsTrue'
  BY <1>1, <1>2, AnswersStay DEF ForecastInv, CacheTrue, RequestsTrue
<1> QED BY <1>1, <1>2, <1>3, <1>4, <1>5 DEF ForecastInv, Passes

\* The first request is answered or given up: the others keep their numbers.
LEMMA OthersStay ==
  ASSUME RequestsTrue, inWorker # << >>, inWorker' = Tail(inWorker), asked' = asked,
         pending' \subseteq pending, Passes
  PROVE  /\ RequestsTrue'
         /\ 1 \in DOMAIN inWorker /\ Head(inWorker) = inWorker[1]
         /\ \A i \in DOMAIN inWorker :
              inWorker[i].id # Head(inWorker).id =>
                \E j \in DOMAIN inWorker' : inWorker'[j] = inWorker[i]
<1>1. /\ IsSequence(inWorker') /\ Head(inWorker) = inWorker[1] /\ 1 \in DOMAIN inWorker
      /\ DOMAIN inWorker' = 1 .. Len(inWorker) - 1
      /\ \A i \in DOMAIN inWorker' : i + 1 \in DOMAIN inWorker /\ inWorker'[i] = inWorker[i + 1]
  BY Tailed DEF RequestsTrue
<1>2. Len(inWorker) \in Nat /\ DOMAIN inWorker = 1 .. Len(inWorker)
  BY Sequence DEF RequestsTrue
<1>3. RequestsTrue'
  <2>1. \A i \in DOMAIN inWorker' :
          inWorker'[i].id \in 1 .. asked /\ Asks(inWorker'[i].key, inWorker'[i].result)
    BY <1>1 DEF RequestsTrue
  <2>2. ASSUME NEW i \in DOMAIN inWorker', NEW j \in DOMAIN inWorker',
               inWorker'[i].id = inWorker'[j].id
        PROVE  i = j
    <3>1. i + 1 = j + 1
      BY <1>1, <2>2 DEF RequestsTrue
    <3> QED BY <1>1, <1>2, <3>1
  <2>3. asked' \in Nat /\ pending' \subseteq 1 .. asked'
    BY DEF RequestsTrue
  <2> QED BY <1>1, <2>1, <2>2, <2>3, AnswersStay DEF RequestsTrue
<1>4. ASSUME NEW i \in DOMAIN inWorker, inWorker[i].id # Head(inWorker).id
      PROVE  \E j \in DOMAIN inWorker' : inWorker'[j] = inWorker[i]
  <2>1. i \in 2 .. Len(inWorker)
    BY <1>1, <1>2, <1>4
  <2>2. i - 1 \in DOMAIN inWorker' /\ (i - 1) + 1 = i
    BY <1>1, <1>2, <2>1
  <2>3. inWorker'[i - 1] = inWorker[i]
    BY <1>1, <2>2
  <2> QED BY <2>2, <2>3
<1> QED BY <1>1, <1>3, <1>4

\* What the screen waits for, it goes on waiting for, or it is told.
LEMMA OtherAnswer ==
  ASSUME ForecastInv, mounted' = mounted, settings' = settings, runs' = runs, store' = store,
         Passes, worker' = worker, UNCHANGED <<shown, loading, failed, current>>,
         inWorker # << >>, inWorker' = Tail(inWorker), asked' = asked,
         pending' = pending \ {Head(inWorker).id},
         Head(inWorker).id # current \/ current \notin pending
  PROVE  ScreenTrue'
<1>1. CASE ~mounted
  BY <1>1 DEF ForecastInv, ScreenTrue
<1>2. CASE mounted
  <2> PICK key : key = Key(store, settings, runs)
    OBVIOUS
  <2>1. key = Key(store', settings', runs')
    BY Zenon
  <2>2. ShownFor(key)
    BY <1>2 DEF ForecastInv, ScreenTrue
  <2>3. ASSUME loading' PROVE Awaits(key)'
    <3>1. Awaits(key)
      BY <2>2, <2>3 DEF ShownFor
    <3> PICK i \in DOMAIN inWorker : inWorker[i].id = current /\ inWorker[i].key = key
      BY <3>1 DEF Awaits
    <3>2. worker /\ current \in pending /\ Head(inWorker).id # current
      BY <3>1 DEF Awaits
    <3>3. \E j \in DOMAIN inWorker' : inWorker'[j] = inWorker[i]
      BY <3>2, OthersStay DEF ForecastInv
    <3> QED BY <3>2, <3>3 DEF Awaits
  <2>4. ShownFor(key)'
    <3> PICK now : now = shown
      OBVIOUS
    <3>1. Answers(key, now) => Answers(key, now)'
      BY AnswersStay
    <3>2. Answers(key, shown) => Answers(key, shown)'
      BY <3>1
    <3> QED BY <2>2, <2>3, <3>2 DEF ShownFor
  <2> QED BY <1>2, <2>1, <2>4 DEF ScreenTrue
<1> QED BY <1>1, <1>2

\* The request the screen waits for fails.
LEMMA Told ==
  ASSUME ForecastInv, mounted' = mounted, loading' = FALSE, failed' = TRUE, current' = 0
  PROVE  ScreenTrue'
  BY DEF ScreenTrue, ShownFor

\* A request the screen does not wait for is nothing to it.
LEMMA NumbersArePositive == ForecastInv => \A id \in pending : id # 0
  BY DEF ForecastInv, RequestsTrue

\* The worker answers, the engine throws, or the worker dies.
LEMMA WorkStep == ForecastInv /\ Work => ForecastInv'
<1> SUFFICES ASSUME ForecastInv, Work PROVE ForecastInv'
  OBVIOUS
<1>1. /\ UNCHANGED <<store, projected, mounted, settings>>
      /\ loading \in BOOLEAN /\ CacheTrue /\ RequestsTrue /\ Passes
      /\ today \in Nat /\ today' \in Nat /\ workers' = workers
  BY DEF Work, planVars, ForecastInv, Passes
<1>2. PlanInStep'
  BY <1>1 DEF ForecastInv, PlanInStep, InStep, Fingerprint
<1>3. CASE WorkerAnswers
  <2> DEFINE request == Head(inWorker)
  <2>1. /\ worker /\ inWorker # << >> /\ inWorker' = Tail(inWorker)
        /\ pending' = pending \ {request.id}
        /\ runs' = runs /\ asked' = asked /\ worker' = worker
    BY <1>3 DEF WorkerAnswers
  <2>2. IF request.id \in pending /\ request.id = current
        THEN \E result \in Computed(request.result) : Answered(request.key, result)
        ELSE UNCHANGED <<shown, loading, failed, current, cache>>
    BY <1>3 DEF WorkerAnswers
  <2>3. RequestsTrue' /\ request = inWorker[1] /\ 1 \in DOMAIN inWorker
    BY <1>1, <2>1, OthersStay
  <2>4. CASE request.id \in pending /\ request.id = current
    <3> PICK result \in Computed(request.result) : Answered(request.key, result)
      BY <2>2, <2>4
    <3>1. Asks(request.key, request.result)
      BY <1>1, <2>3 DEF RequestsTrue
    <3>2. Answers(request.key, result)
      BY <1>1, <3>1, ComputedAnswers
    <3>3. /\ cache' = Cached(request.key, result)
          /\ shown' = result /\ loading' = FALSE /\ current' = 0
      BY DEF Answered
    <3>4. CacheTrue'
      BY <1>1, <3>2, <3>3, CacheStaysTrue
    <3>5. ScreenTrue'
      <4>1. CASE ~mounted
        BY <1>1, <3>3, <4>1 DEF ScreenTrue
      <4>2. CASE mounted
        <5> PICK key : key = Key(store, settings, runs)
          OBVIOUS
        <5>1. key = Key(store', settings', runs')
          BY <1>1, <2>1, Zenon
        <5>2. ShownFor(key)
          BY <4>2 DEF ForecastInv, ScreenTrue
        <5>3. loading
          BY <1>1, <2>4, <5>2, NumbersArePositive DEF ShownFor
        <5>4. PICK i \in DOMAIN inWorker : inWorker[i].id = current /\ inWorker[i].key = key
          BY <5>2, <5>3 DEF ShownFor, Awaits
        <5>5. request.key = key
          BY <1>1, <2>3, <2>4, <5>4 DEF RequestsTrue
        <5>6. Answers(key, shown)'
          <6>1. Answers(key, result)
            BY <3>2, <5>5
          <6>2. Answers(key, result)'
            BY <1>1, <6>1, AnswersStay
          <6> QED BY <3>3, <6>2
        <5>7. ShownFor(key)'
          BY <3>3, <5>6 DEF ShownFor
        <5> QED BY <1>1, <4>2, <5>1, <5>7 DEF ScreenTrue
      <4> QED BY <4>1, <4>2
    <3> QED BY <1>1, <1>2, <2>3, <3>3, <3>4, <3>5 DEF ForecastInv
  <2>5. CASE ~(request.id \in pending /\ request.id = current)
    <3>1. UNCHANGED <<shown, loading, failed, current, cache>>
      BY <2>2, <2>5
    <3>2. ScreenTrue'
      BY <1>1, <2>1, <2>5, <3>1, OtherAnswer
    <3>3. CacheTrue'
      BY <1>1, <3>1, AnswersStay DEF CacheTrue
    <3> QED BY <1>1, <1>2, <2>3, <3>1, <3>2, <3>3 DEF ForecastInv
  <2> QED BY <2>4, <2>5
<1>4. CASE WorkerThrows
  <2>1. /\ worker /\ inWorker # << >> /\ inWorker' = Tail(inWorker)
        /\ pending' = pending \ {Head(inWorker).id}
        /\ Rejected({Head(inWorker).id} \cap pending)
        /\ UNCHANGED <<runs, shown, cache, asked, worker>>
    BY <1>4 DEF WorkerThrows
  <2>2. RequestsTrue'
    BY <1>1, <2>1, OthersStay
  <2>3. CacheTrue'
    BY <1>1, <2>1, AnswersStay DEF CacheTrue
  <2>4. CASE current \in {Head(inWorker).id} \cap pending
    <3>1. loading' = FALSE /\ failed' = TRUE /\ current' = 0
      BY <2>1, <2>4 DEF Rejected
    <3> QED BY <1>1, <1>2, <2>2, <2>3, <3>1, Told DEF ForecastInv
  <2>5. CASE current \notin {Head(inWorker).id} \cap pending
    <3>1. UNCHANGED <<loading, failed, current>>
      BY <2>1, <2>5 DEF Rejected
    <3>2. ScreenTrue'
      BY <1>1, <2>1, <2>5, <3>1, OtherAnswer
    <3> QED BY <1>1, <1>2, <2>2, <2>3, <3>1, <3>2 DEF ForecastInv
  <2> QED BY <2>4, <2>5
<1>5. CASE WorkerDies
  <2>1. /\ inWorker' = << >> /\ pending' = {} /\ Rejected(pending)
        /\ UNCHANGED <<runs, shown, cache, asked>>
    BY <1>5 DEF WorkerDies
  <2>2. RequestsTrue'
    <3>1. << >> \in Seq({}) /\ DOMAIN << >> = {}
      OBVIOUS
    <3>2. IsSequence(inWorker')
      BY <2>1, <3>1, SequenceOver
    <3> QED BY <1>1, <2>1, <3>1, <3>2 DEF RequestsTrue
  <2>3. CacheTrue'
    BY <1>1, <2>1, AnswersStay DEF CacheTrue
  <2>4. CASE current \in pending
    <3>1. loading' = FALSE /\ failed' = TRUE /\ current' = 0
      BY <2>1, <2>4 DEF Rejected
    <3> QED BY <1>1, <1>2, <2>2, <2>3, <3>1, Told DEF ForecastInv
  <2>5. CASE current \notin pending
    <3>1. UNCHANGED <<loading, failed, current>>
      BY <2>1, <2>5 DEF Rejected
    <3>2. ScreenTrue'
      <4>1. CASE ~mounted
        BY <1>1, <3>1, <4>1 DEF ForecastInv, ScreenTrue
      <4>2. CASE mounted
        <5> PICK key : key = Key(store, settings, runs)
          OBVIOUS
        <5>1. key = Key(store', settings', runs')
          BY <1>1, <2>1, Zenon
        <5>2. ShownFor(key)
          BY <4>2 DEF ForecastInv, ScreenTrue
        <5>3. ~loading
          BY <2>5, <5>2 DEF ShownFor, Awaits
        <5>4. ShownFor(key)'
          <6> PICK now : now = shown
            OBVIOUS
          <6>1. Answers(key, now) => Answers(key, now)'
            BY <1>1, AnswersStay
          <6>2. Answers(key, shown) => Answers(key, shown)'
            BY <2>1, <6>1
          <6> QED BY <3>1, <5>2, <5>3, <6>2 DEF ShownFor
        <5> QED BY <1>1, <4>2, <5>1, <5>4 DEF ScreenTrue
      <4> QED BY <4>1, <4>2
    <3> QED BY <1>1, <1>2, <2>2, <2>3, <3>1, <3>2 DEF ForecastInv
  <2> QED BY <2>4, <2>5
<1> QED BY <1>3, <1>4, <1>5 DEF Work

\* A step of nothing.
LEMMA IdleStep ==
  ForecastInv /\ UNCHANGED <<ledgerVars, allPlanVars, dashboardVars>> => ForecastInv'
<1> SUFFICES ASSUME ForecastInv, UNCHANGED <<ledgerVars, allPlanVars, dashboardVars>>
             PROVE  ForecastInv'
  OBVIOUS
<1>1. /\ UNCHANGED <<store, projected, mounted, settings, runs, asked, worker,
                     inWorker, pending, cache, shown, loading, failed, current>>
      /\ Passes
  BY DEF allPlanVars, planVars, dashboardVars, view, host, Passes, ForecastInv
<1>2. CacheTrue' /\ RequestsTrue'
  BY <1>1, AnswersStay DEF ForecastInv, CacheTrue, RequestsTrue
<1>3. ScreenTrue'
  <2> PICK key : key = Key(store, settings, runs)
    OBVIOUS
  <2>1. key = Key(store', settings', runs')
    BY <1>1, Zenon
  <2>2. ASSUME mounted PROVE ShownFor(key)'
    BY <1>1, <2>2, StaysShown DEF ForecastInv, ScreenTrue
  <2> QED BY <1>1, <2>1, <2>2 DEF ForecastInv, ScreenTrue
<1>4. PlanInStep'
  BY <1>1 DEF ForecastInv, PlanInStep, InStep, Fingerprint
<1> QED BY <1>1, <1>2, <1>3, <1>4 DEF ForecastInv, Passes

\* What the dashboard shows, when it neither waits nor failed, is the forecast of the
\* plan and the settings as they are now, of some day up to today, and what it waits for
\* is on its way, for every plan, every set of settings, every session and every size of
\* the cache.
THEOREM ForecastCurrent == DashboardSpec => []ForecastIsCurrent
<1>1. DashboardInit => ForecastInv
  BY InitForecastInv
<1>2. ForecastInv /\ [DashboardNext]_<<ledgerVars, allPlanVars, dashboardVars>> => ForecastInv'
  BY OpenStep, LeaveStep, EditHereStep, ChooseStep, RefineStep, RetryStep, WaitStep,
     EditElsewhereStep, WorkStep, ProjectStep, IdleStep
  DEF DashboardNext
<1>3. ForecastInv => ForecastIsCurrent
  BY ForecastInvSuffices
<1> QED BY <1>1, <1>2, <1>3, PTL DEF DashboardSpec

-----------------------------------------------------------------------------
(***************************************************************************)
(* What belongs to an alternative: its rows, flows, goals and checkpoints. *)
(***************************************************************************)

\* The nodes are the rows.
LEMMA NodeIsRow ==
  ASSUME NEW alt, NEW node
  PROVE  /\ node \in Nodes(alt) <=>
              \E kind \in Kinds : \E n \in DOMAIN alt[kind] : node = <<kind, n>>
         /\ \A kind, n : RowAt(alt, <<kind, n>>) = alt[kind][n]
  BY DEF Nodes, RowAt

\* A flow goes on leading between its rows where they stay in their places.
LEMMA FollowsOn ==
  ASSUME NEW a, NEW b, Keeps(a, b), NEW edge, Follows(edge, a)
  PROVE  Follows(edge, b)
<1>1. ASSUME NEW node, node \in Nodes(a)
      PROVE  node \in Nodes(b) /\ RowAt(b, node).id = RowAt(a, node).id
  <2> PICK kind \in Kinds : \E n \in DOMAIN a[kind] : node = <<kind, n>>
    BY <1>1, NodeIsRow
  <2>1. PICK n \in DOMAIN a[kind] : node = <<kind, n>>
    OBVIOUS
  <2>2. n \in DOMAIN b[kind] /\ b[kind][n].id = a[kind][n].id
    BY DEF Keeps
  <2>3. node \in Nodes(b)
    BY <2>1, <2>2, NodeIsRow
  <2>4. RowAt(a, node) = a[kind][n] /\ RowAt(b, node) = b[kind][n]
    BY <2>1 DEF RowAt
  <2> QED BY <2>2, <2>3, <2>4
<1>2. CASE edge.slipped
  BY <1>2 DEF Follows
<1>3. CASE ~edge.slipped
  <2>1. /\ edge.from \in Nodes(a) /\ edge.to \in Nodes(a)
        /\ edge.ends = <<RowAt(a, edge.from).id, RowAt(a, edge.to).id>>
    BY <1>3 DEF Follows
  <2>2. /\ edge.from \in Nodes(b) /\ RowAt(b, edge.from).id = RowAt(a, edge.from).id
        /\ edge.to \in Nodes(b) /\ RowAt(b, edge.to).id = RowAt(a, edge.to).id
    BY <1>1, <2>1
  <2> QED BY <2>1, <2>2 DEF Follows
<1> QED BY <1>2, <1>3

\* An alternative that becomes another keeps what it owns.
LEMMA OwnedOn ==
  ASSUME NEW p, NEW q, NEW name, AlikeUnder(p, q, name),
         Becomes(p.alternatives[name], q.alternatives[name]),
         Owns(p, name), FollowUnder(p, name)
  PROVE  Owns(q, name) /\ FollowUnder(q, name)
<1>1. Alike(p.byAlt, q.byAlt, name) /\ Alike(p.goals, q.goals, name)
      /\ Alike(p.checkpoints, q.checkpoints, name)
  BY DEF AlikeUnder
<1>2. q.alternatives[name].id = p.alternatives[name].id
  BY DEF Becomes
<1>3. PipelineOf(q, name).owner = PipelineOf(p, name).owner
  BY <1>1, <1>2 DEF PipelineOf, At, NoFlows, Alike
<1>4. /\ At(q.goals, name, {}) = At(p.goals, name, {})
      /\ CheckpointsOf(q, name) = CheckpointsOf(p, name)
  BY <1>1 DEF CheckpointsOf, At, Alike
<1>5. Owns(q, name)
  BY <1>2, <1>3, <1>4 DEF Owns
<1>6. FollowUnder(q, name)
  <2> SUFFICES ASSUME name \in DOMAIN q.byAlt, NEW i \in DOMAIN q.byAlt[name].edges
               PROVE  Follows(q.byAlt[name].edges[i], q.alternatives[name])
    BY DEF FollowUnder
  <2>1. name \in DOMAIN p.byAlt /\ q.byAlt[name] = p.byAlt[name]
    BY <1>1 DEF Alike
  <2>2. Follows(p.byAlt[name].edges[i], p.alternatives[name])
    BY <2>1 DEF FollowUnder
  <2> QED BY <2>1, <2>2, FollowsOn DEF Becomes
<1> QED BY <1>5, <1>6

\* An alternative is what it becomes.
LEMMA BecomesItself == ASSUME NEW alt, IsAlternative(alt) PROVE Becomes(alt, alt)
  BY DEF Becomes, Keeps

\* The plan with an alternative that became another.
LEMMA AlternativeSet ==
  ASSUME NEW p, NEW F, Good(p, F), NEW name \in DOMAIN p.alternatives,
         NEW alt, Becomes(p.alternatives[name], alt)
  PROVE  /\ Good(SetAlternative(p, name, alt), F)
         /\ DOMAIN SetAlternative(p, name, alt).alternatives = DOMAIN p.alternatives
         /\ SetAlternative(p, name, alt).alternatives[name] = alt
         /\ SetAlternative(p, name, alt).byAlt = p.byAlt
         /\ SetAlternative(p, name, alt).activeAlt = p.activeAlt
<1> DEFINE q == SetAlternative(p, name, alt)
<1>1. /\ DOMAIN q = PlanFields /\ q.activeAlt = p.activeAlt
      /\ q.alternatives = Put(p.alternatives, name, alt)
      /\ q.byAlt = p.byAlt /\ q.goals = p.goals /\ q.checkpoints = p.checkpoints
  BY DEF SetAlternative, Good, IsPlan, PlanFields
<1> HIDE DEF q
<1>2. /\ DOMAIN q.alternatives = DOMAIN p.alternatives
      /\ q.alternatives[name] = alt
      /\ \A m \in DOMAIN p.alternatives \ {name} : q.alternatives[m] = p.alternatives[m]
  BY <1>1 DEF Put
<1>3. \A m \in DOMAIN p.alternatives : Becomes(p.alternatives[m], q.alternatives[m])
  BY <1>2, BecomesItself DEF Good, IsPlan
<1>4. IsPlan(q)
  BY <1>1, <1>2, <1>3 DEF IsPlan, Good, Becomes
<1>5. ASSUME NEW m \in DOMAIN q.alternatives \ F PROVE Owns(q, m) /\ FollowUnder(q, m)
  <2>1. AlikeUnder(p, q, m)
    BY <1>1 DEF AlikeUnder, Alike
  <2> QED BY <1>2, <1>3, <2>1, OwnedOn DEF Good
<1>6. NamesKept(q) \ F \subseteq DOMAIN q.alternatives
  BY <1>1, <1>2 DEF Good, NamesKept
<1> QED BY <1>1, <1>2, <1>4, <1>5, <1>6 DEF Good, q

\* Rows that change and keep their ids.
LEMMA RowsChanged ==
  ASSUME NEW a, IsAlternative(a), NEW b, DOMAIN b = DOMAIN a, b.id = a.id,
         \A kind \in Kinds :
           /\ DOMAIN b[kind] = DOMAIN a[kind]
           /\ b[kind] = [n \in DOMAIN b[kind] |-> b[kind][n]]
           /\ \A n \in DOMAIN a[kind] :
                "id" \in DOMAIN b[kind][n] /\ b[kind][n].id = a[kind][n].id
  PROVE  Becomes(a, b)
<1>1. ASSUME NEW kind \in Kinds PROVE IsSequence(b[kind])
  <2>1. IsSequence(a[kind])
    BY DEF IsAlternative
  <2>2. Len(a[kind]) \in Nat /\ DOMAIN a[kind] = 1 .. Len(a[kind])
    BY <2>1, Sequence
  <2> QED BY <2>2, Listed
<1>2. IsAlternative(b)
  BY <1>1 DEF IsAlternative
<1> QED BY <1>2 DEF Becomes, Keeps

\* One row.
LEMMA RowChanged ==
  ASSUME NEW a, IsAlternative(a), NEW kind \in Kinds, NEW n \in DOMAIN a[kind],
         NEW row, "id" \in DOMAIN row, row.id = a[kind][n].id
  PROVE  Becomes(a, [a EXCEPT ![kind][n] = row])
<1> DEFINE b == [a EXCEPT ![kind][n] = row]
<1>1. DOMAIN a = Kinds \union {"id"} /\ kind # "id"
      /\ \A k1 \in Kinds : k1 \in DOMAIN a /\ k1 # "id"
  BY DEF IsAlternative, Kinds
<1>2. /\ DOMAIN b = DOMAIN a
      /\ b[kind] = [a[kind] EXCEPT ![n] = row]
      /\ \A x \in DOMAIN a \ {kind} : b[x] = a[x]
  BY <1>1
<1> HIDE DEF b
<1>3. b.id = a.id
  BY <1>1, <1>2
<1>4. ASSUME NEW k1 \in Kinds
      PROVE  /\ DOMAIN b[k1] = DOMAIN a[k1]
             /\ b[k1] = [m \in DOMAIN b[k1] |-> b[k1][m]]
             /\ \A m \in DOMAIN a[k1] :
                  "id" \in DOMAIN b[k1][m] /\ b[k1][m].id = a[k1][m].id
  <2>1. CASE k1 = kind
    BY <1>2, <2>1 DEF IsAlternative
  <2>2. CASE k1 # kind
    <3>1. b[k1] = a[k1] /\ IsSequence(a[k1])
      BY <1>1, <1>2, <2>2 DEF IsAlternative
    <3>2. a[k1] = [m \in DOMAIN a[k1] |-> a[k1][m]]
      BY <3>1 DEF IsSequence
    <3> QED BY <3>1, <3>2 DEF IsAlternative
  <2> QED BY <2>1, <2>2
<1>5. Becomes(a, b)
  BY <1>2, <1>3, <1>4, RowsChanged
<1> QED BY <1>5 DEF b

\* A row more.
LEMMA RowAdded ==
  ASSUME NEW a, IsAlternative(a), NEW kind \in Kinds
  PROVE  Becomes(a, WithRow(a, kind))
<1> DEFINE b == WithRow(a, kind)
           row == NewRow(kind)
<1>1. DOMAIN a = Kinds \union {"id"} /\ kind # "id"
      /\ \A k1 \in Kinds : k1 \in DOMAIN a /\ k1 # "id"
  BY DEF IsAlternative, Kinds
<1>2. "id" \in DOMAIN row
  BY DEF NewRow, NewAsset, NewDebt, NewFlowRow
<1> HIDE DEF row
<1>3. /\ DOMAIN b = DOMAIN a
      /\ b[kind] = Append(a[kind], row)
      /\ \A x \in DOMAIN a \ {kind} : b[x] = a[x]
  BY <1>1 DEF WithRow, row
<1> HIDE DEF b
<1>4. IsSequence(a[kind]) /\ \A n \in DOMAIN a[kind] : "id" \in DOMAIN a[kind][n]
  BY DEF IsAlternative
<1>5. /\ IsSequence(b[kind]) /\ DOMAIN a[kind] = 1 .. Len(a[kind]) /\ Len(a[kind]) \in Nat
      /\ DOMAIN b[kind] = 1 .. Len(a[kind]) + 1
      /\ \A n \in DOMAIN a[kind] : b[kind][n] = a[kind][n]
      /\ b[kind][Len(a[kind]) + 1] = row
  BY <1>3, <1>4, Appended, Sequence
<1>6. \A n \in 1 .. Len(a[kind]) + 1 : n \in DOMAIN a[kind] \/ n = Len(a[kind]) + 1
  BY <1>5
<1>7. IsAlternative(b)
  <2>1. ASSUME NEW k1 \in Kinds
        PROVE  IsSequence(b[k1]) /\ \A n \in DOMAIN b[k1] : "id" \in DOMAIN b[k1][n]
    <3>1. CASE k1 = kind
      BY <1>2, <1>4, <1>5, <1>6, <3>1
    <3>2. CASE k1 # kind
      BY <1>1, <1>3, <3>2 DEF IsAlternative
    <3> QED BY <3>1, <3>2
  <2> QED BY <1>1, <1>3, <2>1 DEF IsAlternative
<1>8. Keeps(a, b)
  <2>1. ASSUME NEW k1 \in Kinds
        PROVE  /\ DOMAIN a[k1] \subseteq DOMAIN b[k1]
               /\ \A n \in DOMAIN a[k1] : b[k1][n].id = a[k1][n].id
    <3>1. CASE k1 = kind
      BY <1>5, <3>1
    <3>2. CASE k1 # kind
      BY <1>1, <1>3, <3>2
    <3> QED BY <3>1, <3>2
  <2> QED BY <2>1 DEF Keeps
<1> QED BY <1>1, <1>3, <1>7, <1>8 DEF Becomes, b

\* Flows are written into rows.
LEMMA FlowsApplied ==
  ASSUME NEW a, IsAlternative(a), NEW edges, NEW now
  PROVE  Becomes(a, ApplyFlows(a, edges, now))
<1> DEFINE Into(kind, n) == FlowsInto(a, edges, <<kind, n>>)
           asset == [n \in DOMAIN a.asset |->
             FlowIntoAsset(a.asset[n], InAMonth(a, Into("asset", n)), Into("asset", n))]
           debt == [n \in DOMAIN a.debt |->
             FlowIntoDebt(a.debt[n], Sum(a, Into("debt", n)), Into("debt", n), now)]
           expense == [n \in DOMAIN a.expense |->
             FlowIntoExpense(a.expense[n], Sum(a, Into("expense", n)), Into("expense", n))]
<1>1. ApplyFlows(a, edges, now)
        = [a EXCEPT !.asset = asset, !.debt = debt, !.expense = expense]
  BY DEF ApplyFlows
<1>2. /\ \A row, sum, flows :
           "id" \in DOMAIN row =>
             /\ "id" \in DOMAIN FlowIntoAsset(row, sum, flows)
             /\ FlowIntoAsset(row, sum, flows).id = row.id
      /\ \A row, sum, flows :
           "id" \in DOMAIN row =>
             /\ "id" \in DOMAIN FlowIntoDebt(row, sum, flows, now)
             /\ FlowIntoDebt(row, sum, flows, now).id = row.id
      /\ \A row, sum, flows :
           "id" \in DOMAIN row =>
             /\ "id" \in DOMAIN FlowIntoExpense(row, sum, flows)
             /\ FlowIntoExpense(row, sum, flows).id = row.id
  BY DEF FlowIntoAsset, FlowIntoDebt, FlowIntoExpense
<1>3. /\ DOMAIN asset = DOMAIN a.asset
      /\ \A n \in DOMAIN a.asset : "id" \in DOMAIN asset[n] /\ asset[n].id = a.asset[n].id
  <2> HIDE DEF Into
  <2> QED BY <1>2 DEF IsAlternative, Kinds
<1>4. /\ DOMAIN debt = DOMAIN a.debt
      /\ \A n \in DOMAIN a.debt : "id" \in DOMAIN debt[n] /\ debt[n].id = a.debt[n].id
  <2> HIDE DEF Into
  <2> QED BY <1>2 DEF IsAlternative, Kinds
<1>5. /\ DOMAIN expense = DOMAIN a.expense
      /\ \A n \in DOMAIN a.expense :
           "id" \in DOMAIN expense[n] /\ expense[n].id = a.expense[n].id
  <2> HIDE DEF Into
  <2> QED BY <1>2 DEF IsAlternative, Kinds
<1>6. /\ asset = [n \in DOMAIN asset |-> asset[n]] /\ debt = [n \in DOMAIN debt |-> debt[n]]
      /\ expense = [n \in DOMAIN expense |-> expense[n]]
  <2> HIDE DEF Into
  <2> QED OBVIOUS
<1> HIDE DEF asset, debt, expense
<1> DEFINE b == [a EXCEPT !.asset = asset, !.debt = debt, !.expense = expense]
<1>7. /\ DOMAIN b = DOMAIN a /\ b.id = a.id
      /\ b.asset = asset /\ b.debt = debt /\ b.expense = expense /\ b.income = a.income
  BY DEF IsAlternative, Kinds
<1>8. a.income = [n \in DOMAIN a.income |-> a.income[n]]
  BY DEF IsAlternative, Kinds, IsSequence
<1> HIDE DEF b
<1>9. ASSUME NEW kind \in Kinds
      PROVE  /\ DOMAIN b[kind] = DOMAIN a[kind]
             /\ b[kind] = [n \in DOMAIN b[kind] |-> b[kind][n]]
             /\ \A n \in DOMAIN a[kind] :
                  "id" \in DOMAIN b[kind][n] /\ b[kind][n].id = a[kind][n].id
  <2>1. CASE kind = "income"
    BY <1>7, <1>8, <2>1 DEF IsAlternative
  <2>2. CASE kind = "asset"
    BY <1>3, <1>6, <1>7, <2>2
  <2>3. CASE kind = "debt"
    BY <1>4, <1>6, <1>7, <2>3
  <2>4. CASE kind = "expense"
    BY <1>5, <1>6, <1>7, <2>4
  <2> QED BY <2>1, <2>2, <2>3, <2>4 DEF Kinds
<1>10. Becomes(a, b)
  BY <1>7, <1>9, RowsChanged
<1> QED BY <1>1, <1>10 DEF b

\* One change after another.
LEMMA BecomesOn ==
  ASSUME NEW a, NEW b, NEW c, Becomes(a, b), Becomes(b, c)
  PROVE  Becomes(a, c)
<1>1. ASSUME NEW kind \in Kinds
      PROVE  /\ DOMAIN a[kind] \subseteq DOMAIN c[kind]
             /\ \A n \in DOMAIN a[kind] : c[kind][n].id = a[kind][n].id
  BY DEF Becomes, Keeps
<1> QED BY <1>1 DEF Becomes, Keeps

\* The fields that say what belongs to whom are as they were.
LEMMA OthersSet ==
  ASSUME NEW p, NEW F, Good(p, F), NEW q, DOMAIN q = PlanFields,
         q.activeAlt \in DOMAIN p.alternatives, q.alternatives = p.alternatives,
         q.byAlt = p.byAlt, q.goals = p.goals, q.checkpoints = p.checkpoints
  PROVE  Good(q, F)
<1>1. IsPlan(q)
  BY DEF Good, IsPlan
<1>2. ASSUME NEW m \in DOMAIN q.alternatives \ F PROVE Owns(q, m) /\ FollowUnder(q, m)
  <2>1. AlikeUnder(p, q, m)
    BY DEF AlikeUnder, Alike
  <2>2. Becomes(p.alternatives[m], q.alternatives[m])
    BY BecomesItself DEF Good, IsPlan
  <2> QED BY <2>1, <2>2, OwnedOn DEF Good
<1>3. NamesKept(q) = NamesKept(p)
  BY DEF NamesKept
<1> QED BY <1>1, <1>2, <1>3 DEF Good

\* The flows kept under a name are of the alternative, and lead between its rows.
FlowsOf(flows, alt) ==
  flows.owner = alt.id /\ \A i \in DOMAIN flows.edges : Follows(flows.edges[i], alt)

\* One alternative is put under its name, and flows with it, perhaps with more names
\* given up.
LEMMA OneSet ==
  ASSUME NEW p, NEW F, Good(p, F), NEW q, NEW G, F \subseteq G, NEW name, NEW alt,
         DOMAIN q = PlanFields, q.activeAlt \in DOMAIN q.alternatives,
         DOMAIN q.alternatives = DOMAIN p.alternatives \union {name},
         q.alternatives[name] = alt,
         \A m \in DOMAIN p.alternatives \ {name} : q.alternatives[m] = p.alternatives[m],
         q.goals = p.goals, q.checkpoints = p.checkpoints,
         \A m : m # name => Alike(p.byAlt, q.byAlt, m),
         IsAlternative(alt),
         name \in DOMAIN p.alternatives \ G => alt.id = p.alternatives[name].id,
         name \in DOMAIN q.byAlt =>
           /\ DOMAIN q.byAlt[name] = {"owner", "edges"} /\ IsFlows(q.byAlt[name].edges)
           /\ name \in G \/ FlowsOf(q.byAlt[name], alt)
  PROVE  Good(q, G)
<1>1. IsPlan(q)
  <2>1. \A m \in DOMAIN q.alternatives : IsAlternative(q.alternatives[m])
    BY DEF Good, IsPlan
  <2>2. \A m \in DOMAIN q.byAlt :
          DOMAIN q.byAlt[m] = {"owner", "edges"} /\ IsFlows(q.byAlt[m].edges)
    BY DEF Good, IsPlan, Alike
  <2>3. \A m \in DOMAIN q.checkpoints : IsSequence(q.checkpoints[m])
    BY DEF Good, IsPlan
  <2> QED BY <2>1, <2>2, <2>3 DEF IsPlan
<1>2. ASSUME NEW m \in DOMAIN q.alternatives \ G PROVE Owns(q, m) /\ FollowUnder(q, m)
  <2>1. CASE m # name
    <3>1. m \in DOMAIN p.alternatives \ F /\ q.alternatives[m] = p.alternatives[m]
      BY <2>1
    <3>2. AlikeUnder(p, q, m)
      BY <2>1 DEF AlikeUnder, Alike
    <3>3. Becomes(p.alternatives[m], q.alternatives[m])
      BY <3>1, BecomesItself DEF Good, IsPlan
    <3> QED BY <3>1, <3>2, <3>3, OwnedOn DEF Good
  <2>2. CASE m = name
    <3>1. At(q.goals, m, {}) \subseteq {alt.id}
          /\ \A i \in DOMAIN CheckpointsOf(q, m) : CheckpointsOf(q, m)[i].owner = alt.id
      <4>1. CASE m \in DOMAIN p.alternatives
        <5>1. Owns(p, m) /\ alt.id = p.alternatives[m].id
          BY <2>2, <4>1 DEF Good
        <5> QED BY <5>1 DEF Owns, CheckpointsOf
      <4>2. CASE m \notin DOMAIN p.alternatives
        <5>1. m \notin DOMAIN p.goals /\ m \notin DOMAIN p.checkpoints
          BY <4>2 DEF Good, NamesKept
        <5> QED BY <5>1 DEF CheckpointsOf, At
      <4> QED BY <4>1, <4>2
    <3>2. m \in DOMAIN q.byAlt => FlowsOf(q.byAlt[m], alt)
      BY <2>2
    <3>3. PipelineOf(q, m).owner = alt.id
      BY <2>2, <3>2 DEF PipelineOf, At, NoFlows, FlowsOf
    <3>4. FollowUnder(q, m)
      BY <2>2, <3>2 DEF FollowUnder, FlowsOf
    <3>5. Owns(q, m)
      BY <2>2, <3>1, <3>3 DEF Owns
    <3> QED BY <3>4, <3>5
  <2> QED BY <2>1, <2>2
<1>3. NamesKept(q) \ G \subseteq DOMAIN q.alternatives
  BY DEF Good, NamesKept, Alike
<1> QED BY <1>1, <1>2, <1>3 DEF Good

\* The checkpoint that is taken today.
Taken(p, name) ==
  [owner |-> p.alternatives[name].id, day |-> today,
   netWorth |-> ShownNetWorth(p.alternatives[name]),
   asset |-> p.alternatives[name].asset, debt |-> p.alternatives[name].debt]

\* A checkpoint is of the alternative it is taken of, and goes between those there are.
LEMMA CheckpointPut ==
  ASSUME NEW p, DOMAIN p = PlanFields, NEW name,
         \A m \in DOMAIN p.checkpoints : IsSequence(p.checkpoints[m])
  PROVE  LET q == WithCheckpoint(p, name) IN
         /\ DOMAIN q = PlanFields
         /\ \A x \in PlanFields \ {"checkpoints"} : q[x] = p[x]
         /\ DOMAIN q.checkpoints = DOMAIN p.checkpoints \union {name}
         /\ \A m \in DOMAIN p.checkpoints \ {name} : q.checkpoints[m] = p.checkpoints[m]
         /\ IsSequence(q.checkpoints[name])
         /\ \A id : /\ \A i \in DOMAIN CheckpointsOf(p, name) :
                         CheckpointsOf(p, name)[i].owner = id
                    /\ p.alternatives[name].id = id
                    => \A i \in DOMAIN q.checkpoints[name] : q.checkpoints[name][i].owner = id
         /\ \A i \in DOMAIN q.checkpoints[name] :
              \/ q.checkpoints[name][i] = Taken(p, name)
              \/ \E j \in DOMAIN CheckpointsOf(p, name) :
                   q.checkpoints[name][i] = CheckpointsOf(p, name)[j]
<1> DEFINE alt == p.alternatives[name]
           cp == [owner |-> alt.id, day |-> today, netWorth |-> ShownNetWorth(alt),
                  asset |-> alt.asset, debt |-> alt.debt]
           cps == CheckpointsOf(p, name)
           Behind(i) == \E j \in DOMAIN cps : j <= i /\ cps[j].day > today
           new == [i \in 1 .. Len(cps) + 1 |->
                     IF i \in DOMAIN cps /\ ~Behind(i) THEN cps[i]
                     ELSE IF Behind(i - 1) THEN cps[i - 1] ELSE cp]
           q == WithCheckpoint(p, name)
<1>1. q = [p EXCEPT !.checkpoints = Put(@, name, new)]
  BY DEF WithCheckpoint
<1>2. IsSequence(cps)
  <2>1. IsSequence(<< >>)
    BY DEF IsSequence
  <2> QED BY <2>1 DEF CheckpointsOf, At
<1>3. Len(cps) \in Nat /\ DOMAIN cps = 1 .. Len(cps)
  BY <1>2, Sequence
<1>4. cp.owner = alt.id /\ cp = Taken(p, name)
  BY DEF Taken
<1> HIDE DEF cp, alt, cps
<1>5. ASSUME NEW i \in 1 .. Len(cps) + 1
      PROVE  new[i] = cp \/ \E j \in DOMAIN cps : new[i] = cps[j]
  <2>1. CASE i \in DOMAIN cps /\ ~Behind(i)
    BY <2>1
  <2>2. CASE ~(i \in DOMAIN cps /\ ~Behind(i)) /\ Behind(i - 1)
    <3>1. new[i] = cps[i - 1]
      BY <2>2
    <3>2. i - 1 \in DOMAIN cps
      <4>1. PICK j \in DOMAIN cps : j <= i - 1
        BY <2>2
      <4> QED BY <1>3, <4>1
    <3> QED BY <3>1, <3>2
  <2>3. CASE ~(i \in DOMAIN cps /\ ~Behind(i)) /\ ~Behind(i - 1)
    BY <2>3
  <2> QED BY <2>1, <2>2, <2>3
<1>6. DOMAIN new = 1 .. Len(cps) + 1 /\ new = [i \in 1 .. Len(cps) + 1 |-> new[i]]
  OBVIOUS
<1> HIDE DEF new
<1>7. IsSequence(new)
  BY <1>3, <1>6, Listed
<1>8. /\ DOMAIN q = PlanFields
      /\ \A x \in PlanFields \ {"checkpoints"} : q[x] = p[x]
      /\ q.checkpoints = Put(p.checkpoints, name, new)
  BY <1>1 DEF PlanFields
<1> HIDE DEF q
<1>9. /\ DOMAIN q.checkpoints = DOMAIN p.checkpoints \union {name}
      /\ \A m \in DOMAIN p.checkpoints \ {name} : q.checkpoints[m] = p.checkpoints[m]
      /\ q.checkpoints[name] = new
  BY <1>8 DEF Put
<1>10. ASSUME NEW id, \A i \in DOMAIN cps : cps[i].owner = id, alt.id = id
       PROVE  \A i \in DOMAIN new : new[i].owner = id
  BY <1>4, <1>5, <1>6, <1>10
<1>11. \A i \in DOMAIN new :
         new[i] = Taken(p, name) \/ \E j \in DOMAIN cps : new[i] = cps[j]
  BY <1>4, <1>5, <1>6
<1> QED BY <1>7, <1>8, <1>9, <1>10, <1>11 DEF q, cps, alt

\* Each name has the checkpoints it had, or its alternative took one more.
LEMMA CheckpointsTaken ==
  ASSUME NEW p, NEW F, Good(p, F), NEW q, DOMAIN q = PlanFields, NEW T,
         T \subseteq DOMAIN p.alternatives,
         \A x \in PlanFields \ {"checkpoints"} : q[x] = p[x],
         DOMAIN q.checkpoints = DOMAIN p.checkpoints \union T,
         \A m \in DOMAIN q.checkpoints :
           q.checkpoints[m] = IF m \in T THEN WithCheckpoint(p, m).checkpoints[m]
                              ELSE p.checkpoints[m]
  PROVE  Good(q, F)
<1>1. /\ q.alternatives = p.alternatives /\ q.byAlt = p.byAlt /\ q.goals = p.goals
      /\ q.activeAlt = p.activeAlt
  BY DEF PlanFields
<1>2. IsPlan(q)
  <2>1. \A m \in DOMAIN q.checkpoints : IsSequence(q.checkpoints[m])
    BY CheckpointPut DEF Good, IsPlan
  <2> QED BY <1>1, <2>1 DEF Good, IsPlan
<1>3. ASSUME NEW m \in DOMAIN q.alternatives \ F PROVE Owns(q, m) /\ FollowUnder(q, m)
  <2>1. Owns(p, m) /\ FollowUnder(p, m)
    BY <1>1 DEF Good
  <2>2. \A i \in DOMAIN CheckpointsOf(q, m) :
          CheckpointsOf(q, m)[i].owner = p.alternatives[m].id
    <3>1. CASE m \in T
      <4>1. \A i \in DOMAIN WithCheckpoint(p, m).checkpoints[m] :
              WithCheckpoint(p, m).checkpoints[m][i].owner = p.alternatives[m].id
        BY <2>1, CheckpointPut DEF Good, IsPlan, Owns
      <4> QED BY <3>1, <4>1 DEF CheckpointsOf, At
    <3>2. CASE m \notin T
      <4>1. CheckpointsOf(q, m) = CheckpointsOf(p, m)
        BY <3>2 DEF CheckpointsOf, At
      <4> QED BY <2>1, <4>1 DEF Owns
    <3> QED BY <3>1, <3>2
  <2>3. PipelineOf(q, m) = PipelineOf(p, m)
    BY <1>1 DEF PipelineOf
  <2>4. Owns(q, m)
    BY <1>1, <2>1, <2>2, <2>3 DEF Owns
  <2> QED BY <1>1, <2>1, <2>4 DEF FollowUnder
<1>4. NamesKept(q) \ F \subseteq DOMAIN q.alternatives
  BY <1>1 DEF Good, NamesKept
<1> QED BY <1>2, <1>3, <1>4 DEF Good

\* One checkpoint.
LEMMA CheckpointTaken ==
  ASSUME NEW p, NEW F, Good(p, F), NEW name \in DOMAIN p.alternatives
  PROVE  Good(WithCheckpoint(p, name), F)
<1> DEFINE q == WithCheckpoint(p, name)
           T == {name}
<1>1. /\ DOMAIN q = PlanFields
      /\ \A x \in PlanFields \ {"checkpoints"} : q[x] = p[x]
      /\ DOMAIN q.checkpoints = DOMAIN p.checkpoints \union T
      /\ \A m \in DOMAIN p.checkpoints \ {name} : q.checkpoints[m] = p.checkpoints[m]
  BY CheckpointPut DEF Good, IsPlan
<1>2. \A m \in DOMAIN q.checkpoints :
        q.checkpoints[m] = IF m \in T THEN WithCheckpoint(p, m).checkpoints[m]
                           ELSE p.checkpoints[m]
  BY <1>1
<1>3. T \subseteq DOMAIN p.alternatives
  OBVIOUS
<1> HIDE DEF q, T
<1>4. Good(q, F)
  BY <1>1, <1>2, <1>3, CheckpointsTaken
<1> QED BY <1>4 DEF q

\* Those of the month, and the seed.
LEMMA SettledGood ==
  ASSUME NEW p, NEW F, Good(p, F)
  PROVE  Good(Settled(p), F)
<1> DEFINE q == WithMonthly(p)
           T == {n \in DOMAIN p.alternatives : MonthlyDue(p, n)}
           due == [name \in DOMAIN p.checkpoints \union T |->
                     IF name \in DOMAIN p.alternatives /\ MonthlyDue(p, name)
                     THEN WithCheckpoint(p, name).checkpoints[name] ELSE p.checkpoints[name]]
<1>1. q = [p EXCEPT !.checkpoints = due]
  BY Zenon DEF WithMonthly
<1>2. DOMAIN p = PlanFields
  BY DEF Good, IsPlan
<1>3. \A m \in DOMAIN p.checkpoints \union T :
        due[m] = IF m \in T THEN WithCheckpoint(p, m).checkpoints[m] ELSE p.checkpoints[m]
  BY Zenon
<1>4. DOMAIN due = DOMAIN p.checkpoints \union T /\ T \subseteq DOMAIN p.alternatives
  BY Zenon
<1> HIDE DEF due, T, q
<1>5. /\ DOMAIN q = PlanFields
      /\ \A x \in PlanFields \ {"checkpoints"} : q[x] = p[x]
      /\ q.checkpoints = due
  BY <1>1, <1>2 DEF PlanFields
<1>6. Good(q, F)
  BY <1>3, <1>4, <1>5, CheckpointsTaken
<1>7. Good(Resampled(q), F)
  <2> DEFINE r == Resampled(q)
  <2>1. /\ DOMAIN r = PlanFields /\ r.activeAlt = q.activeAlt
        /\ r.alternatives = q.alternatives /\ r.byAlt = q.byAlt /\ r.goals = q.goals
        /\ r.checkpoints = q.checkpoints
    BY <1>5 DEF Resampled, PlanFields
  <2> HIDE DEF r
  <2>2. q.activeAlt \in DOMAIN q.alternatives
    BY <1>6 DEF Good, IsPlan
  <2>3. Good(r, F)
    BY <1>6, <2>1, <2>2, OthersSet
  <2> QED BY <2>3 DEF r
<1> QED BY <1>6, <1>7 DEF Settled, EnsureForecastSeed, q

\* What an edit leaves.
LEMMA EditGood ==
  ASSUME NEW p, NEW F, Good(p, F), Edit(p), freed' = F
  PROVE  Good(store, freed)'
<1>1. store' = Settled(p)
  BY DEF Edit
<1>2. Good(store', freed')
  BY <1>1, SettledGood
<1> QED BY <1>2 DEF Good, NamesKept, Owns, FollowUnder, CheckpointsOf, PipelineOf, At, NoFlows

-----------------------------------------------------------------------------
(***************************************************************************)
(* The edits of the flows.                                                 *)
(***************************************************************************)

\* The document of the screens, in the state before an edit.
LEMMA ActiveOfPlan ==
  ASSUME NEW F, Good(store, F)
  PROVE  /\ store.activeAlt \in DOMAIN store.alternatives
         /\ IsAlternative(Alt) /\ IsFlows(Edges)
         /\ DOMAIN ActivePipeline = {"owner", "edges"}
         /\ store.activeAlt \notin F => FlowsOf(ActivePipeline, Alt)
<1> DEFINE a == store.activeAlt
<1>1. a \in DOMAIN store.alternatives /\ IsAlternative(Alt)
  BY DEF Good, IsPlan, Alt
<1>2. CASE a \in DOMAIN store.byAlt
  <2>1. ActivePipeline = store.byAlt[a]
    BY <1>2 DEF ActivePipeline, PipelineOf, At
  <2>2. DOMAIN ActivePipeline = {"owner", "edges"} /\ IsFlows(Edges)
    BY <1>2, <2>1 DEF Good, IsPlan, Edges
  <2>3. a \notin F => FlowsOf(ActivePipeline, Alt)
    BY <1>1, <1>2, <2>1 DEF Good, Owns, FollowUnder, FlowsOf, Alt, ActivePipeline
  <2> QED BY <1>1, <2>2, <2>3
<1>3. CASE a \notin DOMAIN store.byAlt
  <2>1. ActivePipeline = [owner |-> Alt.id, edges |-> << >>]
    BY <1>3 DEF ActivePipeline, PipelineOf, At, NoFlows, Alt
  <2>2. DOMAIN ActivePipeline = {"owner", "edges"} /\ Edges = << >>
    BY <2>1 DEF Edges
  <2>3. IsFlows(Edges)
    BY <2>2 DEF IsFlows, IsSequence
  <2>4. FlowsOf(ActivePipeline, Alt)
    BY <2>1 DEF FlowsOf
  <2> QED BY <1>1, <2>2, <2>3, <2>4
<1> QED BY <1>2, <1>3

\* Each of the flows is one of those, and so for the sanitized.
LEMMA KeptFlows ==
  ASSUME NEW edges, IsFlows(edges), NEW K
  PROVE  /\ IsFlows(Kept(edges, K))
         /\ \A i \in DOMAIN Kept(edges, K) :
              \E j \in DOMAIN edges : Kept(edges, K)[i] = edges[j]
<1>1. /\ IsSequence(Kept(edges, K))
      /\ \A i \in DOMAIN Kept(edges, K) :
           \E j \in K \cap DOMAIN edges : Kept(edges, K)[i] = edges[j]
  BY KeptElements DEF IsFlows
<1> QED BY <1>1 DEF IsFlows

\* The sanitized flows are among those that are sanitized.
LEMMA Sanitized ==
  ASSUME NEW edges, IsFlows(edges)
  PROVE  /\ IsFlows(SanitizeEdges(edges))
         /\ \A i \in DOMAIN SanitizeEdges(edges) :
              \E j \in DOMAIN edges : SanitizeEdges(edges)[i] = edges[j]
<1> DEFINE K == {i \in DOMAIN edges : /\ {edges[i].from, edges[i].to} \subseteq Nodes(Alt)
                                      /\ FlowAllowed(edges[i].from[1], edges[i].to[1])}
<1>1. SanitizeEdges(edges) = Kept(edges, K)
  BY Zenon DEF SanitizeEdges
<1> HIDE DEF K
<1> QED BY <1>1, KeptFlows

\* Other flows between the rows of the active alternative.
LEMMA EdgesSet ==
  ASSUME NEW F, Good(store, F), NEW p, Good(p, F), p.activeAlt = store.activeAlt,
         p.alternatives[p.activeAlt].id = Alt.id, NEW edges, IsFlows(edges),
         p.activeAlt \notin F =>
           \A i \in DOMAIN edges : Follows(edges[i], p.alternatives[p.activeAlt])
  PROVE  Good(SetEdges(p, edges), F)
<1> DEFINE q == SetEdges(p, edges)
           a == p.activeAlt
           flows == [ActivePipeline EXCEPT !.edges = edges]
<1>1. /\ DOMAIN flows = {"owner", "edges"} /\ flows.owner = ActivePipeline.owner
      /\ flows.edges = edges
  BY ActiveOfPlan
<1>2. a \in DOMAIN p.alternatives /\ IsAlternative(p.alternatives[a])
  BY DEF Good, IsPlan
<1>3. a \notin F => FlowsOf(flows, p.alternatives[a])
  BY <1>1, ActiveOfPlan DEF FlowsOf
<1> HIDE DEF flows
<1>4. /\ DOMAIN q = PlanFields /\ q.activeAlt = a /\ q.alternatives = p.alternatives
      /\ q.goals = p.goals /\ q.checkpoints = p.checkpoints /\ q.byAlt = Put(p.byAlt, a, flows)
  BY DEF Good, IsPlan, SetEdges, PlanFields, flows
<1> HIDE DEF q, a
<1>5. \A m : m # a => Alike(p.byAlt, q.byAlt, m)
  BY <1>4 DEF Alike, Put
<1>6. q.byAlt[a] = flows
  BY <1>4 DEF Put
<1>7. Good(q, F)
  BY <1>1, <1>2, <1>3, <1>4, <1>5, <1>6, OneSet
<1> QED BY <1>7 DEF q

\* Flows that are entered anew, sanitized and perhaps written into the rows.
LEMMA PipelineUpdated ==
  ASSUME NEW F, Good(store, F), NEW edges, IsFlows(edges),
         store.activeAlt \notin F => \A i \in DOMAIN edges : Follows(edges[i], Alt),
         NEW applied \in BOOLEAN
  PROVE  Good(UpdatePipeline(edges, applied), F)
<1> DEFINE clean == SanitizeEdges(edges)
           alt == IF applied THEN ApplyFlows(Alt, clean, today) ELSE Alt
           p == SetAlternative(store, store.activeAlt, alt)
<1>1. store.activeAlt \in DOMAIN store.alternatives /\ IsAlternative(Alt)
      /\ Alt = store.alternatives[store.activeAlt]
  BY ActiveOfPlan DEF Alt
<1>2. IsFlows(clean) /\ \A i \in DOMAIN clean : \E j \in DOMAIN edges : clean[i] = edges[j]
  BY Sanitized
<1>3. UpdatePipeline(edges, applied) = SetEdges(p, clean)
  BY Zenon DEF UpdatePipeline
<1> HIDE DEF clean
<1>4. Becomes(Alt, alt)
  BY <1>1, FlowsApplied, BecomesItself
<1> HIDE DEF alt
<1>5. /\ Good(p, F) /\ p.activeAlt = store.activeAlt
      /\ p.alternatives[store.activeAlt] = alt
  BY <1>1, <1>4, AlternativeSet
<1> HIDE DEF p
<1>6. p.alternatives[p.activeAlt].id = Alt.id
  BY <1>4, <1>5 DEF Becomes
<1>7. p.activeAlt \notin F =>
        \A i \in DOMAIN clean : Follows(clean[i], p.alternatives[p.activeAlt])
  BY <1>2, <1>4, <1>5, FollowsOn DEF Becomes
<1> QED BY <1>2, <1>3, <1>5, <1>6, <1>7, EdgesSet

\* A sequence without one of its elements.
LEMMA ElementRemoved ==
  ASSUME NEW s, IsSequence(s), NEW n \in DOMAIN s
  PROVE  /\ IsSequence(Removed(s, n)) /\ DOMAIN Removed(s, n) = 1 .. Len(s) - 1
         /\ \A i \in DOMAIN Removed(s, n) :
              /\ i \in DOMAIN s /\ i + 1 \in DOMAIN s
              /\ Removed(s, n)[i] = IF i < n THEN s[i] ELSE s[i + 1]
         /\ \A i \in DOMAIN s : i < n => i \in DOMAIN Removed(s, n)
<1>1. Len(s) \in Nat /\ DOMAIN s = 1 .. Len(s) /\ n \in 1 .. Len(s)
  BY Sequence
<1>2. /\ DOMAIN Removed(s, n) = 1 .. Len(s) - 1
      /\ Removed(s, n) = [i \in 1 .. Len(s) - 1 |-> Removed(s, n)[i]]
      /\ \A i \in 1 .. Len(s) - 1 : Removed(s, n)[i] = IF i < n THEN s[i] ELSE s[i + 1]
  BY DEF Removed
<1>3. Len(s) - 1 \in Nat
  BY <1>1
<1>4. IsSequence(Removed(s, n))
  <2> DEFINE r == Removed(s, n)
  <2>1. DOMAIN r = 1 .. Len(s) - 1 /\ r = [i \in 1 .. Len(s) - 1 |-> r[i]]
    BY <1>2
  <2> HIDE DEF r
  <2>2. IsSequence(r)
    BY <1>3, <2>1, Listed
  <2> QED BY <2>2 DEF r
<1>5. \A i \in 1 .. Len(s) - 1 : i \in DOMAIN s /\ i + 1 \in DOMAIN s
  BY <1>1
<1>6. \A i \in DOMAIN s : i < n => i \in 1 .. Len(s) - 1
  BY <1>1
<1> QED BY <1>2, <1>4, <1>5, <1>6

\* What is entered for a flow leaves its ends.
LEMMA FlowEntered ==
  ASSUME NEW edge, DOMAIN edge = EdgeFields, edge.slipped \in BOOLEAN, NEW form
  PROVE  /\ DOMAIN Entered(edge, form) = EdgeFields /\ Entered(edge, form).slipped \in BOOLEAN
         /\ \A alt : Follows(edge, alt) => Follows(Entered(edge, form), alt)
<1>1. /\ DOMAIN Entered(edge, form) = EdgeFields
      /\ Entered(edge, form).slipped = edge.slipped /\ Entered(edge, form).from = edge.from
      /\ Entered(edge, form).to = edge.to /\ Entered(edge, form).ends = edge.ends
  BY DEF Entered, EdgeFields
<1> QED BY <1>1 DEF Follows

\* A flow that is drawn leads between the rows it is drawn between.
LEMMA CreateFlowGood ==
  ASSUME NEW F, Good(store, F), freed = F, NEW from, NEW to, NEW form,
         CreateFlow(from, to, form)
  PROVE  Good(store, freed)'
<1> DEFINE edge == [from |-> from, to |-> to, mode |-> "", amount |-> 0, freq |-> "",
                    recur |-> "none", slipped |-> FALSE,
                    ends |-> <<RowAt(Alt, from).id, RowAt(Alt, to).id>>]
           edges == Append(Edges, Entered(edge, form))
<1>1. {from, to} \subseteq Nodes(Alt) /\ Edit(UpdatePipeline(edges, TRUE)) /\ freed' = F
  BY DEF CreateFlow
<1>2. DOMAIN edge = EdgeFields /\ edge.slipped \in BOOLEAN /\ Follows(edge, Alt)
  BY <1>1 DEF EdgeFields, Follows
<1> HIDE DEF edge
<1> DEFINE new == Entered(edge, form)
<1>3. DOMAIN new = EdgeFields /\ new.slipped \in BOOLEAN /\ Follows(new, Alt)
  BY <1>2, FlowEntered
<1> HIDE DEF new
<1>4. edges = Append(Edges, new)
  BY DEF new
<1> HIDE DEF edges
<1>5. IsSequence(Edges)
  BY ActiveOfPlan DEF IsFlows
<1>6. /\ IsSequence(edges)
      /\ \A i \in DOMAIN edges : edges[i] = new \/ (i \in DOMAIN Edges /\ edges[i] = Edges[i])
  <2>1. /\ IsSequence(edges) /\ DOMAIN edges = 1 .. Len(Edges) + 1
        /\ \A i \in DOMAIN Edges : edges[i] = Edges[i]
        /\ edges[Len(Edges) + 1] = new
    BY <1>4, <1>5, Appended
  <2>2. \A i \in 1 .. Len(Edges) + 1 : i \in DOMAIN Edges \/ i = Len(Edges) + 1
    BY <1>5, Sequence
  <2> QED BY <2>1, <2>2
<1>7. IsFlows(edges)
  BY <1>3, <1>6, ActiveOfPlan DEF IsFlows
<1>8. store.activeAlt \notin F => \A i \in DOMAIN edges : Follows(edges[i], Alt)
  BY <1>3, <1>6, ActiveOfPlan DEF FlowsOf, Edges
<1> QED BY <1>1, <1>7, <1>8, PipelineUpdated, EditGood

\* A flow that is edited keeps its ends.
LEMMA EditFlowGood ==
  ASSUME NEW F, Good(store, F), freed = F, NEW i, NEW form, EditFlow(i, form)
  PROVE  Good(store, freed)'
<1> DEFINE edges == [Edges EXCEPT ![i] = Entered(@, form)]
<1>1. i \in DOMAIN Edges /\ Edit(UpdatePipeline(edges, TRUE)) /\ freed' = F
  BY DEF EditFlow
<1>2. IsFlows(Edges) /\ IsSequence(Edges)
  BY ActiveOfPlan DEF IsFlows
<1>3. /\ DOMAIN edges = DOMAIN Edges /\ edges[i] = Entered(Edges[i], form)
      /\ \A j \in DOMAIN Edges \ {i} : edges[j] = Edges[j]
      /\ edges = [j \in DOMAIN edges |-> edges[j]]
  BY <1>1, <1>2 DEF IsSequence
<1> HIDE DEF edges
<1>4. IsSequence(edges)
  BY <1>2, <1>3, Sequence, Listed
<1>5. /\ DOMAIN Entered(Edges[i], form) = EdgeFields
      /\ Entered(Edges[i], form).slipped \in BOOLEAN
      /\ \A alt : Follows(Edges[i], alt) => Follows(Entered(Edges[i], form), alt)
  BY <1>1, <1>2, FlowEntered DEF IsFlows
<1>6. IsFlows(edges)
  BY <1>2, <1>3, <1>4, <1>5 DEF IsFlows
<1>7. store.activeAlt \notin F => \A j \in DOMAIN edges : Follows(edges[j], Alt)
  BY <1>1, <1>3, <1>5, ActiveOfPlan DEF FlowsOf, Edges
<1> QED BY <1>1, <1>6, <1>7, PipelineUpdated, EditGood

\* The others lead where they led.
LEMMA DeleteFlowGood ==
  ASSUME NEW F, Good(store, F), freed = F, NEW i, DeleteFlow(i)
  PROVE  Good(store, freed)'
<1> DEFINE edges == Removed(Edges, i)
<1>1. i \in DOMAIN Edges /\ Edit(UpdatePipeline(edges, TRUE)) /\ freed' = F
  BY DEF DeleteFlow
<1>2. IsFlows(Edges)
  BY ActiveOfPlan
<1>3. /\ IsSequence(edges)
      /\ \A j \in DOMAIN edges : \E m \in DOMAIN Edges : edges[j] = Edges[m]
  BY <1>1, <1>2, ElementRemoved DEF IsFlows
<1> HIDE DEF edges
<1>4. IsFlows(edges)
  BY <1>2, <1>3 DEF IsFlows
<1>5. store.activeAlt \notin F => \A j \in DOMAIN edges : Follows(edges[j], Alt)
  BY <1>3, ActiveOfPlan DEF FlowsOf, Edges
<1> QED BY <1>1, <1>4, <1>5, PipelineUpdated, EditGood

\* Nodes that are only moved.
LEMMA ArrangeGood ==
  ASSUME NEW F, Good(store, F), freed = F, ArrangeNodes
  PROVE  Good(store, freed)'
<1>1. Edit(UpdatePipeline(Edges, FALSE)) /\ freed' = F
  BY DEF ArrangeNodes
<1>2. store.activeAlt \notin F => \A j \in DOMAIN Edges : Follows(Edges[j], Alt)
  BY ActiveOfPlan DEF FlowsOf, Edges
<1> QED BY <1>1, <1>2, ActiveOfPlan, PipelineUpdated, EditGood

-----------------------------------------------------------------------------
(***************************************************************************)
(* A row goes away, and those behind it move up.                           *)
(***************************************************************************)

\* The rows of other kinds and before the n-th stay in their places.
RowGone(a, b, kind, n) ==
  /\ IsAlternative(b) /\ b.id = a.id
  /\ \A k1 \in Kinds : \A m \in DOMAIN a[k1] :
       k1 # kind \/ m < n => m \in DOMAIN b[k1] /\ b[k1][m].id = a[k1][m].id

\* An alternative without one of its rows.
LEMMA RowRemoved ==
  ASSUME NEW a, IsAlternative(a), NEW kind \in Kinds, NEW n \in DOMAIN a[kind]
  PROVE  RowGone(a, [a EXCEPT ![kind] = Removed(@, n)], kind, n)
<1> DEFINE b == [a EXCEPT ![kind] = Removed(@, n)]
<1>1. DOMAIN a = Kinds \union {"id"} /\ \A k1 \in Kinds : k1 \in DOMAIN a /\ k1 # "id"
  BY DEF IsAlternative, Kinds
<1>2. /\ DOMAIN b = DOMAIN a /\ b[kind] = Removed(a[kind], n)
      /\ \A x \in DOMAIN a \ {kind} : b[x] = a[x]
  BY <1>1
<1> HIDE DEF b
<1>3. /\ IsSequence(b[kind])
      /\ \A i \in DOMAIN b[kind] :
           /\ i \in DOMAIN a[kind] /\ i + 1 \in DOMAIN a[kind]
           /\ b[kind][i] = IF i < n THEN a[kind][i] ELSE a[kind][i + 1]
      /\ \A i \in DOMAIN a[kind] : i < n => i \in DOMAIN b[kind]
  BY <1>2, ElementRemoved DEF IsAlternative
<1>4. \A k1 \in Kinds : IsSequence(b[k1]) /\ \A i \in DOMAIN b[k1] : "id" \in DOMAIN b[k1][i]
  BY <1>1, <1>2, <1>3 DEF IsAlternative
<1>5. IsAlternative(b) /\ b.id = a.id
  BY <1>1, <1>2, <1>4 DEF IsAlternative
<1>6. ASSUME NEW k1 \in Kinds, NEW m \in DOMAIN a[k1], k1 # kind \/ m < n
      PROVE  m \in DOMAIN b[k1] /\ b[k1][m].id = a[k1][m].id
  BY <1>1, <1>2, <1>3, <1>6
<1>7. RowGone(a, b, kind, n)
  BY <1>5, <1>6 DEF RowGone
<1> QED BY <1>7 DEF b

\* What becomes of it keeps as much.
LEMMA GoneOn ==
  ASSUME NEW a, NEW b, NEW c, NEW kind, NEW n, RowGone(a, b, kind, n), Becomes(b, c)
  PROVE  RowGone(a, c, kind, n)
  BY DEF RowGone, Becomes, Keeps

\* A flow from or to a row that moved has slipped; another leads where it led.
LEMMA FollowsSlipped ==
  ASSUME NEW a, IsAlternative(a), NEW b, NEW kind \in Kinds, NEW n \in Nat,
         RowGone(a, b, kind, n), NEW edges, IsFlows(edges),
         \A i \in DOMAIN edges : Follows(edges[i], a)
  PROVE  \A i \in DOMAIN Slipped(edges, kind, n) : Follows(Slipped(edges, kind, n)[i], b)
<1> DEFINE Behind(node) == node[1] = kind /\ node[2] >= n
           new == Slipped(edges, kind, n)
<1> SUFFICES ASSUME NEW i \in DOMAIN new PROVE Follows(new[i], b)
  OBVIOUS
<1> DEFINE edge == edges[i]
<1>1. i \in DOMAIN edges /\ DOMAIN edge = EdgeFields /\ edge.slipped \in BOOLEAN
      /\ Follows(edge, a)
  BY DEF Slipped, IsFlows
<1>2. new[i] = [edge EXCEPT !.slipped = edge.slipped \/ Behind(edge.from) \/ Behind(edge.to)]
  BY <1>1 DEF Slipped
<1>3. /\ new[i].slipped = (edge.slipped \/ Behind(edge.from) \/ Behind(edge.to))
      /\ new[i].from = edge.from /\ new[i].to = edge.to /\ new[i].ends = edge.ends
  BY <1>1, <1>2 DEF EdgeFields
<1> HIDE DEF new, edge
<1>4. CASE edge.slipped \/ Behind(edge.from) \/ Behind(edge.to)
  BY <1>3, <1>4 DEF Follows
<1>5. CASE ~(edge.slipped \/ Behind(edge.from) \/ Behind(edge.to))
  <2>1. ASSUME NEW node \in Nodes(a), ~Behind(node)
        PROVE  node \in Nodes(b) /\ RowAt(b, node).id = RowAt(a, node).id
    <3>1. PICK k1 \in Kinds : \E m \in DOMAIN a[k1] : node = <<k1, m>>
      BY NodeIsRow
    <3>2. PICK m \in DOMAIN a[k1] : node = <<k1, m>>
      BY <3>1
    <3>3. m \in Nat
      BY Sequence DEF IsAlternative
    <3>4. k1 # kind \/ m < n
      BY <2>1, <3>2, <3>3
    <3>5. m \in DOMAIN b[k1] /\ b[k1][m].id = a[k1][m].id
      BY <3>4 DEF RowGone
    <3>6. node \in Nodes(b)
      BY <3>2, <3>5, NodeIsRow
    <3>7. RowAt(a, node) = a[k1][m] /\ RowAt(b, node) = b[k1][m]
      BY <3>2 DEF RowAt
    <3> QED BY <3>5, <3>6, <3>7
  <2>2. /\ edge.from \in Nodes(a) /\ edge.to \in Nodes(a)
        /\ edge.ends = <<RowAt(a, edge.from).id, RowAt(a, edge.to).id>>
    BY <1>1, <1>5 DEF Follows
  <2>3. /\ edge.from \in Nodes(b) /\ RowAt(b, edge.from).id = RowAt(a, edge.from).id
        /\ edge.to \in Nodes(b) /\ RowAt(b, edge.to).id = RowAt(a, edge.to).id
    BY <1>5, <2>1, <2>2
  <2> QED BY <1>3, <2>2, <2>3 DEF Follows
<1> QED BY <1>4, <1>5

\* The flows that slipped are flows.
LEMMA EdgesSlipped ==
  ASSUME NEW edges, IsFlows(edges), NEW kind, NEW n
  PROVE  IsFlows(Slipped(edges, kind, n))
<1> DEFINE Behind(node) == node[1] = kind /\ node[2] >= n
           new == Slipped(edges, kind, n)
<1>1. /\ DOMAIN new = DOMAIN edges /\ new = [i \in DOMAIN new |-> new[i]]
      /\ \A i \in DOMAIN edges :
           new[i] = [edges[i] EXCEPT !.slipped = edges[i].slipped
                                       \/ Behind(edges[i].from) \/ Behind(edges[i].to)]
  BY DEF Slipped
<1>2. \A i \in DOMAIN edges : DOMAIN new[i] = EdgeFields /\ new[i].slipped \in BOOLEAN
  BY <1>1 DEF IsFlows, EdgeFields
<1> HIDE DEF new
<1>3. IsSequence(new)
  BY <1>1, Sequence, Listed DEF IsFlows
<1>4. IsFlows(new)
  BY <1>1, <1>2, <1>3 DEF IsFlows
<1> QED BY <1>4 DEF new

\* The place of a row is a number.
LEMMA PlacesAreNumbers ==
  ASSUME NEW alt, IsAlternative(alt), NEW kind \in Kinds, NEW n \in DOMAIN alt[kind]
  PROVE  n \in Nat
<1>1. IsSequence(alt[kind])
  BY DEF IsAlternative
<1> QED BY <1>1, Sequence

\* The row goes away, and flows of the rows before go with it, or none do.
LEMMA SlipGood ==
  ASSUME NEW F, Good(store, F), NEW alt, NEW kind \in Kinds, NEW n \in Nat,
         RowGone(Alt, alt, kind, n),
         NEW p, DOMAIN p = PlanFields, p.activeAlt = store.activeAlt,
         DOMAIN p.alternatives = DOMAIN store.alternatives,
         p.alternatives[store.activeAlt] = alt,
         \A m \in DOMAIN store.alternatives \ {store.activeAlt} :
           p.alternatives[m] = store.alternatives[m],
         p.goals = store.goals, p.checkpoints = store.checkpoints,
         \A m : m # store.activeAlt => Alike(store.byAlt, p.byAlt, m),
         store.activeAlt \in DOMAIN p.byAlt =>
           /\ DOMAIN p.byAlt[store.activeAlt] = {"owner", "edges"}
           /\ IsFlows(p.byAlt[store.activeAlt].edges)
           /\ store.activeAlt \in F \/ FlowsOf(p.byAlt[store.activeAlt], Alt)
  PROVE  Good(Slip(p, kind, n), F)
<1> DEFINE a == store.activeAlt
           q == Slip(p, kind, n)
<1>1. /\ a \in DOMAIN store.alternatives /\ IsAlternative(Alt)
      /\ Alt = store.alternatives[a]
  BY ActiveOfPlan DEF Alt
<1>2. IsAlternative(alt) /\ alt.id = Alt.id
  BY DEF RowGone
<1>3. CASE a \notin DOMAIN p.byAlt
  <2>1. q = p
    BY <1>3 DEF Slip
  <2> HIDE DEF a, q
  <2>2. Good(q, F)
    BY <1>1, <1>2, <1>3, <2>1, OneSet DEF a
  <2> QED BY <2>2 DEF q
<1>4. CASE a \in DOMAIN p.byAlt
  <2> DEFINE flows == p.byAlt[a]
             new == [flows EXCEPT !.edges = Slipped(flows.edges, kind, n)]
  <2>1. q = [p EXCEPT !.byAlt[a].edges = Slipped(@, kind, n)]
    BY <1>4 DEF Slip
  <2>2. q = [p EXCEPT !.byAlt = [p.byAlt EXCEPT ![a] = new]]
    BY <2>1, Zenon
  <2>3. DOMAIN flows = {"owner", "edges"} /\ IsFlows(flows.edges)
        /\ (a \in F \/ FlowsOf(flows, Alt))
    BY <1>4
  <2>4. DOMAIN new = {"owner", "edges"} /\ new.owner = flows.owner
        /\ new.edges = Slipped(flows.edges, kind, n)
    BY <2>3
  <2>5. IsFlows(new.edges)
    BY <2>3, <2>4, EdgesSlipped
  <2>6. a \in F \/ FlowsOf(new, alt)
    BY <1>1, <1>2, <2>3, <2>4, FollowsSlipped DEF FlowsOf
  <2> HIDE DEF new
  <2>7. /\ DOMAIN q = PlanFields /\ q.activeAlt = p.activeAlt
        /\ q.alternatives = p.alternatives /\ q.goals = p.goals
        /\ q.checkpoints = p.checkpoints /\ q.byAlt = [p.byAlt EXCEPT ![a] = new]
    BY <2>2 DEF PlanFields
  <2> HIDE DEF q
  <2>8. /\ q.byAlt[a] = new
        /\ \A m : m # a => Alike(store.byAlt, q.byAlt, m)
    BY <1>4, <2>7 DEF Alike
  <2> HIDE DEF a
  <2>9. Good(q, F)
    BY <1>1, <1>2, <2>4, <2>5, <2>6, <2>7, <2>8, OneSet DEF a
  <2> QED BY <2>9 DEF q
<1> QED BY <1>3, <1>4

\* In the tables, which know nothing of the flows.
LEMMA DeleteRowGood ==
  ASSUME NEW F, Good(store, F), freed = F, NEW kind \in Kinds, NEW n, DeleteRow(kind, n)
  PROVE  Good(store, freed)'
<1> DEFINE alt == [Alt EXCEPT ![kind] = Removed(@, n)]
           p == SetAlternative(store, store.activeAlt, alt)
<1>1. n \in DOMAIN Alt[kind] /\ Edit(Slip(p, kind, n)) /\ freed' = F
  BY DEF DeleteRow
<1>2. store.activeAlt \in DOMAIN store.alternatives /\ IsAlternative(Alt)
  BY ActiveOfPlan
<1>3. RowGone(Alt, alt, kind, n) /\ n \in Nat
  <2>1. n \in Nat
    BY <1>1, <1>2, PlacesAreNumbers
  <2>2. RowGone(Alt, alt, kind, n)
    BY <1>1, <1>2, RowRemoved
  <2> QED BY <2>1, <2>2
<1> HIDE DEF alt
<1>4. /\ DOMAIN p = PlanFields /\ p.activeAlt = store.activeAlt
      /\ p.alternatives = Put(store.alternatives, store.activeAlt, alt)
      /\ p.goals = store.goals /\ p.checkpoints = store.checkpoints /\ p.byAlt = store.byAlt
  BY DEF SetAlternative, Good, IsPlan, PlanFields
<1> HIDE DEF p
<1>5. /\ DOMAIN p.alternatives = DOMAIN store.alternatives
      /\ p.alternatives[store.activeAlt] = alt
      /\ \A m \in DOMAIN store.alternatives \ {store.activeAlt} :
           p.alternatives[m] = store.alternatives[m]
  BY <1>2, <1>4 DEF Put
<1>6. store.activeAlt \in DOMAIN store.byAlt =>
        /\ DOMAIN store.byAlt[store.activeAlt] = {"owner", "edges"}
        /\ IsFlows(store.byAlt[store.activeAlt].edges)
        /\ store.activeAlt \in F \/ FlowsOf(store.byAlt[store.activeAlt], Alt)
  <2>1. store.activeAlt \in DOMAIN store.byAlt => ActivePipeline = store.byAlt[store.activeAlt]
    BY DEF ActivePipeline, PipelineOf, At
  <2> QED BY <2>1, ActiveOfPlan DEF Edges
<1>7. \A m : Alike(store.byAlt, p.byAlt, m)
  BY <1>4 DEF Alike
<1>8. Good(Slip(p, kind, n), F)
  BY <1>3, <1>4, <1>5, <1>6, <1>7, SlipGood
<1> QED BY <1>1, <1>8, EditGood

\* On the canvas, where the flows of the row go with it.
LEMMA DeleteNodeGood ==
  ASSUME NEW F, Good(store, F), freed = F, NEW kind \in Kinds, NEW n, DeleteNode(kind, n)
  PROVE  Good(store, freed)'
<1> DEFINE node == <<kind, n>>
           K == {i \in DOMAIN Edges : node \notin {Edges[i].from, Edges[i].to}}
           kept == Kept(Edges, K)
           bare == [Alt EXCEPT ![kind] = Removed(@, n)]
           alt == ApplyFlows(bare, kept, today)
           clean == SanitizeEdges(kept)
           s == SetAlternative(store, store.activeAlt, alt)
           p == SetEdges(s, clean)
<1>1. n \in DOMAIN Alt[kind] /\ Edit(Slip(p, kind, n)) /\ freed' = F
  BY Zenon DEF DeleteNode
<1>2. store.activeAlt \in DOMAIN store.alternatives /\ IsAlternative(Alt) /\ IsFlows(Edges)
  BY ActiveOfPlan
<1>3. RowGone(Alt, bare, kind, n) /\ n \in Nat
  <2>1. n \in Nat
    BY <1>1, <1>2, PlacesAreNumbers
  <2>2. RowGone(Alt, bare, kind, n)
    BY <1>1, <1>2, RowRemoved
  <2> QED BY <2>1, <2>2
<1> HIDE DEF K
<1>4. IsFlows(kept) /\ \A i \in DOMAIN kept : \E j \in DOMAIN Edges : kept[i] = Edges[j]
  BY <1>2, KeptFlows
<1> HIDE DEF kept, bare
<1>5. RowGone(Alt, alt, kind, n)
  <2>1. IsAlternative(bare)
    BY <1>3 DEF RowGone
  <2>2. Becomes(bare, alt)
    BY <2>1, FlowsApplied
  <2> HIDE DEF alt
  <2> QED BY <1>3, <2>2, GoneOn
<1> HIDE DEF alt
<1>6. IsFlows(clean) /\ \A i \in DOMAIN clean : \E j \in DOMAIN kept : clean[i] = kept[j]
  BY <1>4, Sanitized
<1> HIDE DEF clean
<1>7. store.activeAlt \notin F => \A i \in DOMAIN clean : Follows(clean[i], Alt)
  BY <1>4, <1>6, ActiveOfPlan DEF FlowsOf, Edges
<1>8. /\ DOMAIN s = PlanFields /\ s.activeAlt = store.activeAlt
      /\ s.alternatives = Put(store.alternatives, store.activeAlt, alt)
      /\ s.goals = store.goals /\ s.checkpoints = store.checkpoints /\ s.byAlt = store.byAlt
  BY DEF SetAlternative, Good, IsPlan, PlanFields
<1> HIDE DEF s
<1> DEFINE flows == [ActivePipeline EXCEPT !.edges = clean]
<1>9. /\ DOMAIN flows = {"owner", "edges"} /\ flows.owner = ActivePipeline.owner
      /\ flows.edges = clean
  BY ActiveOfPlan
<1> HIDE DEF flows
<1>10. /\ DOMAIN p = PlanFields /\ p.activeAlt = store.activeAlt
       /\ p.alternatives = Put(store.alternatives, store.activeAlt, alt)
       /\ p.goals = store.goals /\ p.checkpoints = store.checkpoints
       /\ p.byAlt = Put(store.byAlt, store.activeAlt, flows)
  BY <1>8 DEF SetEdges, PlanFields, flows
<1> HIDE DEF p
<1>11. /\ DOMAIN p.alternatives = DOMAIN store.alternatives
       /\ p.alternatives[store.activeAlt] = alt
       /\ \A m \in DOMAIN store.alternatives \ {store.activeAlt} :
            p.alternatives[m] = store.alternatives[m]
  BY <1>2, <1>10 DEF Put
<1>12. /\ p.byAlt[store.activeAlt] = flows
       /\ \A m : m # store.activeAlt => Alike(store.byAlt, p.byAlt, m)
  BY <1>10 DEF Alike, Put
<1>13. store.activeAlt \in F \/ FlowsOf(flows, Alt)
  BY <1>7, <1>9, ActiveOfPlan DEF FlowsOf
<1>14. Good(Slip(p, kind, n), F)
  BY <1>3, <1>5, <1>6, <1>9, <1>10, <1>11, <1>12, <1>13, SlipGood
<1> QED BY <1>1, <1>14, EditGood

-----------------------------------------------------------------------------
(***************************************************************************)
(* The other edits.                                                        *)
(***************************************************************************)

\* The active alternative becomes another.
LEMMA ActiveBecomes ==
  ASSUME NEW F, Good(store, F), freed' = F, NEW alt, Becomes(Alt, alt),
         Edit(SetAlternative(store, store.activeAlt, alt))
  PROVE  Good(store, freed)'
<1>1. store.activeAlt \in DOMAIN store.alternatives
      /\ Alt = store.alternatives[store.activeAlt]
  BY ActiveOfPlan DEF Alt
<1>2. Good(SetAlternative(store, store.activeAlt, alt), F)
  BY <1>1, AlternativeSet
<1> QED BY <1>2, EditGood

\* A new row, in the tables and on the canvas.
LEMMA AddedRowGood ==
  ASSUME NEW F, Good(store, F), freed = F, NEW kind \in Kinds, AddRow(kind) \/ AddNode(kind)
  PROVE  Good(store, freed)'
<1>1. IsAlternative(Alt)
  BY ActiveOfPlan
<1>2. Becomes(Alt, WithRow(Alt, kind))
  BY <1>1, RowAdded
<1>3. Becomes(Alt, ApplyFlows(WithRow(Alt, kind), Edges, today))
  <2>1. IsAlternative(WithRow(Alt, kind))
    BY <1>2 DEF Becomes
  <2> QED BY <1>2, <2>1, FlowsApplied, BecomesOn
<1> QED BY <1>2, <1>3, ActiveBecomes DEF AddRow, AddNode

\* A cell keeps the uuid of its row.
LEMMA CellKeepsId ==
  ASSUME NEW row, "id" \in DOMAIN row, NEW field, field # "id", NEW to
  PROVE  "id" \in DOMAIN Cell(row, field, to) /\ Cell(row, field, to).id = row.id
  BY DEF Cell

\* A cell of the tables.
LEMMA EditCellGood ==
  ASSUME NEW F, Good(store, F), freed = F, NEW n, NEW kind \in Kinds, NEW field,
         field # "id", NEW to, EditCell(n, kind, field, to)
  PROVE  Good(store, freed)'
<1> DEFINE row == Cell(Alt[kind][n], field, to)
<1>1. n \in DOMAIN Alt[kind] /\ freed' = F
      /\ Edit(SetAlternative(store, store.activeAlt, [Alt EXCEPT ![kind][n] = row]))
  BY Zenon DEF EditCell
<1>2. IsAlternative(Alt) /\ "id" \in DOMAIN Alt[kind][n]
  BY <1>1, ActiveOfPlan DEF IsAlternative
<1>3. "id" \in DOMAIN row /\ row.id = Alt[kind][n].id
  BY <1>2, CellKeepsId
<1> HIDE DEF row
<1>4. Becomes(Alt, [Alt EXCEPT ![kind][n] = row])
  BY <1>1, <1>2, <1>3, RowChanged
<1> QED BY <1>1, <1>4, ActiveBecomes

\* A row that is saved in a dialog keeps its uuid too.
LEMMA RowSaved ==
  ASSUME NEW a, IsAlternative(a), NEW kind \in Kinds, NEW n \in DOMAIN a[kind], NEW field,
         field # "id", NEW to,
         NEW row,
         LET saved == [a[kind][n] EXCEPT ![field] = to] IN
         row = IF kind = "asset" THEN [saved EXCEPT !.synced = FALSE] ELSE saved
  PROVE  Becomes(a, [a EXCEPT ![kind][n] = row])
<1>1. "id" \in DOMAIN a[kind][n]
  BY DEF IsAlternative
<1>2. "id" \in DOMAIN row /\ row.id = a[kind][n].id
  BY <1>1
<1> QED BY <1>2, RowChanged

\* The form of a node.
LEMMA SaveNodeGood ==
  ASSUME NEW F, Good(store, F), freed = F, NEW n, NEW kind \in Kinds, NEW field,
         field # "id", NEW to, SaveNode(n, kind, field, to)
  PROVE  Good(store, freed)'
<1> DEFINE saved == [Alt[kind][n] EXCEPT ![field] = to]
           row == IF kind = "asset" THEN [saved EXCEPT !.synced = FALSE] ELSE saved
           b == [Alt EXCEPT ![kind][n] = row]
<1>1. n \in DOMAIN Alt[kind] /\ freed' = F
      /\ Edit(SetAlternative(store, store.activeAlt, ApplyFlows(b, Edges, today)))
  BY Zenon DEF SaveNode
<1>2. IsAlternative(Alt)
  BY ActiveOfPlan
<1>3. Becomes(Alt, b)
  BY <1>1, <1>2, RowSaved
<1> HIDE DEF b
<1>4. Becomes(Alt, ApplyFlows(b, Edges, today))
  <2>1. IsAlternative(b)
    BY <1>3 DEF Becomes
  <2> QED BY <1>3, <2>1, FlowsApplied, BecomesOn
<1> QED BY <1>1, <1>4, ActiveBecomes

\* The check-in, and the checkpoint that it takes.
LEMMA CheckInGood ==
  ASSUME NEW F, Good(store, F), freed = F, NEW n, NEW kind \in Kinds, NEW field, NEW to,
         CheckIn(n, kind, field, to)
  PROVE  Good(store, freed)'
<1> DEFINE saved == [Alt[kind][n] EXCEPT ![field] = to]
           row == IF kind = "asset" THEN [saved EXCEPT !.synced = FALSE] ELSE saved
           b == [Alt EXCEPT ![kind][n] = row]
           p == SetAlternative(store, store.activeAlt, b)
<1>1. n \in DOMAIN Alt[kind] /\ freed' = F /\ field # "id"
      /\ Edit(WithCheckpoint(p, store.activeAlt))
  BY Zenon DEF CheckIn
<1>2. /\ store.activeAlt \in DOMAIN store.alternatives /\ IsAlternative(Alt)
      /\ Alt = store.alternatives[store.activeAlt]
  BY ActiveOfPlan DEF Alt
<1>3. Becomes(Alt, b)
  BY <1>1, <1>2, RowSaved
<1> HIDE DEF b
<1>4. Good(p, F) /\ DOMAIN p.alternatives = DOMAIN store.alternatives
  BY <1>2, <1>3, AlternativeSet
<1> HIDE DEF p
<1>5. Good(WithCheckpoint(p, store.activeAlt), F)
  BY <1>2, <1>4, CheckpointTaken
<1> QED BY <1>1, <1>5, EditGood

\* Fields that say nothing of what belongs to whom.
LEMMA OtherGood ==
  ASSUME NEW F, Good(store, F), freed = F,
         \/ \E name : SelectAlternative(name) \/ ToggleChart(name)
         \/ \E augments : SetAugments(augments)
         \/ SwitchMonthly \/ Resample \/ \E n : AskQuote(n)
  PROVE  Good(store, freed)'
<1>1. /\ DOMAIN store = PlanFields /\ store.activeAlt \in DOMAIN store.alternatives
  BY DEF Good, IsPlan
<1>2. ASSUME NEW name, SelectAlternative(name) PROVE Good(store, freed)'
  <2> DEFINE q == [store EXCEPT !.activeAlt = name]
  <2>1. name \in DOMAIN store.alternatives /\ Edit(q) /\ freed' = F
    BY <1>2 DEF SelectAlternative
  <2>2. /\ DOMAIN q = PlanFields /\ q.activeAlt = name /\ q.alternatives = store.alternatives
        /\ q.byAlt = store.byAlt /\ q.goals = store.goals /\ q.checkpoints = store.checkpoints
    BY <1>1 DEF PlanFields
  <2> HIDE DEF q
  <2>3. Good(q, F)
    BY <2>1, <2>2, OthersSet
  <2> QED BY <2>1, <2>3, EditGood
<1>3. ASSUME NEW q, DOMAIN q = PlanFields, Edit(q), freed' = F,
             \A x \in {"activeAlt", "alternatives", "byAlt", "goals", "checkpoints"} :
               q[x] = store[x]
      PROVE  Good(store, freed)'
  <2>1. Good(q, F)
    BY <1>1, <1>3, OthersSet
  <2> QED BY <1>3, <2>1, EditGood
<1>4. ASSUME NEW name, ToggleChart(name) PROVE Good(store, freed)'
  <2> DEFINE q == [store EXCEPT !.altChartEnabled = Put(@, name, ~At(@, name, FALSE))]
  <2>1. Edit(q) /\ freed' = F
    BY <1>4 DEF ToggleChart
  <2>2. DOMAIN q = PlanFields
        /\ \A x \in {"activeAlt", "alternatives", "byAlt", "goals", "checkpoints"} :
             q[x] = store[x]
    BY <1>1 DEF PlanFields
  <2> HIDE DEF q
  <2> QED BY <1>3, <2>1, <2>2
<1>5. ASSUME NEW augments, SetAugments(augments) PROVE Good(store, freed)'
  <2> DEFINE q == [store EXCEPT !.augments = augments]
  <2>1. Edit(q) /\ freed' = F
    BY <1>5 DEF SetAugments
  <2>2. DOMAIN q = PlanFields
        /\ \A x \in {"activeAlt", "alternatives", "byAlt", "goals", "checkpoints"} :
             q[x] = store[x]
    BY <1>1 DEF PlanFields
  <2> HIDE DEF q
  <2> QED BY <1>3, <2>1, <2>2
<1>6. ASSUME SwitchMonthly PROVE Good(store, freed)'
  <2> DEFINE q == [store EXCEPT !.autoMonthly = ~@]
  <2>1. Edit(q) /\ freed' = F
    BY <1>6 DEF SwitchMonthly
  <2>2. DOMAIN q = PlanFields
        /\ \A x \in {"activeAlt", "alternatives", "byAlt", "goals", "checkpoints"} :
             q[x] = store[x]
    BY <1>1 DEF PlanFields
  <2> HIDE DEF q
  <2> QED BY <1>3, <2>1, <2>2
<1>7. ASSUME Resample PROVE Good(store, freed)'
  <2> DEFINE q == Resampled(store)
  <2>1. Edit(q) /\ freed' = F
    BY <1>7 DEF Resample
  <2>2. DOMAIN q = PlanFields
        /\ \A x \in {"activeAlt", "alternatives", "byAlt", "goals", "checkpoints"} :
             q[x] = store[x]
    BY <1>1 DEF Resampled, PlanFields
  <2> HIDE DEF q
  <2> QED BY <1>3, <2>1, <2>2
<1>8. ASSUME NEW n, AskQuote(n) PROVE Good(store, freed)'
  BY <1>8, EditGood DEF AskQuote
<1> QED BY <1>2, <1>4, <1>5, <1>6, <1>7, <1>8

\* Goals are set of the active alternative: one it is of, or fewer.
LEMMA GoalsGood ==
  ASSUME NEW F, Good(store, F), freed = F, AddGoal \/ RemoveGoal
  PROVE  Good(store, freed)'
<1> DEFINE a == store.activeAlt
<1>1. /\ a \in DOMAIN store.alternatives /\ Alt = store.alternatives[a]
      /\ DOMAIN store = PlanFields
  BY DEF Good, IsPlan, Alt
<1>2. a \notin F => Goals \subseteq {Alt.id}
  BY <1>1 DEF Good, Owns, Goals
<1>3. PICK goals : SetGoals(goals) /\ (a \notin F => goals \subseteq {Alt.id})
  BY <1>2 DEF AddGoal, RemoveGoal
<1> DEFINE q == [store EXCEPT !.goals = Put(@, a, goals)]
<1>4. Edit(q) /\ freed' = F
  BY <1>3 DEF SetGoals
<1>5. /\ DOMAIN q = PlanFields /\ q.activeAlt = a /\ q.alternatives = store.alternatives
      /\ q.byAlt = store.byAlt /\ q.checkpoints = store.checkpoints
      /\ q.goals = Put(store.goals, a, goals)
  BY <1>1 DEF PlanFields
<1> HIDE DEF q, a
<1>6. IsPlan(q)
  BY <1>1, <1>5 DEF Good, IsPlan
<1>7. ASSUME NEW m \in DOMAIN q.alternatives \ F PROVE Owns(q, m) /\ FollowUnder(q, m)
  <2>1. Owns(store, m) /\ FollowUnder(store, m)
    BY <1>5 DEF Good
  <2>2. At(q.goals, m, {}) \subseteq {store.alternatives[m].id}
    <3>1. CASE m = a
      BY <1>1, <1>3, <1>5, <3>1 DEF At, Put
    <3>2. CASE m # a
      <4>1. At(q.goals, m, {}) = At(store.goals, m, {})
        BY <1>5, <3>2 DEF At, Put
      <4> QED BY <2>1, <4>1 DEF Owns
    <3> QED BY <3>1, <3>2
  <2>3. /\ PipelineOf(q, m) = PipelineOf(store, m)
        /\ CheckpointsOf(q, m) = CheckpointsOf(store, m)
    BY <1>5 DEF PipelineOf, CheckpointsOf
  <2>4. Owns(q, m)
    BY <1>5, <2>1, <2>2, <2>3 DEF Owns
  <2> QED BY <1>5, <2>1, <2>4 DEF FollowUnder
<1>8. NamesKept(q) \ F \subseteq DOMAIN q.alternatives
  BY <1>1, <1>5 DEF Good, NamesKept, Put
<1>9. Good(q, F)
  BY <1>6, <1>7, <1>8 DEF Good
<1> QED BY <1>4, <1>9, EditGood

\* A checkpoint on demand.
LEMMA SaveCheckpointGood ==
  ASSUME NEW F, Good(store, F), freed = F, SaveCheckpoint
  PROVE  Good(store, freed)'
<1>1. Good(WithCheckpoint(store, store.activeAlt), F)
  BY ActiveOfPlan, CheckpointTaken
<1> QED BY <1>1, EditGood DEF SaveCheckpoint

\* What was kept under the name of a new alternative is of one that was deleted.
LEMMA AddedGood ==
  ASSUME NEW F, Good(store, F), freed = F, NEW name, NEW alt, IsAlternative(alt),
         Added(name, alt)
  PROVE  Good(store, freed)'
<1> DEFINE q == [store EXCEPT !.alternatives = Put(@, name, alt), !.activeAlt = name,
                              !.altChartEnabled = Put(@, name, TRUE)]
<1>1. name \notin DOMAIN store.alternatives /\ Edit(q) /\ freed' = F
  BY DEF Added
<1>2. /\ DOMAIN q = PlanFields /\ q.activeAlt = name
      /\ q.alternatives = Put(store.alternatives, name, alt)
      /\ q.byAlt = store.byAlt /\ q.goals = store.goals /\ q.checkpoints = store.checkpoints
  BY DEF Good, IsPlan, PlanFields
<1> HIDE DEF q
<1>3. /\ DOMAIN q.alternatives = DOMAIN store.alternatives \union {name}
      /\ q.alternatives[name] = alt
      /\ \A m \in DOMAIN store.alternatives \ {name} :
           q.alternatives[m] = store.alternatives[m]
  BY <1>2 DEF Put
<1>4. name \in DOMAIN q.byAlt =>
        /\ DOMAIN q.byAlt[name] = {"owner", "edges"} /\ IsFlows(q.byAlt[name].edges)
        /\ name \in F
  BY <1>1, <1>2 DEF Good, IsPlan, NamesKept
<1>5. \A m : Alike(store.byAlt, q.byAlt, m)
  BY <1>2 DEF Alike
<1>6. Good(q, F)
  BY <1>1, <1>2, <1>3, <1>4, <1>5, OneSet
<1> QED BY <1>1, <1>6, EditGood

\* An empty one.
LEMMA NewGood ==
  ASSUME NEW F, Good(store, F), freed = F, NewAlternative
  PROVE  Good(store, freed)'
<1> DEFINE alt == [id |-> Fresh, income |-> << >>, expense |-> << >>, asset |-> << >>,
                   debt |-> << >>]
<1>1. PICK name : Added(name, alt)
  BY DEF NewAlternative
<1>2. IsAlternative(alt)
  <2>1. DOMAIN alt = Kinds \union {"id"} /\ \A kind \in Kinds : alt[kind] = << >>
    BY DEF Kinds
  <2>2. IsSequence(<< >>)
    BY DEF IsSequence
  <2> QED BY <2>1, <2>2 DEF IsAlternative
<1> QED BY <1>1, <1>2, AddedGood

\* A clone of the active one.
LEMMA CloneGood ==
  ASSUME NEW F, Good(store, F), freed = F, NEW name, CloneAlternative(name)
  PROVE  Good(store, freed)'
<1> DEFINE alt == [Alt EXCEPT !.id = Fresh]
<1>1. Added(name, alt)
  BY DEF CloneAlternative
<1>2. IsAlternative(Alt)
  BY ActiveOfPlan
<1>3. DOMAIN alt = DOMAIN Alt /\ \A kind \in Kinds : alt[kind] = Alt[kind]
  BY DEF Kinds
<1>4. IsAlternative(alt)
  BY <1>2, <1>3 DEF IsAlternative
<1> QED BY <1>1, <1>4, AddedGood

\* What is kept under a name goes with it, and what was kept under the new name is lost
\* in that.
MovedTo(f, g, old, new) ==
  /\ old \in DOMAIN f =>
       /\ DOMAIN g = (DOMAIN f \ {old}) \union {new}
       /\ g[new] = f[old]
       /\ \A m \in DOMAIN f \ {old, new} : g[m] = f[m]
  /\ old \notin DOMAIN f => g = f

\* Moved does so.
LEMMA MovedName ==
  ASSUME NEW f, NEW old, NEW new, old # new
  PROVE  MovedTo(f, Moved(f, old, new), old, new)
  BY DEF MovedTo, Moved, Put, Without

\* A rename takes along what is kept under the name.
LEMMA RenameGood ==
  ASSUME NEW F, Good(store, F), freed = F, NEW new, RenameAlternative(new)
  PROVE  Good(store, freed)'
<1> DEFINE a == store.activeAlt
           q == Renamed(store, a, new)
           G == IF a \in F THEN F \union {new} ELSE F
<1>1. /\ new \notin DOMAIN store.alternatives /\ Edit(q) /\ freed' = G
      /\ a \in DOMAIN store.alternatives /\ DOMAIN store = PlanFields
  BY DEF RenameAlternative, Good, IsPlan
<1>2. /\ DOMAIN q = PlanFields /\ q.activeAlt = new
      /\ q.alternatives = Moved(store.alternatives, a, new)
      /\ q.byAlt = Moved(store.byAlt, a, new) /\ q.goals = Moved(store.goals, a, new)
      /\ q.checkpoints = Moved(store.checkpoints, a, new)
  BY <1>1 DEF Renamed, PlanFields
<1> HIDE DEF q, a
<1>3. a # new
  BY <1>1
<1>4. /\ DOMAIN q.alternatives = (DOMAIN store.alternatives \ {a}) \union {new}
      /\ q.alternatives[new] = store.alternatives[a]
      /\ \A m \in DOMAIN store.alternatives \ {a, new} :
           q.alternatives[m] = store.alternatives[m]
  <2>1. MovedTo(store.alternatives, q.alternatives, a, new)
    BY <1>2, <1>3, MovedName
  <2> QED BY <1>1, <2>1 DEF MovedTo
<1>5. /\ MovedTo(store.byAlt, q.byAlt, a, new) /\ MovedTo(store.goals, q.goals, a, new)
      /\ MovedTo(store.checkpoints, q.checkpoints, a, new)
  BY <1>2, <1>3, MovedName
<1>6. IsPlan(q)
  <2>1. \A m \in DOMAIN q.alternatives : IsAlternative(q.alternatives[m])
    BY <1>1, <1>4 DEF Good, IsPlan
  <2>2. \A m \in DOMAIN q.byAlt :
          DOMAIN q.byAlt[m] = {"owner", "edges"} /\ IsFlows(q.byAlt[m].edges)
    BY <1>5 DEF Good, IsPlan, MovedTo
  <2>3. \A m \in DOMAIN q.checkpoints : IsSequence(q.checkpoints[m])
    BY <1>5 DEF Good, IsPlan, MovedTo
  <2> QED BY <1>2, <1>4, <2>1, <2>2, <2>3 DEF IsPlan
<1>7. ASSUME NEW m \in DOMAIN q.alternatives \ G PROVE Owns(q, m) /\ FollowUnder(q, m)
  <2>1. CASE m # new
    <3>1. /\ m \in DOMAIN store.alternatives \ F /\ m # a
          /\ q.alternatives[m] = store.alternatives[m]
      BY <1>4, <2>1
    <3>2. AlikeUnder(store, q, m)
      BY <1>5, <2>1, <3>1 DEF AlikeUnder, Alike, MovedTo
    <3>3. Becomes(store.alternatives[m], q.alternatives[m])
      BY <3>1, BecomesItself DEF Good, IsPlan
    <3> QED BY <3>1, <3>2, <3>3, OwnedOn DEF Good
  <2>2. CASE m = new
    <3>1. a \notin F /\ new \notin F
      BY <2>2
    <3>2. Owns(store, a) /\ FollowUnder(store, a)
      BY <1>1, <3>1 DEF Good
    <3>3. new \notin DOMAIN store.byAlt /\ new \notin DOMAIN store.goals
          /\ new \notin DOMAIN store.checkpoints
      BY <1>1, <3>1 DEF Good, NamesKept
    <3>4. /\ new \in DOMAIN q.byAlt <=> a \in DOMAIN store.byAlt
          /\ a \in DOMAIN store.byAlt => q.byAlt[new] = store.byAlt[a]
      BY <1>5, <3>3 DEF MovedTo
    <3>5. /\ new \in DOMAIN q.goals <=> a \in DOMAIN store.goals
          /\ a \in DOMAIN store.goals => q.goals[new] = store.goals[a]
      BY <1>5, <3>3 DEF MovedTo
    <3>6. /\ new \in DOMAIN q.checkpoints <=> a \in DOMAIN store.checkpoints
          /\ a \in DOMAIN store.checkpoints => q.checkpoints[new] = store.checkpoints[a]
      BY <1>5, <3>3 DEF MovedTo
    <3>7. /\ PipelineOf(q, new) = PipelineOf(store, a)
          /\ At(q.goals, new, {}) = At(store.goals, a, {})
          /\ CheckpointsOf(q, new) = CheckpointsOf(store, a)
      BY <1>4, <3>4, <3>5, <3>6 DEF PipelineOf, CheckpointsOf, At
    <3>8. Owns(q, new)
      BY <1>4, <3>2, <3>7 DEF Owns
    <3>9. FollowUnder(q, new)
      BY <1>4, <3>2, <3>4 DEF FollowUnder
    <3> QED BY <2>2, <3>8, <3>9
  <2> QED BY <2>1, <2>2
<1>8. NamesKept(q) \ G \subseteq DOMAIN q.alternatives
  <2>1. /\ DOMAIN q.byAlt \subseteq (DOMAIN store.byAlt \ {a}) \union {new}
        /\ DOMAIN q.goals \subseteq (DOMAIN store.goals \ {a}) \union {new}
        /\ DOMAIN q.checkpoints \subseteq (DOMAIN store.checkpoints \ {a}) \union {new}
    BY <1>5 DEF MovedTo
  <2>2. NamesKept(q) \subseteq (NamesKept(store) \ {a}) \union {new}
    BY <2>1 DEF NamesKept
  <2> QED BY <1>4, <2>2 DEF Good
<1>9. Good(q, G)
  BY <1>6, <1>7, <1>8 DEF Good
<1> QED BY <1>1, <1>9, EditGood

\* The name of one that is deleted is given up.
LEMMA DeleteGood ==
  ASSUME NEW F, Good(store, F), freed = F, NEW next, DeleteAlternative(next)
  PROVE  Good(store, freed)'
<1> DEFINE a == store.activeAlt
           q == [store EXCEPT !.alternatives = Without(@, a),
                              !.altChartEnabled = Without(@, a), !.activeAlt = next]
           G == F \union {a}
<1>1. /\ next \in DOMAIN store.alternatives \ {a} /\ Edit(q) /\ freed' = G
      /\ DOMAIN store = PlanFields
  BY DEF DeleteAlternative, Good, IsPlan
<1>2. /\ DOMAIN q = PlanFields /\ q.activeAlt = next
      /\ q.alternatives = Without(store.alternatives, a)
      /\ q.byAlt = store.byAlt /\ q.goals = store.goals /\ q.checkpoints = store.checkpoints
  BY <1>1 DEF PlanFields
<1> HIDE DEF q, a
<1>3. /\ DOMAIN q.alternatives = DOMAIN store.alternatives \ {a}
      /\ \A m \in DOMAIN store.alternatives \ {a} : q.alternatives[m] = store.alternatives[m]
  BY <1>2 DEF Without
<1>4. IsPlan(q)
  BY <1>1, <1>2, <1>3 DEF Good, IsPlan
<1>5. ASSUME NEW m \in DOMAIN q.alternatives \ G PROVE Owns(q, m) /\ FollowUnder(q, m)
  <2>1. AlikeUnder(store, q, m)
    BY <1>2 DEF AlikeUnder, Alike
  <2>2. Becomes(store.alternatives[m], q.alternatives[m])
    BY <1>3, BecomesItself DEF Good, IsPlan
  <2> QED BY <1>3, <2>1, <2>2, OwnedOn DEF Good
<1>6. NamesKept(q) \ G \subseteq DOMAIN q.alternatives
  BY <1>2, <1>3 DEF Good, NamesKept
<1>7. Good(q, G)
  BY <1>4, <1>5, <1>6 DEF Good
<1> QED BY <1>1, <1>7, EditGood

-----------------------------------------------------------------------------
(***************************************************************************)
(* A quote that comes late.                                                *)
(***************************************************************************)

\* Rows with the same uuids in the same places.
LEMMA SameIds ==
  ASSUME NEW a, NEW b, Ids(a) = Ids(b)
  PROVE  Keeps(a, b)
<1> SUFFICES ASSUME NEW kind \in Kinds
             PROVE  /\ DOMAIN a[kind] = DOMAIN b[kind]
                    /\ \A n \in DOMAIN a[kind] : b[kind][n].id = a[kind][n].id
  BY DEF Keeps
<1>1. Ids(a)[kind] = Ids(b)[kind]
  OBVIOUS
<1>2. [n \in DOMAIN a[kind] |-> a[kind][n].id] = [n \in DOMAIN b[kind] |-> b[kind][n].id]
  BY <1>1 DEF Ids
<1>3. DOMAIN a[kind] = DOMAIN b[kind]
  BY <1>2
<1>4. ASSUME NEW n \in DOMAIN a[kind] PROVE b[kind][n].id = a[kind][n].id
  <2>1. [m \in DOMAIN a[kind] |-> a[kind][m].id][n]
          = [m \in DOMAIN b[kind] |-> b[kind][m].id][n]
    BY <1>2
  <2> QED BY <1>3, <2>1
<1> QED BY <1>3, <1>4

\* One change after another.
LEMMA KeepsOn ==
  ASSUME NEW a, NEW b, NEW c, Keeps(a, b), Keeps(b, c)
  PROVE  Keeps(a, c)
<1> SUFFICES ASSUME NEW kind \in Kinds
             PROVE  /\ DOMAIN a[kind] \subseteq DOMAIN c[kind]
                    /\ \A n \in DOMAIN a[kind] : c[kind][n].id = a[kind][n].id
  BY DEF Keeps
<1> QED BY DEF Keeps

\* Flows that all slipped lead anywhere.
LEMMA AllSlipped ==
  ASSUME NEW edges, IsFlows(edges)
  PROVE  LET new == [i \in DOMAIN edges |-> [edges[i] EXCEPT !.slipped = TRUE]] IN
         IsFlows(new) /\ \A alt : \A i \in DOMAIN new : Follows(new[i], alt)
<1> DEFINE new == [i \in DOMAIN edges |-> [edges[i] EXCEPT !.slipped = TRUE]]
<1>1. /\ DOMAIN new = DOMAIN edges /\ new = [i \in DOMAIN new |-> new[i]]
      /\ \A i \in DOMAIN edges : new[i] = [edges[i] EXCEPT !.slipped = TRUE]
  OBVIOUS
<1>2. \A i \in DOMAIN edges : DOMAIN new[i] = EdgeFields /\ new[i].slipped = TRUE
  BY <1>1 DEF IsFlows, EdgeFields
<1> HIDE DEF new
<1>3. IsSequence(new)
  BY <1>1, Sequence, Listed DEF IsFlows
<1>4. IsFlows(new)
  BY <1>1, <1>2, <1>3 DEF IsFlows
<1>5. \A alt : \A i \in DOMAIN new : Follows(new[i], alt)
  BY <1>1, <1>2 DEF Follows
<1> QED BY <1>4, <1>5 DEF new

\* The quote is written into the rows of then, under the name of then.
LEMMA QuoteGood ==
  ASSUME NEW F, Good(store, F), freed = F, QuoteTrue, NEW price, QuoteArrives(price)
  PROVE  Good(store, freed)'
<1> DEFINE name == quote.name
           there == name \in DOMAIN store.alternatives
           same == there /\ Ids(store.alternatives[name]) = Ids(quote.alt)
           row == Quoted(quote.alt.asset[quote.n], price)
           alt == [quote.alt EXCEPT !["asset"][quote.n] = row]
           put == SetAlternative(store, name, alt)
           flows == store.byAlt[name]
           new == [flows EXCEPT !.edges = [i \in DOMAIN flows.edges |->
                                             [flows.edges[i] EXCEPT !.slipped = TRUE]]]
           slipped == [put EXCEPT !.byAlt = [put.byAlt EXCEPT ![name] = new]]
           q == IF same \/ name \notin DOMAIN put.byAlt THEN put ELSE slipped
           G == IF there /\ store.alternatives[name].id # quote.alt.id
                THEN F \union {name} ELSE F
<1>1. IsAlternative(quote.alt) /\ quote.n \in DOMAIN quote.alt.asset
  BY DEF QuoteTrue, QuoteArrives
<1>2. put.byAlt = store.byAlt
  BY DEF SetAlternative, Good, IsPlan, PlanFields
<1>3. store' = Settled(q)
  <2> DEFINE q0 == IF same \/ name \notin DOMAIN put.byAlt THEN put
                   ELSE [put EXCEPT !.byAlt[name].edges =
                           [i \in DOMAIN @ |-> [@[i] EXCEPT !.slipped = TRUE]]]
  <2>1. store' = Settled(q0)
    BY Zenon DEF QuoteArrives
  <2>2. q0 = q
    BY <1>2, Zenon
  <2> QED BY <2>1, <2>2
<1>4. freed' = G
  BY Zenon DEF QuoteArrives
<1>5. Becomes(quote.alt, alt)
  <2>1. "id" \in DOMAIN quote.alt.asset[quote.n] /\ "asset" \in Kinds
    BY <1>1 DEF IsAlternative, Kinds
  <2>2. "id" \in DOMAIN row /\ row.id = quote.alt.asset[quote.n].id
    BY <2>1 DEF Quoted
  <2> HIDE DEF row
  <2> QED BY <1>1, <2>1, <2>2, RowChanged
<1> HIDE DEF alt
<1>6. /\ DOMAIN put = PlanFields /\ put.activeAlt = store.activeAlt
      /\ put.alternatives = Put(store.alternatives, name, alt)
      /\ put.goals = store.goals /\ put.checkpoints = store.checkpoints
      /\ put.byAlt = store.byAlt
  BY DEF SetAlternative, Good, IsPlan, PlanFields
<1> HIDE DEF put
<1>7. /\ DOMAIN q = PlanFields /\ q.activeAlt = store.activeAlt
      /\ q.alternatives = Put(store.alternatives, name, alt)
      /\ q.goals = store.goals /\ q.checkpoints = store.checkpoints
      /\ q.byAlt = IF same \/ name \notin DOMAIN store.byAlt THEN store.byAlt
                   ELSE [store.byAlt EXCEPT ![name] = new]
  <2> HIDE DEF new, same
  <2> QED BY <1>6 DEF PlanFields
<1> HIDE DEF q
<1>8. /\ DOMAIN q.alternatives = DOMAIN store.alternatives \union {name}
      /\ q.alternatives[name] = alt
      /\ \A m \in DOMAIN store.alternatives \ {name} :
           q.alternatives[m] = store.alternatives[m]
      /\ q.activeAlt \in DOMAIN q.alternatives
  BY <1>7 DEF Put, Good, IsPlan
<1>9. \A m : m # name => Alike(store.byAlt, q.byAlt, m)
  <2> HIDE DEF new, same
  <2> QED BY <1>7 DEF Alike
<1>10. name \in DOMAIN store.alternatives \ G => alt.id = store.alternatives[name].id
  BY <1>5 DEF Becomes
<1>11. ASSUME name \in DOMAIN q.byAlt, name \notin G
       PROVE  there /\ alt.id = store.alternatives[name].id
              /\ FlowsOf(store.byAlt[name], store.alternatives[name])
  <2>1. name \in DOMAIN store.byAlt /\ name \notin F
    <3> HIDE DEF new, same
    <3> QED BY <1>7, <1>11
  <2>2. there
    BY <2>1 DEF Good, NamesKept
  <2>3. Owns(store, name) /\ FollowUnder(store, name)
    BY <2>1, <2>2 DEF Good
  <2>4. FlowsOf(store.byAlt[name], store.alternatives[name])
    BY <2>1, <2>3 DEF FlowsOf, Owns, FollowUnder, PipelineOf, At
  <2> QED BY <1>10, <1>11, <2>2, <2>4
<1>12. ASSUME name \in DOMAIN q.byAlt
       PROVE  /\ DOMAIN q.byAlt[name] = {"owner", "edges"} /\ IsFlows(q.byAlt[name].edges)
              /\ name \in G \/ FlowsOf(q.byAlt[name], alt)
  <2>1. name \in DOMAIN store.byAlt
    <3> HIDE DEF new, same
    <3> QED BY <1>7, <1>12
  <2>2. DOMAIN flows = {"owner", "edges"} /\ IsFlows(flows.edges)
    BY <2>1 DEF Good, IsPlan
  <2>3. CASE same
    <3>1. q.byAlt[name] = flows
      BY <1>7, <2>3
    <3>2. name \in G \/ FlowsOf(flows, alt)
      <4>1. Keeps(store.alternatives[name], alt)
        BY <1>5, <2>3, SameIds, KeepsOn DEF Becomes
      <4> QED BY <1>11, <1>12, <4>1, FollowsOn DEF FlowsOf
    <3> QED BY <2>2, <3>1, <3>2
  <2>4. CASE ~same
    <3>1. /\ DOMAIN new = {"owner", "edges"} /\ new.owner = flows.owner
          /\ new.edges =
               [i \in DOMAIN flows.edges |-> [flows.edges[i] EXCEPT !.slipped = TRUE]]
      BY <2>2
    <3>2. IsFlows(new.edges) /\ \A i \in DOMAIN new.edges : Follows(new.edges[i], alt)
      BY <2>2, <3>1, AllSlipped
    <3> HIDE DEF new, same
    <3>3. q.byAlt[name] = new
      BY <1>7, <2>1, <2>4
    <3>4. name \in G \/ FlowsOf(new, alt)
      BY <1>11, <1>12, <3>1, <3>2 DEF FlowsOf
    <3> QED BY <3>1, <3>2, <3>3, <3>4
  <2> QED BY <2>3, <2>4
<1>13. F \subseteq G /\ IsAlternative(alt)
  BY <1>5 DEF Becomes
<1>14. Good(q, G)
  <2> HIDE DEF G, name
  <2> QED BY <1>7, <1>8, <1>9, <1>10, <1>12, <1>13, OneSet
<1>15. Good(store', freed')
  BY <1>3, <1>4, <1>14, SettledGood
<1> QED BY <1>15 DEF Good, NamesKept, Owns, FollowUnder, CheckpointsOf, PipelineOf, At, NoFlows

-----------------------------------------------------------------------------
(***************************************************************************)
(* The steps, and what holds of them all.                                  *)
(***************************************************************************)

\* A step that leaves the quote, where what belongs to whom stays good.
LEMMA QuoteStays ==
  ASSUME KeptInv, Good(store, freed)', quote' = quote
  PROVE  KeptInv'
  BY DEF KeptInv, QuoteTrue

\* A click on a ticker cell remembers the alternative and a row it has.
LEMMA AskQuoteStep ==
  ASSUME KeptInv, NEW n, AskQuote(n)
  PROVE  KeptInv'
<1> PICK F : F = freed
  OBVIOUS
<1>1. Good(store, F)
  BY DEF KeptInv
<1>2. Good(store, freed)'
  BY <1>1, OtherGood
<1>3. IsAlternative(Alt) /\ n \in DOMAIN Alt.asset
      /\ quote' = [name |-> store.activeAlt, alt |-> Alt, n |-> n]
  BY <1>1, ActiveOfPlan DEF AskQuote
<1>4. quote'.alt = Alt /\ quote'.n = n
  BY <1>3
<1>5. QuoteTrue'
  BY <1>3, <1>4 DEF QuoteTrue
<1> QED BY <1>2, <1>5 DEF KeptInv

\* The Accounts screen.
LEMMA AccountsStep == KeptInv /\ EditAccounts => KeptInv'
<1> SUFFICES ASSUME KeptInv, EditAccounts PROVE KeptInv'
  OBVIOUS
<1> PICK F : F = freed
  OBVIOUS
<1>1. Good(store, F)
  BY DEF KeptInv
<1>2. ASSUME NEW name,
             \/ SelectAlternative(name) \/ DeleteAlternative(name) \/ NewAlternative
             \/ CloneAlternative(name) \/ RenameAlternative(name)
      PROVE  KeptInv'
  <2>1. Good(store, freed)'
    BY <1>1, <1>2, OtherGood, DeleteGood, NewGood, CloneGood, RenameGood
  <2>2. quote' = quote
    BY <1>2
    DEF SelectAlternative, DeleteAlternative, NewAlternative, CloneAlternative,
        RenameAlternative, Added
  <2> QED BY <2>1, <2>2, QuoteStays
<1>3. ASSUME NEW kind \in Kinds, NEW n, AddRow(kind) \/ DeleteRow(kind, n)
      PROVE  KeptInv'
  <2>1. Good(store, freed)'
    BY <1>1, <1>3, AddedRowGood, DeleteRowGood
  <2>2. quote' = quote
    BY <1>3 DEF AddRow, DeleteRow
  <2> QED BY <2>1, <2>2, QuoteStays
<1>4. ASSUME NEW c \in DOMAIN Changes, NEW to, NEW n, EditCell(n, c[1], c[2], to)
      PROVE  KeptInv'
  <2>1. Good(store, freed)'
    BY <1>1, <1>4, PlanningAssumption, EditCellGood
  <2>2. quote' = quote
    BY <1>4 DEF EditCell
  <2> QED BY <2>1, <2>2, QuoteStays
<1> QED BY <1>2, <1>3, <1>4, AskQuoteStep, Zenon DEF EditAccounts, EditRow

\* The Pipeline Builder.
LEMMA PipelineStep == KeptInv /\ EditPipeline => KeptInv'
<1> SUFFICES ASSUME KeptInv, EditPipeline PROVE KeptInv'
  OBVIOUS
<1> PICK F : F = freed
  OBVIOUS
<1>1. Good(store, F)
  BY DEF KeptInv
<1>2. ASSUME NEW kind \in Kinds, NEW n, AddNode(kind) \/ DeleteNode(kind, n)
      PROVE  KeptInv'
  <2>1. Good(store, freed)'
    BY <1>1, <1>2, AddedRowGood, DeleteNodeGood
  <2>2. quote' = quote
    BY <1>2 DEF AddNode, DeleteNode
  <2> QED BY <2>1, <2>2, QuoteStays
<1>3. ASSUME NEW from, NEW to, NEW form, CreateFlow(from, to, form)
      PROVE  KeptInv'
  BY <1>1, <1>3, CreateFlowGood, QuoteStays DEF CreateFlow
<1>4. ASSUME NEW i, NEW form, DeleteFlow(i) \/ EditFlow(i, form)
      PROVE  KeptInv'
  <2>1. Good(store, freed)'
    BY <1>1, <1>4, DeleteFlowGood, EditFlowGood
  <2>2. quote' = quote
    BY <1>4 DEF DeleteFlow, EditFlow
  <2> QED BY <2>1, <2>2, QuoteStays
<1>5. ASSUME NEW c \in DOMAIN Changes, NEW to, NEW n, SaveNode(n, c[1], c[2], to)
      PROVE  KeptInv'
  <2>1. Good(store, freed)'
    BY <1>1, <1>5, PlanningAssumption, SaveNodeGood
  <2>2. quote' = quote
    BY <1>5 DEF SaveNode
  <2> QED BY <2>1, <2>2, QuoteStays
<1>6. CASE ArrangeNodes
  BY <1>1, <1>6, ArrangeGood, QuoteStays DEF ArrangeNodes
<1> QED BY <1>2, <1>3, <1>4, <1>5, <1>6, Zenon DEF EditPipeline, EditRow

\* Goals, augments, checkpoints and the days.
LEMMA OtherStep == KeptInv /\ EditOther => KeptInv'
<1> SUFFICES ASSUME KeptInv, EditOther PROVE KeptInv'
  OBVIOUS
<1> PICK F : F = freed
  OBVIOUS
<1>1. Good(store, F)
  BY DEF KeptInv
<1>2. CASE AddGoal \/ RemoveGoal
  BY <1>1, <1>2, GoalsGood, QuoteStays DEF AddGoal, RemoveGoal, SetGoals
<1>3. ASSUME NEW augments, SetAugments(augments) PROVE KeptInv'
  BY <1>1, <1>3, OtherGood, QuoteStays DEF SetAugments
<1>4. CASE SaveCheckpoint
  BY <1>1, <1>4, SaveCheckpointGood, QuoteStays DEF SaveCheckpoint
<1>5. CASE SwitchMonthly
  BY <1>1, <1>5, OtherGood, QuoteStays DEF SwitchMonthly
<1>6. CASE MonthPasses
  BY <1>6, QuoteStays
  DEF MonthPasses, KeptInv, Good, NamesKept, Owns, FollowUnder, CheckpointsOf, PipelineOf, At,
      NoFlows
<1> QED
  BY <1>2, <1>3, <1>4, <1>5, <1>6, Zenon
  DEF EditOther, AddAugment, RemoveAugment, ToggleAugment

\* The edits on the dashboard.
LEMMA OnDashboardStep == KeptInv /\ EditOnDashboard => KeptInv'
<1> SUFFICES ASSUME KeptInv, EditOnDashboard PROVE KeptInv'
  OBVIOUS
<1> PICK F : F = freed
  OBVIOUS
<1>1. Good(store, F)
  BY DEF KeptInv
<1>2. ASSUME NEW name, ToggleChart(name) PROVE KeptInv'
  BY <1>1, <1>2, OtherGood, QuoteStays DEF ToggleChart
<1>3. ASSUME NEW augments, SetAugments(augments) PROVE KeptInv'
  BY <1>1, <1>3, OtherGood, QuoteStays DEF SetAugments
<1>4. CASE Resample
  BY <1>1, <1>4, OtherGood, QuoteStays DEF Resample
<1>5. ASSUME NEW c \in DOMAIN Changes, NEW to, NEW n, CheckIn(n, c[1], c[2], to)
      PROVE  KeptInv'
  <2>1. Good(store, freed)'
    BY <1>1, <1>5, PlanningAssumption, CheckInGood
  <2>2. quote' = quote
    BY <1>5 DEF CheckIn
  <2> QED BY <2>1, <2>2, QuoteStays
<1> QED BY <1>2, <1>3, <1>4, <1>5, Zenon DEF EditOnDashboard, EditRow, ToggleAugment

\* A late quote.
LEMMA QuoteStep ==
  ASSUME KeptInv, NEW price, QuoteArrives(price)
  PROVE  KeptInv'
<1> PICK F : F = freed
  OBVIOUS
<1>1. Good(store, freed)'
  BY QuoteGood DEF KeptInv
<1>2. quote' = NoQuote
  BY DEF QuoteArrives
<1>3. QuoteTrue'
  BY <1>2 DEF QuoteTrue, NoQuote
<1> QED BY <1>1, <1>3 DEF KeptInv

\* The other steps leave the plan.
LEMMA PlanStays ==
  ASSUME KeptInv, UNCHANGED <<store, freed, quote>>
  PROVE  KeptInv'
  BY DEF KeptInv, QuoteTrue, Good, NamesKept, Owns, FollowUnder, CheckpointsOf, PipelineOf, At,
         NoFlows, NoQuote

\* Every step.
LEMMA KeptStep ==
  KeptInv /\ [DashboardNext]_<<ledgerVars, allPlanVars, dashboardVars>> => KeptInv'
<1> SUFFICES ASSUME KeptInv, [DashboardNext]_<<ledgerVars, allPlanVars, dashboardVars>>
             PROVE  KeptInv'
  OBVIOUS
<1>1. CASE EditElsewhere
  BY <1>1, AccountsStep, PipelineStep, OtherStep, QuoteStep DEF EditElsewhere, EditPlan
<1>2. CASE EditHere
  BY <1>2, OnDashboardStep, QuoteStep DEF EditHere
<1>3. CASE Open \/ Leave \/ Refine \/ Retry \/ \E chosen \in Settings : Choose(chosen)
  BY <1>3, PlanStays DEF Open, Leave, Refine, Retry, Choose, planVars, allPlanVars
<1>4. CASE Work
  BY <1>4, PlanStays DEF Work, planVars
<1>5. CASE ProjectOnly
  BY <1>5, PlanStays DEF ProjectOnly, Projection, Project, ProjectPlan, planVars, allPlanVars
<1>6. CASE UNCHANGED <<ledgerVars, allPlanVars, dashboardVars>>
  BY <1>6, PlanStays DEF planVars, allPlanVars
<1>7. CASE Wait
  BY <1>7, PlanStays DEF Wait, MonthPasses
<1> QED BY <1>1, <1>2, <1>3, <1>4, <1>5, <1>6, <1>7 DEF DashboardNext

\* A session starts with a plan in which each alternative owns what is kept under its
\* name.
LEMMA InitKept == DashboardInit => KeptInv
<1> SUFFICES ASSUME DashboardInit PROVE KeptInv
  OBVIOUS
<1>1. PICK s \in Sessions : PlanInit(s)
  BY DEF DashboardInit
<1> DEFINE F == NamesKept(s.plan) \ DOMAIN s.plan.alternatives
<1>2. Good(s.plan, F)
  BY PlanningAssumption DEF Good, NamesKept
<1>3. Good(Settled(s.plan), F)
  BY <1>2, SettledGood
<1>4. Settled(s.plan).alternatives = s.plan.alternatives
  <2> DEFINE q == WithMonthly(s.plan)
  <2>1. DOMAIN q = PlanFields /\ q.alternatives = s.plan.alternatives
    BY <1>2 DEF WithMonthly, Good, IsPlan, PlanFields
  <2> HIDE DEF q
  <2>2. Resampled(q).alternatives = q.alternatives
    BY <2>1 DEF Resampled, PlanFields
  <2> QED BY <2>1, <2>2 DEF Settled, EnsureForecastSeed, q
<1>5. Good(store, F) /\ DOMAIN store.alternatives = DOMAIN s.plan.alternatives
  BY <1>1, <1>2, <1>3, <1>4 DEF PlanInit
<1>6. freed = NamesKept(store) \ DOMAIN store.alternatives
  BY <1>1 DEF PlanInit, NamesKept
<1>7. Good(store, freed)
  BY <1>5, <1>6 DEF Good
<1>8. QuoteTrue
  BY <1>1 DEF PlanInit, QuoteTrue
<1> QED BY <1>7, <1>8 DEF KeptInv

\* Goals, flows and checkpoints stay with the alternative they were made for, through
\* every edit, rename and late quote.
THEOREM AlternativesKeepTheirData == DashboardSpec => []AlternativesOwnTheirData
<1>1. KeptInv => AlternativesOwnTheirData
  BY DEF KeptInv, Good, AlternativesOwnTheirData
<1> QED BY <1>1, InitKept, KeptStep, PTL DEF DashboardSpec

\* A flow leads between the rows it was drawn between, but where it slipped.
THEOREM FlowsStayWithRows == DashboardSpec => []FlowsFollowRows
<1>1. KeptInv => FlowsFollowRows
  BY DEF KeptInv, Good, FlowsFollowRows
<1> QED BY <1>1, InitKept, KeptStep, PTL DEF DashboardSpec

-----------------------------------------------------------------------------
(***************************************************************************)
(* What the rows, the flows and the checkpoints of the document hold.      *)
(***************************************************************************)

\* What was typed for a position in cents comes back from its quantity, which is precise
\* to a millionth of a share, where a share costs less than a cent in millionths.
LEMMA QuantityIsPrecise ==
  ASSUME NEW v \in Int, NEW price \in Int, 0 < price, price < Micro
  PROVE  BankersRound(BankersRound(v * Micro, price) * price, Micro) = v
<1>1. Micro \in Nat \ {0} /\ price \in Nat \ {0}
  BY LedgerAssumption
<1>2. PICK M \in Nat \ {0} : M = Micro
  BY <1>1
<1>3. v * M \in Int
  BY <1>2
<1> DEFINE u == BankersRound(v * M, price)
<1>4. u \in Int /\ 2 * Magnitude(v * M - u * price) <= price
  BY <1>1, <1>3, HalfToEven
<1> HIDE DEF u
<1>5. PICK x \in Int : x = u * price
  BY <1>4
<1> DEFINE w == BankersRound(x, M)
<1>6. w \in Int /\ 2 * Magnitude(x - w * M) <= M
  BY <1>2, <1>5, HalfToEven
<1> HIDE DEF w
<1>7. PICK a \in Int : a = v * M
  BY <1>3
<1>8. PICK b \in Int : b = w * M
  BY <1>2, <1>6
<1>9. 2 * (a - x) < M /\ 2 * (x - a) < M
  BY <1>1, <1>2, <1>4, <1>5, <1>7 DEF Magnitude
<1>10. 2 * (x - b) <= M /\ 2 * (b - x) <= M
  BY <1>2, <1>5, <1>6, <1>8 DEF Magnitude
<1>11. a - b < M /\ b - a < M
  BY <1>2, <1>5, <1>7, <1>8, <1>9, <1>10
<1>12. ASSUME v > w PROVE FALSE
  <2>1. PICK c \in Nat : v = w + 1 + c
    <3>1. v - w - 1 \in Nat /\ v = w + 1 + (v - w - 1)
      BY <1>6, <1>12
    <3> QED BY <3>1
  <2>2. a = b + M + c * M /\ c * M \in Nat
    BY <1>2, <1>6, <1>7, <1>8, <2>1
  <2> QED BY <1>2, <1>8, <1>11, <2>2
<1>13. ASSUME v < w PROVE FALSE
  <2>1. PICK c \in Nat : w = v + 1 + c
    <3>1. w - v - 1 \in Nat /\ w = v + 1 + (w - v - 1)
      BY <1>6, <1>13
    <3> QED BY <3>1
  <2>2. b = a + M + c * M /\ c * M \in Nat
    BY <1>2, <1>6, <1>7, <1>8, <2>1
  <2> QED BY <1>2, <1>7, <1>11, <2>2
<1>14. w = v
  BY <1>6, <1>12, <1>13
<1> QED BY <1>2, <1>5, <1>14 DEF u, w

\* Other rows of a kind.
LEMMA RowsSet ==
  ASSUME NEW a, Filled(a), NEW kind \in Kinds, NEW rows, IsRows(kind, rows),
         kind = "asset" => \A n \in DOMAIN rows : IsSynced(rows[n])
  PROVE  Filled([a EXCEPT ![kind] = rows])
<1> DEFINE b == [a EXCEPT ![kind] = rows]
<1>1. /\ DOMAIN b = DOMAIN a /\ b[kind] = rows
      /\ \A x \in DOMAIN a \ {kind} : b[x] = a[x]
  BY DEF Filled
<1> HIDE DEF b
<1>2. "asset" \in Kinds
  BY DEF Kinds
<1>3. ASSUME NEW k1 \in Kinds PROVE IsRows(k1, b[k1])
  <2>1. CASE k1 = kind
    BY <1>1, <2>1
  <2>2. CASE k1 # kind
    BY <1>1, <2>2 DEF Filled, HasRows
  <2> QED BY <2>1, <2>2
<1>4. ASSUME NEW n \in DOMAIN b.asset PROVE IsSynced(b.asset[n])
  <2>1. CASE kind = "asset"
    BY <1>1, <1>4, <2>1
  <2>2. CASE kind # "asset"
    BY <1>1, <1>2, <1>4, <2>2 DEF Filled, HasRows
  <2> QED BY <2>1, <2>2
<1>5. Filled(b)
  BY <1>1, <1>3, <1>4 DEF Filled, HasRows
<1> QED BY <1>5 DEF b

\* One row is written anew.
LEMMA RowSet ==
  ASSUME NEW a, Filled(a), NEW kind \in Kinds, NEW n \in DOMAIN a[kind], NEW row,
         HasFields(row, FieldsOf(kind)), kind = "asset" => IsSynced(row)
  PROVE  Filled([a EXCEPT ![kind][n] = row])
<1> DEFINE rows == [a[kind] EXCEPT ![n] = row]
<1>1. /\ IsRows(kind, a[kind])
      /\ kind = "asset" => \A m \in DOMAIN a[kind] : IsSynced(a[kind][m])
  BY DEF Filled, HasRows
<1>2. /\ DOMAIN rows = DOMAIN a[kind] /\ rows[n] = row
      /\ \A m \in DOMAIN a[kind] \ {n} : rows[m] = a[kind][m]
      /\ rows = [m \in DOMAIN rows |-> rows[m]]
  OBVIOUS
<1>3. [a EXCEPT ![kind][n] = row] = [a EXCEPT ![kind] = rows]
  OBVIOUS
<1> HIDE DEF rows
<1>4. IsSequence(rows)
  BY <1>1, <1>2, Sequence, Listed DEF IsRows
<1>5. IsRows(kind, rows)
  BY <1>1, <1>2, <1>4 DEF IsRows
<1>6. kind = "asset" => \A m \in DOMAIN rows : IsSynced(rows[m])
  BY <1>1, <1>2
<1>7. Filled([a EXCEPT ![kind] = rows])
  BY <1>5, <1>6, RowsSet
<1> QED BY <1>3, <1>7

\* A new row has all fields of its kind.
LEMMA NewRowFilled ==
  ASSUME NEW kind \in Kinds, today \in Nat, left.edits \in Nat
  PROVE  HasFields(NewRow(kind), FieldsOf(kind)) /\ (kind = "asset" => IsSynced(NewRow(kind)))
<1>1. /\ ValuesOf("id") = Int /\ ValuesOf("amount") = Int /\ ValuesOf("start") = Int
      /\ ValuesOf("growth") = Int /\ ValuesOf("value") = Int /\ ValuesOf("rate") = Int
      /\ ValuesOf("units") = Int /\ ValuesOf("price") = Int /\ ValuesOf("recur") = Int
      /\ ValuesOf("pmt") = Int /\ ValuesOf("extra") = Int
  BY DEF ValuesOf
<1>2. /\ ValuesOf("every") = Frequencies /\ ValuesOf("extraEvery") = Frequencies
      /\ "monthly" \in Frequencies
  BY DEF ValuesOf, Frequencies
<1>3. ValuesOf("connected") = BOOLEAN /\ "Manual" \in ValuesOf("mode")
  BY DEF ValuesOf
<1>4. Fresh \in Int /\ today \in Int
  BY DEF Fresh
<1>5. HasFields(NewFlowRow, FlowFields)
  BY <1>1, <1>2, <1>4 DEF HasFields, FlowFields, NewFlowRow
<1>6. HasFields(NewAsset, AssetFields)
  <2>1. AssetFields \subseteq DOMAIN NewAsset
    BY DEF AssetFields, NewAsset
  <2>2. /\ NewAsset.id = Fresh /\ NewAsset.mode = "Manual" /\ NewAsset.value = 0
        /\ NewAsset.connected = FALSE /\ NewAsset.rate = 0 /\ NewAsset.units = 0
        /\ NewAsset.price = 0 /\ NewAsset.recur = 0 /\ NewAsset.every = "monthly"
    BY DEF NewAsset
  <2>3. \A x \in AssetFields : NewAsset[x] \in ValuesOf(x)
    <3>1. /\ NewAsset.id \in ValuesOf("id") /\ NewAsset.value \in ValuesOf("value")
          /\ NewAsset.rate \in ValuesOf("rate") /\ NewAsset.units \in ValuesOf("units")
          /\ NewAsset.price \in ValuesOf("price") /\ NewAsset.recur \in ValuesOf("recur")
      BY <1>1, <1>4, <2>2
    <3>2. /\ NewAsset.mode \in ValuesOf("mode") /\ NewAsset.connected \in ValuesOf("connected")
          /\ NewAsset.every \in ValuesOf("every")
      BY <1>2, <1>3, <2>2
    <3> QED BY <3>1, <3>2, Zenon DEF AssetFields
  <2> QED BY <2>1, <2>3 DEF HasFields
<1>7. HasFields(NewDebt, DebtFields)
  <2>1. DebtFields \subseteq DOMAIN NewDebt
    BY DEF DebtFields, NewDebt
  <2>2. /\ NewDebt.id = Fresh /\ NewDebt.value = 0 /\ NewDebt.connected = FALSE
        /\ NewDebt.rate = 0 /\ NewDebt.pmt = 0 /\ NewDebt.extra = 0
        /\ NewDebt.every = "monthly" /\ NewDebt.extraEvery = "monthly"
        /\ NewDebt.start = today
    BY DEF NewDebt
  <2>3. \A x \in DebtFields : NewDebt[x] \in ValuesOf(x)
    <3>1. /\ NewDebt.id \in ValuesOf("id") /\ NewDebt.value \in ValuesOf("value")
          /\ NewDebt.rate \in ValuesOf("rate") /\ NewDebt.pmt \in ValuesOf("pmt")
          /\ NewDebt.extra \in ValuesOf("extra") /\ NewDebt.start \in ValuesOf("start")
      BY <1>1, <1>4, <2>2
    <3>2. /\ NewDebt.connected \in ValuesOf("connected") /\ NewDebt.every \in ValuesOf("every")
          /\ NewDebt.extraEvery \in ValuesOf("extraEvery")
      BY <1>2, <1>3, <2>2
    <3> QED BY <3>1, <3>2, Zenon DEF DebtFields
  <2> QED BY <2>1, <2>3 DEF HasFields
<1>8. IsSynced(NewAsset)
  BY DEF NewAsset, IsSynced
<1>9. CASE kind = "asset"
  BY <1>6, <1>8, <1>9 DEF NewRow, FieldsOf
<1>10. CASE kind = "debt"
  BY <1>7, <1>10 DEF NewRow, FieldsOf
<1>11. CASE kind # "asset" /\ kind # "debt"
  BY <1>5, <1>11 DEF NewRow, FieldsOf
<1> QED BY <1>9, <1>10, <1>11

\* With a row more.
LEMMA RowAddedFilled ==
  ASSUME NEW a, Filled(a), NEW kind \in Kinds, today \in Nat, left.edits \in Nat
  PROVE  Filled(WithRow(a, kind))
<1> DEFINE rows == Append(a[kind], NewRow(kind))
<1>1. /\ IsRows(kind, a[kind])
      /\ kind = "asset" => \A m \in DOMAIN a[kind] : IsSynced(a[kind][m])
  BY DEF Filled, HasRows
<1>2. IsSequence(a[kind]) /\ DOMAIN a[kind] = 1 .. Len(a[kind]) /\ Len(a[kind]) \in Nat
  BY <1>1, Sequence DEF IsRows
<1>3. /\ IsSequence(rows) /\ DOMAIN rows = 1 .. Len(a[kind]) + 1
      /\ \A m \in DOMAIN a[kind] : rows[m] = a[kind][m]
      /\ rows[Len(a[kind]) + 1] = NewRow(kind)
  BY <1>2, Appended
<1> HIDE DEF rows
<1>4. \A m \in DOMAIN rows : \/ m \in DOMAIN a[kind] /\ rows[m] = a[kind][m]
                             \/ rows[m] = NewRow(kind)
  <2>1. \A m \in 1 .. Len(a[kind]) + 1 : m \in 1 .. Len(a[kind]) \/ m = Len(a[kind]) + 1
    BY <1>2
  <2> QED BY <1>2, <1>3, <2>1
<1>5. IsRows(kind, rows) /\ (kind = "asset" => \A m \in DOMAIN rows : IsSynced(rows[m]))
  BY <1>1, <1>3, <1>4, NewRowFilled DEF IsRows
<1>6. Filled([a EXCEPT ![kind] = rows])
  BY <1>5, RowsSet
<1> QED BY <1>6 DEF WithRow, rows

\* With a row less.
LEMMA RowRemovedFilled ==
  ASSUME NEW a, Filled(a), NEW kind \in Kinds, NEW n \in DOMAIN a[kind]
  PROVE  Filled([a EXCEPT ![kind] = Removed(@, n)])
<1> DEFINE rows == Removed(a[kind], n)
<1>1. /\ IsRows(kind, a[kind])
      /\ kind = "asset" => \A m \in DOMAIN a[kind] : IsSynced(a[kind][m])
  BY DEF Filled, HasRows
<1>2. IsSequence(rows) /\ \A m \in DOMAIN rows : \E i \in DOMAIN a[kind] : rows[m] = a[kind][i]
  BY <1>1, ElementRemoved DEF IsRows
<1> HIDE DEF rows
<1>3. IsRows(kind, rows) /\ (kind = "asset" => \A m \in DOMAIN rows : IsSynced(rows[m]))
  BY <1>1, <1>2 DEF IsRows
<1>4. Filled([a EXCEPT ![kind] = rows])
  BY <1>3, RowsSet
<1> QED BY <1>4 DEF rows

\* With the flows written into the rows: neither value nor quantity is.
LEMMA FlowsFilled ==
  ASSUME NEW a, Filled(a), NEW edges, IsEdges(edges), NEW now \in Int
  PROVE  Filled(ApplyFlows(a, edges, now))
<1> DEFINE Into(n) == FlowsInto(a, edges, <<"asset", n>>)
<1>1. PICK b : b = ApplyFlows(a, edges, now)
  OBVIOUS
<1>2. /\ Kinds \subseteq DOMAIN a /\ \A kind \in Kinds : IsRows(kind, a[kind])
      /\ \A n \in DOMAIN a.asset : IsSynced(a.asset[n])
  BY DEF Filled, HasRows
<1>3. /\ DOMAIN b = DOMAIN a
      /\ \A kind \in Kinds : IsRows(kind, b[kind]) /\ DOMAIN b[kind] = DOMAIN a[kind]
      /\ \A n \in DOMAIN a.asset :
           b.asset[n] = FlowIntoAsset(a.asset[n], InAMonth(a, Into(n)), Into(n))
  BY <1>1, <1>2, FlowsWritten
<1>4. \A row, monthly, flows :
        IsSynced(row) => IsSynced(FlowIntoAsset(row, monthly, flows))
  BY DEF IsSynced, FlowIntoAsset
<1>5. "asset" \in Kinds
  BY DEF Kinds
<1> HIDE DEF Into
<1>6. \A n \in DOMAIN b.asset : IsSynced(b.asset[n])
  BY <1>2, <1>3, <1>4, <1>5
<1> QED BY <1>1, <1>2, <1>3, <1>6 DEF Filled, HasRows

\* What the fields of an asset hold.
LEMMA AssetTyped ==
  ASSUME NEW row, HasFields(row, AssetFields)
  PROVE  /\ row.value \in Int /\ row.connected \in BOOLEAN /\ row.units \in Int
         /\ row.price \in Int /\ row.mode \in {"Manual", "APY", "Ticker"}
         /\ {"value", "connected", "units", "price", "mode"} \subseteq DOMAIN row
  BY DEF HasFields, AssetFields, ValuesOf

\* A row keeps its fields where some are written.
LEMMA FieldsHeld ==
  ASSUME NEW row, NEW fields, HasFields(row, fields), NEW r, DOMAIN r = DOMAIN row, NEW W,
         \A x \in DOMAIN row \ W : r[x] = row[x],
         \A x \in fields : x \in W => r[x] \in ValuesOf(x)
  PROVE  HasFields(r, fields)
<1> SUFFICES ASSUME NEW x \in fields PROVE x \in DOMAIN r /\ r[x] \in ValuesOf(x)
  BY DEF HasFields
<1>1. x \in DOMAIN row /\ row[x] \in ValuesOf(x)
  BY DEF HasFields
<1> QED BY <1>1

\* An asset keeps holding its fields when two of them get values that are theirs.
LEMMA AssetHeld ==
  ASSUME NEW row, HasFields(row, AssetFields), NEW r, DOMAIN r = DOMAIN row,
         NEW y, NEW z,
         \A x \in DOMAIN row : x \notin {y, z, "synced"} => r[x] = row[x],
         r[y] \in ValuesOf(y), r[z] \in ValuesOf(z)
  PROVE  HasFields(r, AssetFields)
<1> SUFFICES ASSUME NEW x \in AssetFields PROVE x \in DOMAIN r /\ r[x] \in ValuesOf(x)
  BY DEF HasFields
<1>1. x \in DOMAIN row /\ row[x] \in ValuesOf(x)
  BY DEF HasFields
<1>2. x # "synced"
  BY DEF AssetFields
<1> QED BY <1>1, <1>2

\* What is written into a cell, of an asset or of another row.
LEMMA CellFilled ==
  ASSUME NEW kind \in Kinds, NEW row, HasFields(row, FieldsOf(kind)),
         kind = "asset" => IsSynced(row), NEW field \in Cells(kind, row),
         NEW to \in ValuesOf(field)
  PROVE  HasFields(Cell(row, field, to), FieldsOf(kind))
         /\ (kind = "asset" => IsSynced(Cell(row, field, to)))
<1> PICK r : r = Cell(row, field, to)
  OBVIOUS
<1>1. CASE kind # "asset"
  <2>1. \A x \in FieldsOf(kind) : x \notin {"units", "mode", "synced"}
    BY <1>1 DEF Kinds, FieldsOf, FlowFields, DebtFields
  <2>2. field \notin {"units", "mode", "synced"}
    BY <1>1 DEF Kinds, Cells, IncomeCells, ExpenseCells, DebtCells, Typed
  <2>3. CASE r = [row EXCEPT ![field] = to]
    <3>1. HasFields([row EXCEPT ![field] = to], FieldsOf(kind))
      BY FieldWritten
    <3> QED BY <1>1, <2>3, <3>1
  <2>4. CASE field = "value" /\ Priced(row)
                /\ r = [row EXCEPT !.value = to, !.units = BankersRound(to * Micro, row.price),
                                   !.synced = TRUE]
    <3>1. DOMAIN r = DOMAIN row
      BY <2>4
    <3>2. \A x \in DOMAIN row \ {"value", "units", "synced"} : r[x] = row[x]
      BY <2>4
    <3>3. "value" \in FieldsOf(kind) => r.value = to
      BY <2>4 DEF HasFields
    <3>4. \A x \in FieldsOf(kind) :
            x \in {"value", "units", "synced"} => r[x] \in ValuesOf(x)
      BY <2>1, <2>4, <3>3
    <3>5. HasFields(r, FieldsOf(kind))
      BY <3>1, <3>2, <3>4, FieldsHeld
    <3> QED BY <1>1, <3>5
  <2> QED BY <2>2, <2>3, <2>4 DEF Cell
<1>2. CASE kind = "asset"
  <2>1. HasFields(row, AssetFields) /\ IsSynced(row)
    BY <1>2 DEF FieldsOf
  <2>2. /\ row.value \in Int /\ row.connected \in BOOLEAN /\ row.units \in Int
        /\ row.price \in Int /\ row.mode \in {"Manual", "APY", "Ticker"}
        /\ {"value", "connected", "units", "price", "mode", "synced"} \subseteq DOMAIN row
    BY <2>1, AssetTyped DEF IsSynced
  <2>3. field \in {"mode", "value", "recur", "every", "rate", "units"}
    BY <1>2 DEF Cells, AssetCells, ContributionCells, Typed
  <2>4. Micro \in Nat \ {0}
    BY LedgerAssumption
  <2>5. CASE field = "units" /\ Priced(row)
    <3> DEFINE v == BankersRound(to * row.price, Micro)
    <3>1. to \in Int
      BY <2>5 DEF ValuesOf
    <3>2. to * row.price \in Int
      BY <2>2, <3>1
    <3>3. v \in Int
      BY <2>4, <3>2, HalfToEven
    <3>4. r = [row EXCEPT !.units = to, !.value = v, !.synced = TRUE]
      BY <2>2, <2>5 DEF Cell
    <3>5. /\ DOMAIN r = DOMAIN row /\ r.units = to /\ r.value = v /\ r.mode = row.mode
          /\ r.connected = row.connected /\ r.price = row.price /\ r.synced = TRUE
          /\ \A x \in DOMAIN row : x \notin {"units", "value", "synced"} => r[x] = row[x]
      <4> HIDE DEF v
      <4> QED BY <2>2, <3>4
    <3> HIDE DEF v
    <3>6. ValuesOf("units") = Int /\ ValuesOf("value") = Int
      BY DEF ValuesOf
    <3>7. HasFields(r, AssetFields)
      <4>1. r["units"] \in ValuesOf("units") /\ r["value"] \in ValuesOf("value")
        BY <3>1, <3>3, <3>5, <3>6
      <4> QED BY <2>1, <3>5, <4>1, AssetHeld
    <3>8. IsSynced(r)
      BY <2>2, <3>5 DEF IsSynced, v
    <3> QED BY <1>2, <3>7, <3>8 DEF FieldsOf
  <2>6. CASE field = "value" /\ Priced(row)
    <3> DEFINE u == BankersRound(to * Micro, row.price)
    <3>1. to \in Int /\ row.price \in Nat \ {0}
      BY <2>2, <2>6 DEF ValuesOf, Priced
    <3>2. to * Micro \in Int
      BY <2>4, <3>1
    <3>3. u \in Int
      BY <3>1, <3>2, HalfToEven
    <3>4. r = [row EXCEPT !.value = to, !.units = u, !.synced = TRUE]
      BY <2>2, <2>6 DEF Cell
    <3>5. /\ DOMAIN r = DOMAIN row /\ r.units = u /\ r.value = to /\ r.mode = row.mode
          /\ r.connected = row.connected /\ r.price = row.price /\ r.synced = TRUE
          /\ \A x \in DOMAIN row : x \notin {"units", "value", "synced"} => r[x] = row[x]
      <4> HIDE DEF u
      <4> QED BY <2>2, <3>4
    <3>6. row.price < Micro => BankersRound(u * row.price, Micro) = to
      BY <3>1, QuantityIsPrecise
    <3> HIDE DEF u
    <3>7. ValuesOf("units") = Int /\ ValuesOf("value") = Int
      BY DEF ValuesOf
    <3>8. HasFields(r, AssetFields)
      <4>1. r["units"] \in ValuesOf("units") /\ r["value"] \in ValuesOf("value")
        BY <3>1, <3>3, <3>5, <3>7
      <4> QED BY <2>1, <3>5, <4>1, AssetHeld
    <3>9. IsSynced(r)
      BY <2>2, <3>5, <3>6 DEF IsSynced
    <3> QED BY <1>2, <3>8, <3>9 DEF FieldsOf
  <2>7. CASE field = "mode"
    <3>1. r = [row EXCEPT !.mode = to, !.synced = FALSE]
      BY <2>2, <2>7 DEF Cell
    <3>2. /\ DOMAIN r = DOMAIN row /\ r.synced = FALSE /\ r.mode = to
          /\ \A x \in DOMAIN row : x \notin {"mode", "synced"} => r[x] = row[x]
      BY <2>2, <3>1
    <3>3. HasFields(r, AssetFields)
      <4>1. r["mode"] \in ValuesOf("mode")
        BY <2>7, <3>2
      <4> QED BY <2>1, <3>2, <4>1, AssetHeld
    <3>4. IsSynced(r)
      BY <2>2, <3>2 DEF IsSynced
    <3> QED BY <1>2, <3>3, <3>4 DEF FieldsOf
  <2>8. CASE ~Priced(row) /\ field # "mode"
    <3>1. r = [row EXCEPT ![field] = to]
      BY <2>8 DEF Cell
    <3>2. HasFields(r, AssetFields)
      <4>1. HasFields([row EXCEPT ![field] = to], AssetFields)
        BY <2>1, FieldWritten
      <4> QED BY <3>1, <4>1
    <3>3. DOMAIN r = DOMAIN row /\ r.mode = row.mode /\ r.price = row.price
      BY <2>3, <2>8, <3>1
    <3>4. ~(r.mode = "Ticker" /\ 0 < r.price)
      BY <2>2, <2>8, <3>3 DEF Priced
    <3>5. IsSynced(r)
      BY <2>2, <3>3, <3>4 DEF IsSynced
    <3> QED BY <1>2, <3>2, <3>5 DEF FieldsOf
  <2>9. CASE field \in {"recur", "every", "rate"}
    <3>1. r = [row EXCEPT ![field] = to]
      BY <2>9 DEF Cell
    <3>2. HasFields(r, AssetFields)
      <4>1. HasFields([row EXCEPT ![field] = to], AssetFields)
        BY <2>1, FieldWritten
      <4> QED BY <3>1, <4>1
    <3>3. /\ DOMAIN r = DOMAIN row /\ r.mode = row.mode /\ r.price = row.price
          /\ r.units = row.units /\ r.value = row.value /\ r.connected = row.connected
          /\ r.synced = row.synced
      BY <2>9, <3>1
    <3>4. IsSynced(r)
      BY <2>1, <3>3 DEF IsSynced
    <3> QED BY <1>2, <3>2, <3>4 DEF FieldsOf
  <2> QED BY <2>3, <2>5, <2>6, <2>7, <2>8, <2>9
<1> QED BY <1>1, <1>2

\* A row that is saved in a dialog, after which an asset is not known to be in step.
LEMMA SavedFilled ==
  ASSUME NEW kind \in Kinds, NEW row, HasFields(row, FieldsOf(kind)),
         kind = "asset" => IsSynced(row), NEW field, NEW to \in ValuesOf(field), NEW r,
         LET saved == [row EXCEPT ![field] = to] IN
         r = IF kind = "asset" THEN [saved EXCEPT !.synced = FALSE] ELSE saved
  PROVE  HasFields(r, FieldsOf(kind)) /\ (kind = "asset" => IsSynced(r))
<1> DEFINE saved == [row EXCEPT ![field] = to]
<1>1. HasFields(saved, FieldsOf(kind)) /\ DOMAIN saved = DOMAIN row
  BY FieldWritten
<1>2. r = IF kind = "asset" THEN [saved EXCEPT !.synced = FALSE] ELSE saved
  OBVIOUS
<1> HIDE DEF saved
<1>3. CASE kind # "asset"
  BY <1>1, <1>2, <1>3
<1>4. CASE kind = "asset"
  <2>1. "synced" \in DOMAIN saved
    BY <1>1, <1>4 DEF IsSynced
  <2>2. /\ DOMAIN r = DOMAIN saved /\ r.synced = FALSE
        /\ \A x \in DOMAIN saved : x \notin {"synced"} => r[x] = saved[x]
    BY <1>2, <1>4, <2>1
  <2>5. "synced" \notin AssetFields
    BY DEF AssetFields
  <2>3. HasFields(r, AssetFields)
    <3>1. HasFields(saved, AssetFields)
      BY <1>1, <1>4 DEF FieldsOf
    <3> SUFFICES ASSUME NEW x \in AssetFields PROVE x \in DOMAIN r /\ r[x] \in ValuesOf(x)
      BY DEF HasFields
    <3>2. x \in DOMAIN saved /\ saved[x] \in ValuesOf(x) /\ x # "synced"
      BY <2>5, <3>1 DEF HasFields
    <3> QED BY <2>2, <3>2
  <2>4. IsSynced(r)
    BY <2>1, <2>2 DEF IsSynced
  <2> QED BY <1>4, <2>3, <2>4 DEF FieldsOf
<1> QED BY <1>3, <1>4

\* A position that is quoted is in step.
LEMMA QuotedFilled ==
  ASSUME NEW row, HasFields(row, AssetFields), IsSynced(row), NEW price \in Nat
  PROVE  HasFields(Quoted(row, price), AssetFields) /\ IsSynced(Quoted(row, price))
<1> PICK r : r = Quoted(row, price)
  OBVIOUS
<1> DEFINE v == BankersRound(row.units * price, Micro)
<1>1. /\ row.value \in Int /\ row.connected \in BOOLEAN /\ row.units \in Int
      /\ {"value", "connected", "units", "price", "mode", "synced"} \subseteq DOMAIN row
  BY AssetTyped DEF IsSynced
<1>2. row.units * price \in Int
  BY <1>1
<1>3. v \in Int
  BY <1>2, LedgerAssumption, HalfToEven
<1>4. CASE ~(price > 0)
  BY <1>4 DEF Quoted
<1>5. CASE price > 0
  <2>1. r = [row EXCEPT !.price = price, !.value = v, !.synced = TRUE]
    BY <1>5 DEF Quoted
  <2>2. /\ DOMAIN r = DOMAIN row /\ r.units = row.units /\ r.value = v /\ r.mode = row.mode
        /\ r.connected = row.connected /\ r.price = price /\ r.synced = TRUE
        /\ \A x \in DOMAIN row : x \notin {"price", "value", "synced"} => r[x] = row[x]
    <3> HIDE DEF v
    <3> QED BY <1>1, <2>1
  <2>3. ValuesOf("price") = Int /\ ValuesOf("value") = Int
    BY DEF ValuesOf
  <2>4. IsSynced(r)
    BY <1>1, <2>2 DEF IsSynced
  <2> HIDE DEF v
  <2>5. HasFields(r, AssetFields)
    <3>1. r["price"] \in ValuesOf("price") /\ r["value"] \in ValuesOf("value")
      BY <1>3, <2>2, <2>3
    <3> QED BY <2>2, <3>1, AssetHeld
  <2> QED BY <2>4, <2>5
<1> QED BY <1>4, <1>5

\* Flows of which each was there or is one.
LEMMA EdgesFrom ==
  ASSUME NEW edges, IsEdges(edges), NEW new, IsSequence(new),
         \A i \in DOMAIN new : IsEdge(new[i]) \/ \E j \in DOMAIN edges : new[i] = edges[j]
  PROVE  IsEdges(new)
  BY DEF IsEdges

\* Some of the flows.
LEMMA EdgesKept ==
  ASSUME NEW edges, IsEdges(edges), NEW K
  PROVE  IsEdges(Kept(edges, K))
<1>1. /\ IsSequence(Kept(edges, K))
      /\ \A i \in DOMAIN Kept(edges, K) :
           \E j \in K \cap DOMAIN edges : Kept(edges, K)[i] = edges[j]
  BY KeptElements DEF IsEdges
<1> QED BY <1>1, EdgesFrom

\* The sanitized are some.
LEMMA SanitizedEdges ==
  ASSUME NEW edges, IsEdges(edges)
  PROVE  IsEdges(SanitizeEdges(edges))
<1> DEFINE K == {i \in DOMAIN edges : /\ {edges[i].from, edges[i].to} \subseteq Nodes(Alt)
                                      /\ FlowAllowed(edges[i].from[1], edges[i].to[1])}
<1>1. SanitizeEdges(edges) = Kept(edges, K)
  BY Zenon DEF SanitizeEdges
<1> HIDE DEF K
<1> QED BY <1>1, EdgesKept

\* What is entered for a flow.
LEMMA EnteredEdge ==
  ASSUME NEW edge, {"from", "to", "mode", "amount", "freq", "recur"} \subseteq DOMAIN edge,
         NEW form \in FlowForms
  PROVE  IsEdge(Entered(edge, form))
<1>1. /\ form.amount \in Int /\ form.freq \in Frequencies
      /\ form.recur \in Frequencies \union {"none"}
  BY PlanningAssumption
<1>2. PICK e : e = Entered(edge, form)
  OBVIOUS
<1>3. /\ DOMAIN e = DOMAIN edge /\ e.amount = form.amount /\ e.freq = form.freq
      /\ e.recur \in {form.recur, "none"}
  BY <1>2 DEF Entered
<1> QED BY <1>1, <1>2, <1>3 DEF IsEdge

\* A flow that slipped.
LEMMA EdgeSlipped ==
  ASSUME NEW edge, IsEdge(edge), NEW x
  PROVE  IsEdge([edge EXCEPT !.slipped = x])
  BY DEF IsEdge

-----------------------------------------------------------------------------
(* The parts of the document.                                              *)

FilledAll(f) == DOMAIN f \cap NoNames = {} /\ \A m \in DOMAIN f : Filled(f[m])
TypedFlows(f) ==
  \A m \in DOMAIN f : DOMAIN f[m] = {"owner", "edges"} /\ IsEdges(f[m].edges)
ObservedAll(f) == \A m \in DOMAIN f : Observed(f[m])

\* A sound document, and the parts of it.
LEMMA SoundIs ==
  ASSUME NEW p
  PROVE  Sound(p) <=> /\ DOMAIN p = PlanFields /\ FilledAll(p.alternatives)
                      /\ TypedFlows(p.byAlt) /\ ObservedAll(p.checkpoints)
  BY DEF Sound, FilledAll, TypedFlows, ObservedAll

\* An alternative is put under a name, other flows are.
LEMMA PutSound ==
  ASSUME NEW f, NEW name, NEW v
  PROVE  /\ FilledAll(f) /\ Filled(v) /\ name \notin NoNames => FilledAll(Put(f, name, v))
         /\ TypedFlows(f) /\ DOMAIN v = {"owner", "edges"} /\ IsEdges(v.edges)
              => TypedFlows(Put(f, name, v))
<1>1. /\ DOMAIN Put(f, name, v) = DOMAIN f \union {name}
      /\ \A m \in DOMAIN Put(f, name, v) :
           \/ m = name /\ Put(f, name, v)[m] = v
           \/ m \in DOMAIN f /\ Put(f, name, v)[m] = f[m]
  BY DEF Put
<1> QED BY <1>1 DEF FilledAll, TypedFlows

\* What is kept moves to another name.
LEMMA MovedSound ==
  ASSUME NEW f, NEW old, NEW new
  PROVE  /\ FilledAll(f) /\ new \notin NoNames => FilledAll(Moved(f, old, new))
         /\ TypedFlows(f) => TypedFlows(Moved(f, old, new))
         /\ ObservedAll(f) => ObservedAll(Moved(f, old, new))
<1>1. /\ DOMAIN Moved(f, old, new) \subseteq DOMAIN f \union {new}
      /\ \A m \in DOMAIN Moved(f, old, new) :
           \E n \in DOMAIN f : Moved(f, old, new)[m] = f[n]
  BY DEF Moved, Put, Without
<1> QED BY <1>1 DEF FilledAll, TypedFlows, ObservedAll

\* The screens show the rows and the flows of the active alternative.
LEMMA ActiveSound ==
  ASSUME NEW F, Good(store, F), Sound(store)
  PROVE  /\ store.activeAlt \in DOMAIN store.alternatives /\ store.activeAlt \notin NoNames
         /\ Filled(Alt) /\ IsEdges(Edges) /\ DOMAIN ActivePipeline = {"owner", "edges"}
<1>1. /\ store.activeAlt \in DOMAIN store.alternatives
      /\ DOMAIN ActivePipeline = {"owner", "edges"}
  BY ActiveOfPlan
<1>2. store.activeAlt \notin NoNames /\ Filled(Alt)
  BY <1>1 DEF Sound, Alt
<1>3. IsEdges(Edges)
  <2>1. CASE store.activeAlt \in DOMAIN store.byAlt
    <3>1. Edges = store.byAlt[store.activeAlt].edges
      BY <2>1 DEF Edges, ActivePipeline, PipelineOf, At
    <3> QED BY <2>1, <3>1 DEF Sound
  <2>2. CASE store.activeAlt \notin DOMAIN store.byAlt
    <3>1. Edges = << >>
      BY <2>2 DEF Edges, ActivePipeline, PipelineOf, At, NoFlows
    <3> QED BY <3>1 DEF IsEdges, IsSequence
  <2> QED BY <2>1, <2>2
<1> QED BY <1>1, <1>2, <1>3

\* An alternative is written.
LEMMA SetSound ==
  ASSUME NEW p, Sound(p), NEW name, name \notin NoNames, NEW alt, Filled(alt)
  PROVE  Sound(SetAlternative(p, name, alt))
<1> DEFINE q == SetAlternative(p, name, alt)
<1>1. /\ DOMAIN q = PlanFields /\ q.alternatives = Put(p.alternatives, name, alt)
      /\ q.byAlt = p.byAlt /\ q.checkpoints = p.checkpoints
  BY DEF SetAlternative, Sound, PlanFields
<1> HIDE DEF q
<1>2. Sound(q)
  BY <1>1, SoundIs, PutSound
<1> QED BY <1>2 DEF q

\* The flows of the active alternative are.
LEMMA EdgesSound ==
  ASSUME NEW F, Good(store, F), Sound(store), NEW p, Sound(p), NEW edges, IsEdges(edges)
  PROVE  Sound(SetEdges(p, edges))
<1> DEFINE q == SetEdges(p, edges)
           flows == [ActivePipeline EXCEPT !.edges = edges]
<1>1. DOMAIN flows = {"owner", "edges"} /\ flows.edges = edges
  BY ActiveSound
<1>2. /\ DOMAIN q = PlanFields /\ q.alternatives = p.alternatives
      /\ q.byAlt = Put(p.byAlt, p.activeAlt, flows) /\ q.checkpoints = p.checkpoints
  BY DEF SetEdges, Sound, PlanFields
<1> HIDE DEF q, flows
<1>3. Sound(q)
  BY <1>1, <1>2, SoundIs, PutSound
<1> QED BY <1>3 DEF q

\* Both are.
LEMMA PipelineSound ==
  ASSUME NEW F, Good(store, F), Sound(store), today \in Nat, NEW edges, IsEdges(edges),
         NEW applied
  PROVE  Sound(UpdatePipeline(edges, applied))
<1> DEFINE clean == SanitizeEdges(edges)
           alt == IF applied THEN ApplyFlows(Alt, clean, today) ELSE Alt
           p == SetAlternative(store, store.activeAlt, alt)
<1>1. UpdatePipeline(edges, applied) = SetEdges(p, clean)
  BY Zenon DEF UpdatePipeline
<1>2. IsEdges(clean)
  BY SanitizedEdges
<1> HIDE DEF clean
<1>3. Filled(alt)
  BY <1>2, ActiveSound, FlowsFilled
<1> HIDE DEF alt
<1>4. Sound(p)
  BY <1>3, ActiveSound, SetSound
<1> HIDE DEF p
<1> QED BY <1>1, <1>2, <1>4, EdgesSound

\* The flows behind a row that goes away slip.
LEMMA SlipSound ==
  ASSUME NEW p, Sound(p), NEW kind, NEW n
  PROVE  Sound(Slip(p, kind, n))
<1> DEFINE a == p.activeAlt
           q == Slip(p, kind, n)
<1>1. CASE a \notin DOMAIN p.byAlt
  BY <1>1 DEF Slip
<1>2. CASE a \in DOMAIN p.byAlt
  <2> DEFINE flows == p.byAlt[a]
             edges == Slipped(flows.edges, kind, n)
             new == [flows EXCEPT !.edges = edges]
  <2>1. q = [p EXCEPT !.byAlt[a].edges = Slipped(@, kind, n)]
    BY <1>2 DEF Slip
  <2>2. q = [p EXCEPT !.byAlt = [p.byAlt EXCEPT ![a] = new]]
    BY <2>1, Zenon
  <2>3. DOMAIN flows = {"owner", "edges"} /\ IsEdges(flows.edges)
    BY <1>2 DEF Sound
  <2>4. IsEdges(edges)
    <3> DEFINE old == flows.edges
               Behind(node) == node[1] = kind /\ node[2] >= n
    <3>1. /\ DOMAIN edges = DOMAIN old /\ edges = [i \in DOMAIN edges |-> edges[i]]
          /\ \A i \in DOMAIN old :
               edges[i] = [old[i] EXCEPT !.slipped = old[i].slipped
                             \/ Behind(old[i].from) \/ Behind(old[i].to)]
      BY DEF Slipped
    <3> HIDE DEF edges, Behind
    <3>2. ASSUME NEW i \in DOMAIN edges PROVE IsEdge(edges[i])
      <4> DEFINE x == old[i].slipped \/ Behind(old[i].from) \/ Behind(old[i].to)
      <4>1. IsEdge(old[i]) /\ edges[i] = [old[i] EXCEPT !.slipped = x]
        BY <2>3, <3>1 DEF IsEdges
      <4> HIDE DEF x
      <4>2. IsEdge([old[i] EXCEPT !.slipped = x])
        BY <4>1, EdgeSlipped
      <4> QED BY <4>1, <4>2
    <3>3. IsSequence(edges)
      BY <2>3, <3>1, Sequence, Listed DEF IsEdges
    <3> QED BY <3>2, <3>3 DEF IsEdges
  <2>5. DOMAIN new = {"owner", "edges"} /\ new.edges = edges
    BY <2>3
  <2> HIDE DEF new, edges
  <2>6. /\ DOMAIN q = PlanFields /\ q.alternatives = p.alternatives
        /\ q.checkpoints = p.checkpoints /\ q.byAlt = [p.byAlt EXCEPT ![a] = new]
    BY <2>2 DEF Sound, PlanFields
  <2> HIDE DEF q
  <2>7. TypedFlows(q.byAlt)
    BY <2>4, <2>5, <2>6 DEF TypedFlows, Sound
  <2>8. Sound(q)
    BY <2>6, <2>7, SoundIs
  <2> QED BY <2>8 DEF q
<1> QED BY <1>1, <1>2

-----------------------------------------------------------------------------
(* Checkpoints.                                                            *)

\* What the screens show for the rows is a number.
LEMMA ValueIsWhole ==
  ASSUME NEW kind \in {"asset", "debt"}, NEW rows, IsRows(kind, rows)
  PROVE  Value(rows) \in Int
<1> DEFINE ns == [n \in DOMAIN rows |-> rows[n].value]
<1>1. \A n \in DOMAIN rows : rows[n].value \in Int
  BY DEF IsRows, HasFields, FieldsOf, AssetFields, DebtFields, ValuesOf
<1>2. IsSequence(rows)
  BY DEF IsRows
<1>3. DOMAIN rows = 1 .. Len(rows) /\ Len(rows) \in Nat
  BY <1>2, Sequence
<1>4. ns \in Seq(Int)
  <2>1. ns \in [1 .. Len(rows) -> Int]
    BY <1>1, <1>3
  <2> HIDE DEF ns
  <2> QED BY <1>3, <2>1
<1>5. Total(ns) \in Int
  <2> HIDE DEF ns
  <2>1. PICK s : Sums(ns, s)
    BY <1>4, Summed
  <2>2. Len(ns) \in Nat
    BY <1>4
  <2> QED BY <2>1, <2>2 DEF Sums
<1> QED BY <1>5 DEF Value

\* A checkpoint of an alternative is one to start from.
LEMMA TakenIsCheckpoint ==
  ASSUME NEW p, NEW name, Filled(p.alternatives[name]), today \in Nat
  PROVE  IsCheckpoint(Taken(p, name))
<1> DEFINE alt == p.alternatives[name]
<1>1. IsRows("asset", alt.asset) /\ IsRows("debt", alt.debt)
  BY DEF Filled, HasRows, Kinds
<1>2. Value(alt.asset) \in Int /\ Value(alt.debt) \in Int
  BY <1>1, ValueIsWhole
<1>3. ShownNetWorth(alt) \in Int
  BY <1>2 DEF ShownNetWorth
<1>4. /\ \A n \in DOMAIN alt.asset :
           HasFields(alt.asset[n], {"id", "mode", "value", "units", "price"})
      /\ \A n \in DOMAIN alt.debt : HasFields(alt.debt[n], {"id", "value"})
  BY <1>1 DEF IsRows, HasFields, FieldsOf, AssetFields, DebtFields
<1> HIDE DEF alt
<1>5. PICK cp : cp = Taken(p, name)
  OBVIOUS
<1>6. /\ {"day", "netWorth", "asset", "debt"} \subseteq DOMAIN cp
      /\ cp.day = today /\ cp.netWorth = ShownNetWorth(alt)
      /\ cp.asset = alt.asset /\ cp.debt = alt.debt
  BY <1>5 DEF Taken, alt
<1> QED BY <1>3, <1>4, <1>5, <1>6 DEF IsCheckpoint

\* The checkpoints with one more.
LEMMA CheckpointSound ==
  ASSUME NEW p, Sound(p), NEW name \in DOMAIN p.alternatives, today \in Nat
  PROVE  /\ Sound(WithCheckpoint(p, name))
         /\ Observed(WithCheckpoint(p, name).checkpoints[name])
<1> PICK q : q = WithCheckpoint(p, name)
  OBVIOUS
<1>1. /\ DOMAIN q = PlanFields
      /\ \A x \in PlanFields \ {"checkpoints"} : q[x] = p[x]
      /\ DOMAIN q.checkpoints = DOMAIN p.checkpoints \union {name}
      /\ \A m \in DOMAIN p.checkpoints \ {name} : q.checkpoints[m] = p.checkpoints[m]
      /\ IsSequence(q.checkpoints[name])
      /\ \A i \in DOMAIN q.checkpoints[name] :
           \/ q.checkpoints[name][i] = Taken(p, name)
           \/ \E j \in DOMAIN CheckpointsOf(p, name) :
                q.checkpoints[name][i] = CheckpointsOf(p, name)[j]
  BY CheckpointPut DEF Sound, Observed
<1>2. q.alternatives = p.alternatives /\ q.byAlt = p.byAlt
  BY <1>1 DEF PlanFields
<1>3. IsCheckpoint(Taken(p, name))
  BY TakenIsCheckpoint DEF Sound
<1>4. \A j \in DOMAIN CheckpointsOf(p, name) : IsCheckpoint(CheckpointsOf(p, name)[j])
  BY DEF CheckpointsOf, At, Sound, Observed
<1>5. Observed(q.checkpoints[name])
  BY <1>1, <1>3, <1>4 DEF Observed
<1>6. ObservedAll(q.checkpoints)
  BY <1>1, <1>5 DEF ObservedAll, Sound
<1> QED BY <1>1, <1>2, <1>5, <1>6, SoundIs

\* Those of the month, and the seed.
LEMMA SettledSound ==
  ASSUME NEW p, Sound(p), today \in Nat
  PROVE  Sound(Settled(p))
<1> DEFINE q == WithMonthly(p)
           T == {n \in DOMAIN p.alternatives : MonthlyDue(p, n)}
           due == [name \in DOMAIN p.checkpoints \union T |->
                     IF name \in DOMAIN p.alternatives /\ MonthlyDue(p, name)
                     THEN WithCheckpoint(p, name).checkpoints[name] ELSE p.checkpoints[name]]
<1>1. q = [p EXCEPT !.checkpoints = due]
  BY Zenon DEF WithMonthly
<1>2. DOMAIN p = PlanFields
  BY DEF Sound
<1>3. \A m \in DOMAIN due :
        \/ m \in DOMAIN p.alternatives /\ due[m] = WithCheckpoint(p, m).checkpoints[m]
        \/ m \in DOMAIN p.checkpoints /\ due[m] = p.checkpoints[m]
  BY Zenon
<1> HIDE DEF due, T, q
<1>4. ObservedAll(due)
  BY <1>3, CheckpointSound DEF ObservedAll, Sound
<1>5. /\ DOMAIN q = PlanFields /\ q.alternatives = p.alternatives
      /\ q.byAlt = p.byAlt /\ q.checkpoints = due
  BY <1>1, <1>2 DEF PlanFields
<1>6. Sound(q)
  BY <1>4, <1>5, SoundIs
<1>7. Sound(Resampled(q))
  <2> DEFINE r == Resampled(q)
  <2>1. /\ DOMAIN r = PlanFields /\ r.alternatives = q.alternatives /\ r.byAlt = q.byAlt
        /\ r.checkpoints = q.checkpoints
    BY <1>5 DEF Resampled, PlanFields
  <2> HIDE DEF r
  <2>2. Sound(r)
    BY <1>6, <2>1, SoundIs
  <2> QED BY <2>2 DEF r
<1> QED BY <1>6, <1>7 DEF Settled, EnsureForecastSeed, q

\* What an edit leaves.
LEMMA EditSound ==
  ASSUME NEW p, Sound(p), today \in Nat, Edit(p)
  PROVE  Sound(store)'
<1>1. store' = Settled(p)
  BY DEF Edit
<1>2. Sound(store')
  BY <1>1, SettledSound
<1> QED BY <1>2 DEF Sound, Filled, Observed

\* The bounds stay numbers.
LEMMA LeftLess ==
  ASSUME left \in Lefts, NEW x \in {"edits", "visits", "projections", "failures"},
         left[x] > 0, left' = [left EXCEPT ![x] = @ - 1]
  PROVE  left' \in Lefts
  BY DEF Lefts

\* A step that leaves the document and the quote.
LEMMA ValuesStay ==
  ASSUME ValuesInv, UNCHANGED <<store, quote>>, today' \in Nat, left' \in Lefts
  PROVE  ValuesInv'
  BY DEF ValuesInv, Sound, Filled, Observed, NoQuote

\* An edit that leaves the quote.
LEMMA EditValues ==
  ASSUME ValuesInv, NEW p, Sound(p), Edit(p), quote' = quote
  PROVE  ValuesInv'
<1>1. Sound(store)'
  BY EditSound DEF ValuesInv
<1>2. today' \in Nat /\ left' \in Lefts
  BY LeftLess DEF ValuesInv, Edit
<1> QED BY <1>1, <1>2 DEF ValuesInv, Filled, NoQuote

\* The active alternative is written.
LEMMA ActiveValues ==
  ASSUME KeptInv, ValuesInv, NEW alt, Filled(alt), quote' = quote,
         Edit(SetAlternative(store, store.activeAlt, alt))
  PROVE  ValuesInv'
<1> PICK F : Good(store, F)
  BY DEF KeptInv
<1>1. Sound(SetAlternative(store, store.activeAlt, alt))
  BY ActiveSound, SetSound DEF ValuesInv
<1> QED BY <1>1, EditValues

\* Other fields of the document.
LEMMA FieldsValues ==
  ASSUME ValuesInv, NEW q, DOMAIN q = PlanFields, q.alternatives = store.alternatives,
         q.byAlt = store.byAlt, q.checkpoints = store.checkpoints, Edit(q), quote' = quote
  PROVE  ValuesInv'
<1>1. Sound(q)
  BY SoundIs DEF ValuesInv
<1> QED BY <1>1, EditValues

\* An alternative more.
LEMMA AddedValues ==
  ASSUME ValuesInv, NEW name, name \notin NoNames, NEW alt, Filled(alt), Added(name, alt)
  PROVE  ValuesInv'
<1> DEFINE q == [store EXCEPT !.alternatives = Put(@, name, alt), !.activeAlt = name,
                              !.altChartEnabled = Put(@, name, TRUE)]
<1>1. Edit(q) /\ quote' = quote
  BY DEF Added
<1>2. DOMAIN store = PlanFields
  BY DEF ValuesInv, Sound
<1>3. /\ DOMAIN q = PlanFields /\ q.alternatives = Put(store.alternatives, name, alt)
      /\ q.byAlt = store.byAlt /\ q.checkpoints = store.checkpoints
  BY <1>2 DEF PlanFields
<1> HIDE DEF q
<1>4. Sound(q)
  BY <1>3, SoundIs, PutSound DEF ValuesInv
<1> QED BY <1>1, <1>4, EditValues

\* A new alternative has no rows.
LEMMA NewValues ==
  ASSUME ValuesInv, NewAlternative
  PROVE  ValuesInv'
<1> DEFINE alt == [id |-> Fresh, income |-> << >>, expense |-> << >>, asset |-> << >>,
                   debt |-> << >>]
<1>1. PICK n \in DOMAIN NewNames : Added(NewNames[n], alt)
  BY DEF NewAlternative
<1>2. NewNames[n] \notin NoNames
  BY PlanningAssumption
<1>3. Filled(alt)
  <2>1. Kinds \subseteq DOMAIN alt /\ alt.asset = << >> /\ \A kind \in Kinds : alt[kind] = << >>
    BY DEF Kinds
  <2> HIDE DEF alt
  <2>2. IsSequence(<< >>) /\ DOMAIN << >> = {}
    BY DEF IsSequence
  <2> QED BY <2>1, <2>2 DEF Filled, HasRows, IsRows
<1> HIDE DEF alt
<1> QED BY <1>1, <1>2, <1>3, AddedValues

\* A clone holds what the alternative it was made of holds.
LEMMA CloneValues ==
  ASSUME KeptInv, ValuesInv, NEW name \in TypedNames, CloneAlternative(name)
  PROVE  ValuesInv'
<1> PICK F : Good(store, F)
  BY DEF KeptInv
<1> DEFINE alt == [Alt EXCEPT !.id = Fresh]
<1>1. Added(name, alt) /\ name \notin NoNames
  BY PlanningAssumption DEF CloneAlternative
<1>2. Filled(Alt)
  BY ActiveSound DEF ValuesInv
<1>3. DOMAIN alt = DOMAIN Alt /\ \A kind \in Kinds : alt[kind] = Alt[kind]
  BY DEF Kinds
<1>4. "asset" \in Kinds
  BY DEF Kinds
<1> HIDE DEF alt
<1>5. Filled(alt)
  BY <1>2, <1>3, <1>4 DEF Filled, HasRows
<1> QED BY <1>1, <1>5, AddedValues

\* An alternative that is renamed holds what it held.
LEMMA RenameValues ==
  ASSUME ValuesInv, NEW name \in TypedNames, RenameAlternative(name)
  PROVE  ValuesInv'
<1> DEFINE a == store.activeAlt
           q == Renamed(store, a, name)
<1>1. Edit(q) /\ quote' = quote /\ name \notin NoNames
  BY PlanningAssumption DEF RenameAlternative
<1>2. DOMAIN store = PlanFields
  BY DEF ValuesInv, Sound
<1>3. /\ DOMAIN q = PlanFields
      /\ q.alternatives = Moved(store.alternatives, a, name)
      /\ q.byAlt = Moved(store.byAlt, a, name)
      /\ q.checkpoints = Moved(store.checkpoints, a, name)
  BY <1>2 DEF Renamed, PlanFields
<1> HIDE DEF q, a
<1>4. Sound(q)
  BY <1>1, <1>3, SoundIs, MovedSound DEF ValuesInv
<1> QED BY <1>1, <1>4, EditValues

\* The alternatives that are left hold what they held.
LEMMA DeleteValues ==
  ASSUME ValuesInv, NEW next, DeleteAlternative(next)
  PROVE  ValuesInv'
<1> DEFINE a == store.activeAlt
           q == [store EXCEPT !.alternatives = Without(@, a),
                              !.altChartEnabled = Without(@, a), !.activeAlt = next]
<1>1. Edit(q) /\ quote' = quote
  BY DEF DeleteAlternative
<1>2. DOMAIN store = PlanFields /\ FilledAll(store.alternatives)
  BY SoundIs DEF ValuesInv
<1>3. /\ DOMAIN q = PlanFields /\ q.alternatives = Without(store.alternatives, a)
      /\ q.byAlt = store.byAlt /\ q.checkpoints = store.checkpoints
  BY <1>2 DEF PlanFields
<1> HIDE DEF q, a
<1>4. FilledAll(q.alternatives)
  BY <1>2, <1>3 DEF FilledAll, Without
<1>5. Sound(q)
  BY <1>3, <1>4, SoundIs DEF ValuesInv
<1> QED BY <1>1, <1>5, EditValues

\* The click on a ticker cell.
LEMMA AskValues ==
  ASSUME KeptInv, ValuesInv, NEW n, AskQuote(n)
  PROVE  ValuesInv'
<1> PICK F : Good(store, F)
  BY DEF KeptInv
<1>1. Edit(store) /\ quote' = [name |-> store.activeAlt, alt |-> Alt, n |-> n]
  BY DEF AskQuote
<1>2. Sound(store)' /\ today' \in Nat /\ left' \in Lefts
  BY <1>1, EditSound, LeftLess DEF ValuesInv, Edit
<1>3. quote'.name = store.activeAlt /\ quote'.alt = Alt
  BY <1>1
<1>4. quote'.name \notin NoNames /\ Filled(quote'.alt)
  BY <1>3, ActiveSound DEF ValuesInv
<1> QED BY <1>2, <1>4 DEF ValuesInv, Filled

\* A row more, a row less.
LEMMA RowValues ==
  ASSUME KeptInv, ValuesInv, NEW kind \in Kinds, NEW n,
         AddRow(kind) \/ AddNode(kind) \/ DeleteRow(kind, n)
  PROVE  ValuesInv'
<1> PICK F : Good(store, F)
  BY DEF KeptInv
<1>1. Filled(Alt) /\ IsEdges(Edges) /\ today \in Nat /\ left.edits \in Nat /\ Sound(store)
      /\ store.activeAlt \notin NoNames
  BY ActiveSound DEF ValuesInv, Lefts
<1>2. Filled(WithRow(Alt, kind)) /\ Filled(ApplyFlows(WithRow(Alt, kind), Edges, today))
  BY <1>1, RowAddedFilled, FlowsFilled
<1>3. CASE AddRow(kind) \/ AddNode(kind)
  BY <1>2, <1>3, ActiveValues DEF AddRow, AddNode
<1>4. CASE DeleteRow(kind, n)
  <2> DEFINE alt == [Alt EXCEPT ![kind] = Removed(@, n)]
             p == SetAlternative(store, store.activeAlt, alt)
  <2>1. n \in DOMAIN Alt[kind] /\ Edit(Slip(p, kind, n)) /\ quote' = quote
    BY <1>4 DEF DeleteRow
  <2>2. Filled(alt)
    BY <1>1, <2>1, RowRemovedFilled
  <2> HIDE DEF alt
  <2>3. Sound(Slip(p, kind, n))
    BY <1>1, <2>2, SetSound, SlipSound
  <2> HIDE DEF p
  <2> QED BY <2>1, <2>3, EditValues
<1> QED BY <1>3, <1>4

\* A node that is deleted leaves rows that hold what they should.
LEMMA NodeValues ==
  ASSUME KeptInv, ValuesInv, NEW kind \in Kinds, NEW n, DeleteNode(kind, n)
  PROVE  ValuesInv'
<1> PICK F : Good(store, F)
  BY DEF KeptInv
<1> DEFINE node == <<kind, n>>
           K == {i \in DOMAIN Edges : node \notin {Edges[i].from, Edges[i].to}}
           kept == Kept(Edges, K)
           bare == [Alt EXCEPT ![kind] = Removed(@, n)]
           alt == ApplyFlows(bare, kept, today)
           clean == SanitizeEdges(kept)
           s == SetAlternative(store, store.activeAlt, alt)
           p == SetEdges(s, clean)
<1>1. n \in DOMAIN Alt[kind] /\ Edit(Slip(p, kind, n)) /\ quote' = quote
  BY Zenon DEF DeleteNode
<1>2. /\ Filled(Alt) /\ IsEdges(Edges) /\ Sound(store) /\ store.activeAlt \notin NoNames
      /\ today \in Nat
  BY ActiveSound DEF ValuesInv
<1>3. Filled(bare)
  BY <1>1, <1>2, RowRemovedFilled
<1> HIDE DEF K, bare
<1>4. IsEdges(kept)
  BY <1>2, EdgesKept
<1> HIDE DEF kept
<1>5. Filled(alt)
  BY <1>2, <1>3, <1>4, FlowsFilled
<1>6. IsEdges(clean)
  BY <1>4, SanitizedEdges
<1> HIDE DEF alt, clean
<1>7. Sound(s)
  BY <1>2, <1>5, SetSound
<1> HIDE DEF s
<1>8. Sound(p)
  BY <1>2, <1>6, <1>7, EdgesSound
<1> HIDE DEF p
<1>9. Sound(Slip(p, kind, n))
  BY <1>8, SlipSound
<1> QED BY <1>1, <1>9, EditValues

\* A cell, a form and a check-in.
LEMMA EditedRowValues ==
  ASSUME KeptInv, ValuesInv, NEW n, NEW kind \in Kinds, NEW field, NEW to \in ValuesOf(field),
         \/ EditCell(n, kind, field, to) \/ SaveNode(n, kind, field, to)
         \/ CheckIn(n, kind, field, to)
  PROVE  ValuesInv'
<1> PICK F : Good(store, F)
  BY DEF KeptInv
<1> DEFINE old == Alt[kind][n]
           saved == [old EXCEPT ![field] = to]
           row == IF kind = "asset" THEN [saved EXCEPT !.synced = FALSE] ELSE saved
           b == [Alt EXCEPT ![kind][n] = row]
<1>1. Filled(Alt) /\ IsEdges(Edges) /\ Sound(store) /\ today \in Nat
      /\ store.activeAlt \in DOMAIN store.alternatives /\ store.activeAlt \notin NoNames
  BY ActiveSound DEF ValuesInv
<1>2. n \in DOMAIN Alt[kind]
  BY DEF EditCell, SaveNode, CheckIn
<1>3. HasFields(old, FieldsOf(kind)) /\ (kind = "asset" => IsSynced(old))
  BY <1>1, <1>2 DEF Filled, HasRows, IsRows
<1>4. CASE EditCell(n, kind, field, to)
  <2> DEFINE cell == Cell(old, field, to)
  <2>1. field \in Cells(kind, old) /\ quote' = quote
        /\ Edit(SetAlternative(store, store.activeAlt, [Alt EXCEPT ![kind][n] = cell]))
    BY <1>4, Zenon DEF EditCell
  <2>2. HasFields(cell, FieldsOf(kind)) /\ (kind = "asset" => IsSynced(cell))
    BY <1>3, <2>1, CellFilled
  <2> HIDE DEF cell
  <2>3. Filled([Alt EXCEPT ![kind][n] = cell])
    BY <1>1, <1>2, <2>2, RowSet
  <2> QED BY <2>1, <2>3, ActiveValues
<1>5. Filled(b)
  <2>1. HasFields(row, FieldsOf(kind)) /\ (kind = "asset" => IsSynced(row))
    <3> PICK r : r = row
      OBVIOUS
    <3> HIDE DEF old
    <3>1. HasFields(r, FieldsOf(kind)) /\ (kind = "asset" => IsSynced(r))
      BY <1>3, SavedFilled
    <3> QED BY <3>1
  <2> HIDE DEF row
  <2> QED BY <1>1, <1>2, <2>1, RowSet
<1>6. CASE SaveNode(n, kind, field, to)
  <2>1. Edit(SetAlternative(store, store.activeAlt, ApplyFlows(b, Edges, today))) /\ quote' = quote
    BY <1>6, Zenon DEF SaveNode
  <2> HIDE DEF b
  <2>2. Filled(ApplyFlows(b, Edges, today))
    BY <1>1, <1>5, FlowsFilled
  <2> QED BY <2>1, <2>2, ActiveValues
<1>7. CASE CheckIn(n, kind, field, to)
  <2> DEFINE p == SetAlternative(store, store.activeAlt, b)
  <2>1. Edit(WithCheckpoint(p, store.activeAlt)) /\ quote' = quote
    BY <1>7, Zenon DEF CheckIn
  <2> HIDE DEF b
  <2>2. Sound(p) /\ store.activeAlt \in DOMAIN p.alternatives
    <3>1. p.alternatives = Put(store.alternatives, store.activeAlt, b)
      BY <1>1 DEF SetAlternative, Sound, PlanFields
    <3> QED BY <1>1, <1>5, <3>1, SetSound DEF Put
  <2> HIDE DEF p
  <2>3. Sound(WithCheckpoint(p, store.activeAlt))
    BY <1>1, <2>2, CheckpointSound
  <2> QED BY <2>1, <2>3, EditValues
<1> QED BY <1>4, <1>6, <1>7

\* The flows.
LEMMA FlowValues ==
  ASSUME KeptInv, ValuesInv,
         \/ \E from, to : \E form \in FlowForms : CreateFlow(from, to, form)
         \/ \E i : \E form \in FlowForms : EditFlow(i, form)
         \/ \E i : DeleteFlow(i)
         \/ ArrangeNodes
  PROVE  ValuesInv'
<1> PICK F : Good(store, F)
  BY DEF KeptInv
<1>1. IsEdges(Edges) /\ Sound(store) /\ IsSequence(Edges) /\ today \in Nat
  BY ActiveSound DEF ValuesInv, IsEdges
<1>2. ASSUME NEW edges, IsEdges(edges), NEW applied, Edit(UpdatePipeline(edges, applied)),
             quote' = quote
      PROVE  ValuesInv'
  <2>1. Sound(UpdatePipeline(edges, applied))
    BY <1>1, <1>2, PipelineSound
  <2> QED BY <1>2, <2>1, EditValues
<1>3. ASSUME NEW from, NEW to, NEW form \in FlowForms, CreateFlow(from, to, form)
      PROVE  ValuesInv'
  <2> DEFINE edge == [from |-> from, to |-> to, mode |-> "", amount |-> 0, freq |-> "",
                      recur |-> "none", slipped |-> FALSE,
                      ends |-> <<RowAt(Alt, from).id, RowAt(Alt, to).id>>]
             new == Entered(edge, form)
             edges == Append(Edges, new)
  <2>1. Edit(UpdatePipeline(edges, TRUE)) /\ quote' = quote
    BY <1>3 DEF CreateFlow
  <2>2. {"from", "to", "mode", "amount", "freq", "recur"} \subseteq DOMAIN edge
    OBVIOUS
  <2> HIDE DEF edge
  <2>3. IsEdge(new)
    BY <2>2, EnteredEdge
  <2> HIDE DEF new
  <2>4. /\ IsSequence(edges) /\ DOMAIN edges = 1 .. Len(Edges) + 1
        /\ \A i \in DOMAIN Edges : edges[i] = Edges[i]
        /\ edges[Len(Edges) + 1] = new
    BY <1>1, Appended
  <2>5. \A i \in 1 .. Len(Edges) + 1 : i \in DOMAIN Edges \/ i = Len(Edges) + 1
    BY <1>1, Sequence
  <2> HIDE DEF edges
  <2>6. IsEdges(edges)
    BY <1>1, <2>3, <2>4, <2>5, EdgesFrom
  <2> QED BY <1>2, <2>1, <2>6
<1>4. ASSUME NEW i, NEW form \in FlowForms, EditFlow(i, form)
      PROVE  ValuesInv'
  <2> DEFINE edges == [Edges EXCEPT ![i] = Entered(@, form)]
  <2>1. i \in DOMAIN Edges /\ Edit(UpdatePipeline(edges, TRUE)) /\ quote' = quote
    BY <1>4 DEF EditFlow
  <2>2. /\ DOMAIN edges = DOMAIN Edges /\ edges[i] = Entered(Edges[i], form)
        /\ \A j \in DOMAIN Edges \ {i} : edges[j] = Edges[j]
        /\ edges = [j \in DOMAIN edges |-> edges[j]]
    BY <1>1, <2>1 DEF IsSequence
  <2>3. IsEdge(Entered(Edges[i], form))
    BY <1>1, <2>1, EnteredEdge DEF IsEdges, IsEdge
  <2> HIDE DEF edges
  <2>4. IsSequence(edges)
    BY <1>1, <2>2, Sequence, Listed
  <2>5. IsEdges(edges)
    BY <1>1, <2>2, <2>3, <2>4, EdgesFrom
  <2> QED BY <1>2, <2>1, <2>5
<1>5. ASSUME NEW i, DeleteFlow(i) PROVE ValuesInv'
  <2> DEFINE edges == Removed(Edges, i)
  <2>1. i \in DOMAIN Edges /\ Edit(UpdatePipeline(edges, TRUE)) /\ quote' = quote
    BY <1>5 DEF DeleteFlow
  <2>2. /\ IsSequence(edges)
        /\ \A j \in DOMAIN edges : \E m \in DOMAIN Edges : edges[j] = Edges[m]
    BY <1>1, <2>1, ElementRemoved
  <2> HIDE DEF edges
  <2>3. IsEdges(edges)
    BY <1>1, <2>2, EdgesFrom
  <2> QED BY <1>2, <2>1, <2>3
<1>6. ASSUME ArrangeNodes PROVE ValuesInv'
  BY <1>1, <1>2, <1>6 DEF ArrangeNodes
<1> QED BY <1>3, <1>4, <1>5, <1>6

\* The other fields.
LEMMA OtherValues ==
  ASSUME ValuesInv,
         \/ \E name : SelectAlternative(name) \/ ToggleChart(name)
         \/ \E augments : SetAugments(augments)
         \/ \E goals : SetGoals(goals)
         \/ SwitchMonthly \/ Resample
  PROVE  ValuesInv'
<1>1. DOMAIN store = PlanFields
  BY DEF ValuesInv, Sound
<1>2. ASSUME NEW name, SelectAlternative(name) PROVE ValuesInv'
  <2> DEFINE q == [store EXCEPT !.activeAlt = name]
  <2>1. Edit(q) /\ quote' = quote
    BY <1>2 DEF SelectAlternative
  <2>2. /\ DOMAIN q = PlanFields /\ q.alternatives = store.alternatives
        /\ q.byAlt = store.byAlt /\ q.checkpoints = store.checkpoints
    BY <1>1 DEF PlanFields
  <2> HIDE DEF q
  <2> QED BY <2>1, <2>2, FieldsValues
<1>3. ASSUME NEW name, ToggleChart(name) PROVE ValuesInv'
  <2> DEFINE q == [store EXCEPT !.altChartEnabled = Put(@, name, ~At(@, name, FALSE))]
  <2>1. Edit(q) /\ quote' = quote
    BY <1>3 DEF ToggleChart
  <2>2. /\ DOMAIN q = PlanFields /\ q.alternatives = store.alternatives
        /\ q.byAlt = store.byAlt /\ q.checkpoints = store.checkpoints
    BY <1>1 DEF PlanFields
  <2> HIDE DEF q
  <2> QED BY <2>1, <2>2, FieldsValues
<1>4. ASSUME NEW augments, SetAugments(augments) PROVE ValuesInv'
  <2> DEFINE q == [store EXCEPT !.augments = augments]
  <2>1. Edit(q) /\ quote' = quote
    BY <1>4 DEF SetAugments
  <2>2. /\ DOMAIN q = PlanFields /\ q.alternatives = store.alternatives
        /\ q.byAlt = store.byAlt /\ q.checkpoints = store.checkpoints
    BY <1>1 DEF PlanFields
  <2> HIDE DEF q
  <2> QED BY <2>1, <2>2, FieldsValues
<1>5. ASSUME NEW goals, SetGoals(goals) PROVE ValuesInv'
  <2> DEFINE q == [store EXCEPT !.goals = Put(@, store.activeAlt, goals)]
  <2>1. Edit(q) /\ quote' = quote
    BY <1>5 DEF SetGoals
  <2>2. /\ DOMAIN q = PlanFields /\ q.alternatives = store.alternatives
        /\ q.byAlt = store.byAlt /\ q.checkpoints = store.checkpoints
    BY <1>1 DEF PlanFields
  <2> HIDE DEF q
  <2> QED BY <2>1, <2>2, FieldsValues
<1>6. ASSUME SwitchMonthly PROVE ValuesInv'
  <2> DEFINE q == [store EXCEPT !.autoMonthly = ~@]
  <2>1. Edit(q) /\ quote' = quote
    BY <1>6 DEF SwitchMonthly
  <2>2. /\ DOMAIN q = PlanFields /\ q.alternatives = store.alternatives
        /\ q.byAlt = store.byAlt /\ q.checkpoints = store.checkpoints
    BY <1>1 DEF PlanFields
  <2> HIDE DEF q
  <2> QED BY <2>1, <2>2, FieldsValues
<1>7. ASSUME Resample PROVE ValuesInv'
  <2> DEFINE q == Resampled(store)
  <2>1. Edit(q) /\ quote' = quote
    BY <1>7 DEF Resample
  <2>2. /\ DOMAIN q = PlanFields /\ q.alternatives = store.alternatives
        /\ q.byAlt = store.byAlt /\ q.checkpoints = store.checkpoints
    BY <1>1 DEF Resampled, PlanFields
  <2> HIDE DEF q
  <2> QED BY <2>1, <2>2, FieldsValues
<1> QED BY <1>2, <1>3, <1>4, <1>5, <1>6, <1>7

\* A checkpoint that is saved is one a projection can start from.
LEMMA SaveCheckpointValues ==
  ASSUME KeptInv, ValuesInv, SaveCheckpoint
  PROVE  ValuesInv'
<1> PICK F : Good(store, F)
  BY DEF KeptInv
<1>1. Sound(WithCheckpoint(store, store.activeAlt))
  BY ActiveSound, CheckpointSound DEF ValuesInv
<1> QED BY <1>1, EditValues DEF SaveCheckpoint

\* A late quote.
LEMMA QuoteValues ==
  ASSUME KeptInv, ValuesInv, NEW price \in Prices, QuoteArrives(price)
  PROVE  ValuesInv'
<1> DEFINE name == quote.name
           there == name \in DOMAIN store.alternatives
           same == there /\ Ids(store.alternatives[name]) = Ids(quote.alt)
           row == Quoted(quote.alt.asset[quote.n], price)
           alt == [quote.alt EXCEPT !["asset"][quote.n] = row]
           put == SetAlternative(store, name, alt)
           flows == store.byAlt[name]
           edges == [i \in DOMAIN flows.edges |-> [flows.edges[i] EXCEPT !.slipped = TRUE]]
           new == [flows EXCEPT !.edges = edges]
           slipped == [put EXCEPT !.byAlt = [put.byAlt EXCEPT ![name] = new]]
           q == IF same \/ name \notin DOMAIN put.byAlt THEN put ELSE slipped
<1>1. /\ quote.n \in DOMAIN quote.alt.asset /\ name \notin NoNames /\ Filled(quote.alt)
      /\ price \in Nat /\ Sound(store) /\ today \in Nat /\ left \in Lefts
  BY PlanningAssumption DEF QuoteArrives, KeptInv, QuoteTrue, ValuesInv
<1>2. DOMAIN put = PlanFields /\ put.byAlt = store.byAlt
  BY <1>1 DEF SetAlternative, Sound, PlanFields
<1>3. store' = Settled(q)
  <2> DEFINE q0 == IF same \/ name \notin DOMAIN put.byAlt THEN put
                   ELSE [put EXCEPT !.byAlt[name].edges =
                           [i \in DOMAIN @ |-> [@[i] EXCEPT !.slipped = TRUE]]]
  <2>1. store' = Settled(q0)
    BY Zenon DEF QuoteArrives
  <2>2. q0 = q
    BY <1>2, Zenon
  <2> QED BY <2>1, <2>2
<1>4. Filled(alt)
  <2>1. "asset" \in Kinds
    BY DEF Kinds
  <2>2. HasFields(quote.alt.asset[quote.n], AssetFields) /\ IsSynced(quote.alt.asset[quote.n])
    BY <1>1, <2>1 DEF Filled, HasRows, IsRows, FieldsOf
  <2>3. HasFields(row, AssetFields) /\ IsSynced(row)
    BY <1>1, <2>2, QuotedFilled
  <2> HIDE DEF row
  <2>4. HasFields(row, FieldsOf("asset"))
    BY <2>3 DEF FieldsOf
  <2> QED BY <1>1, <2>1, <2>3, <2>4, RowSet
<1> HIDE DEF alt
<1>5. Sound(put)
  BY <1>1, <1>4, SetSound
<1> HIDE DEF put
<1>6. ASSUME name \in DOMAIN put.byAlt PROVE Sound(slipped)
  <2>1. DOMAIN flows = {"owner", "edges"} /\ IsEdges(flows.edges)
    BY <1>1, <1>2, <1>6 DEF Sound
  <2>2. IsEdges(edges)
    <3> DEFINE old == flows.edges
    <3>1. /\ DOMAIN edges = DOMAIN old /\ edges = [i \in DOMAIN edges |-> edges[i]]
          /\ \A i \in DOMAIN old : edges[i] = [old[i] EXCEPT !.slipped = TRUE]
      OBVIOUS
    <3> HIDE DEF edges
    <3>2. ASSUME NEW i \in DOMAIN edges PROVE IsEdge(edges[i])
      <4>1. IsEdge(old[i]) /\ edges[i] = [old[i] EXCEPT !.slipped = TRUE]
        BY <2>1, <3>1 DEF IsEdges
      <4>2. IsEdge([old[i] EXCEPT !.slipped = TRUE])
        BY <4>1, EdgeSlipped
      <4> QED BY <4>1, <4>2
    <3>3. IsSequence(edges)
      BY <2>1, <3>1, Sequence, Listed DEF IsEdges
    <3> QED BY <3>2, <3>3 DEF IsEdges
  <2>3. DOMAIN new = {"owner", "edges"} /\ new.edges = edges
    BY <2>1
  <2> HIDE DEF new, edges
  <2>4. /\ DOMAIN slipped = PlanFields /\ slipped.alternatives = put.alternatives
        /\ slipped.checkpoints = put.checkpoints
        /\ slipped.byAlt = [put.byAlt EXCEPT ![name] = new]
    BY <1>2 DEF PlanFields
  <2> HIDE DEF slipped
  <2>5. TypedFlows(slipped.byAlt)
    BY <1>5, <2>2, <2>3, <2>4 DEF TypedFlows, Sound
  <2> QED BY <1>5, <2>4, <2>5, SoundIs
<1> HIDE DEF slipped, same
<1>7. Sound(q)
  BY <1>5, <1>6
<1> HIDE DEF q
<1>8. Sound(store')
  BY <1>1, <1>3, <1>7, SettledSound
<1>9. quote' = NoQuote /\ today' = today /\ left' = left
  BY DEF QuoteArrives
<1> QED BY <1>1, <1>8, <1>9 DEF ValuesInv, Sound, Filled, Observed, NoQuote

\* The Accounts screen.
LEMMA AccountsValues == KeptInv /\ ValuesInv /\ EditAccounts => ValuesInv'
<1> SUFFICES ASSUME KeptInv, ValuesInv, EditAccounts PROVE ValuesInv'
  OBVIOUS
<1>1. ASSUME NEW name, SelectAlternative(name) \/ DeleteAlternative(name) \/ NewAlternative
      PROVE  ValuesInv'
  BY <1>1, OtherValues, DeleteValues, NewValues, Zenon
<1>2. ASSUME NEW name \in TypedNames, CloneAlternative(name) \/ RenameAlternative(name)
      PROVE  ValuesInv'
  BY <1>2, CloneValues, RenameValues
<1>3. ASSUME NEW kind \in Kinds, AddRow(kind) \/ \E n : DeleteRow(kind, n)
      PROVE  ValuesInv'
  BY <1>3, RowValues
<1>4. ASSUME NEW c \in DOMAIN Changes, NEW to \in Changes[c], NEW n, EditCell(n, c[1], c[2], to)
      PROVE  ValuesInv'
  <2>1. c[1] \in Kinds /\ to \in ValuesOf(c[2])
    BY PlanningAssumption
  <2> QED BY <1>4, <2>1, EditedRowValues
<1> QED BY <1>1, <1>2, <1>3, <1>4, AskValues, Zenon DEF EditAccounts, EditRow

\* The Pipeline Builder.
LEMMA PipelineValues == KeptInv /\ ValuesInv /\ EditPipeline => ValuesInv'
<1> SUFFICES ASSUME KeptInv, ValuesInv, EditPipeline PROVE ValuesInv'
  OBVIOUS
<1>1. ASSUME NEW kind \in Kinds, AddNode(kind) \/ \E n : DeleteNode(kind, n)
      PROVE  ValuesInv'
  BY <1>1, RowValues, NodeValues
<1>2. ASSUME NEW c \in DOMAIN Changes, NEW to \in Changes[c], NEW n, SaveNode(n, c[1], c[2], to)
      PROVE  ValuesInv'
  <2>1. c[1] \in Kinds /\ to \in ValuesOf(c[2])
    BY PlanningAssumption
  <2> QED BY <1>2, <2>1, EditedRowValues
<1>3. ASSUME \/ \E from, to : \E form \in FlowForms : CreateFlow(from, to, form)
             \/ \E i : \E form \in FlowForms : EditFlow(i, form)
             \/ \E i : DeleteFlow(i)
             \/ ArrangeNodes
      PROVE  ValuesInv'
  BY <1>3, FlowValues
<1> QED BY <1>1, <1>2, <1>3, Zenon DEF EditPipeline, EditRow

\* The rest of the screens.
LEMMA OthersValues == KeptInv /\ ValuesInv /\ EditOther => ValuesInv'
<1> SUFFICES ASSUME KeptInv, ValuesInv, EditOther PROVE ValuesInv'
  OBVIOUS
<1>1. CASE AddGoal \/ RemoveGoal
  BY <1>1, OtherValues DEF AddGoal, RemoveGoal
<1>2. CASE AddAugment \/ RemoveAugment \/ ToggleAugment
  BY <1>2, OtherValues DEF AddAugment, RemoveAugment, ToggleAugment
<1>3. CASE SaveCheckpoint \/ SwitchMonthly
  BY <1>3, OtherValues, SaveCheckpointValues
<1>4. CASE MonthPasses
  <2>1. today' \in Nat
    BY <1>4 DEF MonthPasses, ValuesInv
  <2>2. left' \in Lefts
    BY <1>4, LeftLess DEF MonthPasses, ValuesInv
  <2> QED BY <1>4, <2>1, <2>2, ValuesStay DEF MonthPasses
<1> QED BY <1>1, <1>2, <1>3, <1>4 DEF EditOther

\* The dashboard.
LEMMA OnDashboardValues == KeptInv /\ ValuesInv /\ EditOnDashboard => ValuesInv'
<1> SUFFICES ASSUME KeptInv, ValuesInv, EditOnDashboard PROVE ValuesInv'
  OBVIOUS
<1>1. ASSUME NEW name, ToggleChart(name) \/ ToggleAugment \/ Resample
      PROVE  ValuesInv'
  BY <1>1, OtherValues DEF ToggleAugment
<1>2. ASSUME NEW c \in DOMAIN Changes, NEW to \in Changes[c], NEW n, CheckIn(n, c[1], c[2], to)
      PROVE  ValuesInv'
  <2>1. c[1] \in Kinds /\ to \in ValuesOf(c[2])
    BY PlanningAssumption
  <2> QED BY <1>2, <2>1, EditedRowValues
<1> QED BY <1>1, <1>2, Zenon DEF EditOnDashboard, EditRow

\* Every step.
LEMMA ValuesStep ==
  KeptInv /\ ValuesInv /\ [DashboardNext]_<<ledgerVars, allPlanVars, dashboardVars>>
    => ValuesInv'
<1> SUFFICES ASSUME KeptInv, ValuesInv,
                    [DashboardNext]_<<ledgerVars, allPlanVars, dashboardVars>>
             PROVE  ValuesInv'
  OBVIOUS
<1>0. today \in Nat /\ left \in Lefts
  BY DEF ValuesInv
<1>1. CASE EditElsewhere
  BY <1>1, AccountsValues, PipelineValues, OthersValues, QuoteValues
  DEF EditElsewhere, EditPlan
<1>2. CASE EditHere
  BY <1>2, OnDashboardValues, QuoteValues DEF EditHere
<1>3. CASE Open
  <2>1. left' \in Lefts
    BY <1>0, <1>3, LeftLess DEF Open
  <2> QED BY <1>0, <1>3, <2>1, ValuesStay DEF Open, planVars
<1>4. CASE Leave \/ Refine \/ Retry
  BY <1>0, <1>4, ValuesStay DEF Leave, Refine, Retry, planVars, allPlanVars
<1>5. ASSUME NEW chosen \in Settings, Choose(chosen) PROVE ValuesInv'
  <2>1. left' \in Lefts
    BY <1>0, <1>5, LeftLess DEF Choose
  <2> QED BY <1>0, <1>5, <2>1, ValuesStay DEF Choose, planVars
<1>6. CASE Work
  <2>1. left' \in Lefts
    BY <1>0, <1>6, LeftLess DEF Work, WorkerAnswers, WorkerThrows, WorkerDies, Fails
  <2> QED BY <1>0, <1>6, <2>1, ValuesStay DEF Work, planVars
<1>7. CASE ProjectOnly
  BY <1>0, <1>7, ValuesStay
  DEF ProjectOnly, Projection, Project, ProjectPlan, planVars, allPlanVars
<1>8. CASE UNCHANGED <<ledgerVars, allPlanVars, dashboardVars>>
  BY <1>0, <1>8, ValuesStay DEF planVars, allPlanVars
<1>9. CASE Wait
  <2>1. today' \in Nat
    BY <1>0, <1>9 DEF Wait, MonthPasses
  <2>2. left' \in Lefts
    BY <1>0, <1>9, LeftLess DEF Wait, MonthPasses
  <2> QED BY <1>9, <2>1, <2>2, ValuesStay DEF Wait, MonthPasses
<1> QED BY <1>1, <1>2, <1>3, <1>4, <1>5, <1>6, <1>7, <1>8, <1>9 DEF DashboardNext

\* A session starts with a plan that holds what it should.
LEMMA InitValues == DashboardInit => ValuesInv
<1> SUFFICES ASSUME DashboardInit PROVE ValuesInv
  OBVIOUS
<1>1. PICK s \in Sessions : PlanInit(s)
  BY DEF DashboardInit
<1> DEFINE p == s.plan
<1>2. /\ IsPlan(p) /\ HasValues(p) /\ DOMAIN p.alternatives \cap NoNames = {}
      /\ s.left \in Lefts
  BY PlanningAssumption DEF Lefts
<1> HIDE DEF p
<1>3. Sound(p)
  <2>1. \A m \in DOMAIN p.alternatives : Filled(p.alternatives[m])
    BY <1>2 DEF IsPlan, IsAlternative, HasValues, Filled
  <2>2. \A m \in DOMAIN p.byAlt :
          DOMAIN p.byAlt[m] = {"owner", "edges"} /\ IsEdges(p.byAlt[m].edges)
    BY <1>2 DEF IsPlan, HasValues
  <2>3. \A m \in DOMAIN p.checkpoints : Observed(p.checkpoints[m])
    BY <1>2 DEF IsPlan, HasValues, Observed
  <2> QED BY <1>2, <2>1, <2>2, <2>3 DEF Sound, IsPlan
<1>4. today = 0 /\ quote = NoQuote /\ left = s.left /\ (store = p \/ store = Settled(p))
  BY <1>1 DEF PlanInit, p
<1>5. Sound(store)
  BY <1>3, <1>4, SettledSound
<1> QED BY <1>2, <1>4, <1>5 DEF ValuesInv

-----------------------------------------------------------------------------
(* The projection is one of Ledger.                                        *)

\* What is edited can be projected.
LEMMA ScenarioProjectable ==
  ASSUME ValuesInv, NEW name \in DOMAIN store.alternatives
  PROVE  Projectable(ScenarioOf(name))
<1> DEFINE alt == store.alternatives[name]
           cps == CheckpointsOf(store, name)
           edges == PipelineOf(store, name).edges
           cp == IF cps = << >> THEN NoCheckpoint ELSE cps[Len(cps)]
           augment == IF store.augments = <<TRUE>> THEN LifeEvent ELSE NoAugment
<1>1. Filled(alt)
  BY DEF ValuesInv, Sound
<1>2. IsEdges(edges)
  <2>1. CASE name \in DOMAIN store.byAlt
    BY <2>1 DEF ValuesInv, Sound, PipelineOf, At
  <2>2. CASE name \notin DOMAIN store.byAlt
    <3>1. edges = << >>
      BY <2>2 DEF PipelineOf, At, NoFlows
    <3> QED BY <3>1 DEF IsEdges, IsSequence
  <2> QED BY <2>1, <2>2
<1>3. IsCheckpoint(cp)
  <2>1. CASE cps = << >>
    <3>1. IsCheckpoint(NoCheckpoint)
      BY DEF IsCheckpoint, NoCheckpoint
    <3> QED BY <2>1, <3>1
  <2>2. CASE cps # << >>
    <3>1. name \in DOMAIN store.checkpoints /\ cps = store.checkpoints[name]
      BY <2>2 DEF CheckpointsOf, At
    <3>2. Observed(cps)
      BY <3>1 DEF ValuesInv, Sound
    <3>3. Len(cps) \in DOMAIN cps
      <4> HIDE DEF cps
      <4> QED BY <2>2, <3>2, Sequence DEF Observed
    <3> HIDE DEF cps
    <3> QED BY <2>2, <3>2, <3>3 DEF Observed
  <2> QED BY <2>1, <2>2
<1>4. augment.halves \in Int
  <2>1. NoAugment.halves \in Int
    BY DEF NoAugment
  <2> QED BY <2>1, PlanningAssumption
<1> HIDE DEF cps, cp, edges, augment, alt
<1> PICK s : s = ScenarioOf(name)
  OBVIOUS
<1>5. /\ DOMAIN s = Kinds \union {"start", "today", "days", "inflation", "checkpoint",
                                  "edges", "augment"}
      /\ s.start = Start /\ s.today = today /\ s.days = Days /\ s.inflation = Growth
      /\ s.checkpoint = cp /\ s.edges = edges
      /\ s.augment = augment /\ s.income = alt.income /\ s.expense = alt.expense
      /\ s.asset = alt.asset /\ s.debt = alt.debt
  BY DEF ScenarioOf, Kinds, alt, cps, cp, edges, augment
<1>6. \A kind \in Kinds : s[kind] = alt[kind]
  BY <1>5 DEF Kinds
<1>7. today \in Int
  BY DEF ValuesInv
<1> QED BY <1>1, <1>2, <1>3, <1>4, <1>5, <1>6, <1>7, PlanningAssumption
        DEF Projectable, Filled, HasRows

\* Every step beside the screens is one of a projection.
LEMMA DashboardStepped ==
  ValuesInv /\ [DashboardNext]_<<ledgerVars, allPlanVars, dashboardVars>> => Stepped
<1> SUFFICES ASSUME ValuesInv, [DashboardNext]_<<ledgerVars, allPlanVars, dashboardVars>>
             PROVE  Stepped
  OBVIOUS
<1>1. CASE ~ProjectOnly
  <2>1. UNCHANGED ledgerVars
    BY <1>1
    DEF DashboardNext, EditElsewhere, EditHere, Open, Leave, Refine, Retry, Choose, Wait, Work
  <2> QED BY <2>1 DEF ledgerVars, Stepped
<1>2. ASSUME NEW name \in DOMAIN store.alternatives, Project(name) PROVE Stepped
  BY <1>2, ScenarioProjectable DEF Project, Stepped
<1>3. ASSUME NEW p \in Plans, ProjectPlan(p) PROVE Stepped
  BY <1>3, LedgerAssumption DEF ProjectPlan, Stepped
<1>4. CASE Run
  BY <1>4 DEF Stepped
<1> QED BY <1>1, <1>2, <1>3, <1>4 DEF ProjectOnly, Projection

-----------------------------------------------------------------------------
(* What Ledger promises of a plan holds of the projections of a session.   *)

\* A session starts with it.
LEMMA DashInit == DashboardInit => DashInv
  BY InitKept, InitValues DEF DashInv

\* Every step of a session keeps it.
LEMMA DashStep ==
  DashInv /\ [DashboardNext]_<<ledgerVars, allPlanVars, dashboardVars>> => DashInv'
  BY KeptStep, ValuesStep DEF DashInv

\* A flow that is due every month fires once in each, whatever was edited.
THEOREM OnceAMonthInASession == DashboardSpec => []FiresOnceAMonth
<1>1. DashboardInit => DashInv /\ RunInv /\ FiredInv
  <2>1. Init => FiredInv
    BY DEF Init, FiredInv, Built
  <2> QED BY <2>1, DashInit, InitRun DEF DashboardInit
<1>2. DashInv /\ RunInv /\ FiredInv
        /\ [DashboardNext]_<<ledgerVars, allPlanVars, dashboardVars>>
      => (DashInv /\ RunInv /\ FiredInv)'
  BY DashStep, DashboardStepped, RunStep, FiredStep DEF DashInv
<1> QED BY <1>1, <1>2, FiredSuffices, PTL DEF DashboardSpec

\* The books of the projection of what was edited balance.
THEOREM NothingIsLostInASession == DashboardSpec => []BooksBalance
<1>1. DashboardInit => DashInv /\ RunInv /\ BooksInv
  <2>1. Init => BooksInv
    BY DEF Init, BooksInv, Built
  <2> QED BY <2>1, DashInit, InitRun DEF DashboardInit
<1>2. DashInv /\ RunInv /\ BooksInv
        /\ [DashboardNext]_<<ledgerVars, allPlanVars, dashboardVars>>
      => (DashInv /\ RunInv /\ BooksInv)'
  BY DashStep, DashboardStepped, RunStep, BooksStep DEF DashInv
<1> QED BY <1>1, <1>2, BooksSuffice, PTL DEF DashboardSpec

-----------------------------------------------------------------------------
(***************************************************************************)
(* More about sums.                                                        *)
(***************************************************************************)

\* Numbers among which others stand one after the other, and else zeros.
LEMMA SumShifted ==
  ASSUME NEW ns \in Seq(Int), NEW vs \in Seq(Int), NEW d \in Nat, d + Len(vs) <= Len(ns),
         \A i \in 1 .. Len(ns) :
           ns[i] = IF d < i /\ i <= d + Len(vs) THEN vs[i - d] ELSE 0
  PROVE  Total(ns) = Total(vs) /\ Total(vs) \in Int
<1> DEFINE N == Len(ns)
           M == Len(vs)
<1>1. N \in Nat /\ M \in Nat /\ d + M <= N /\ \A i \in 1 .. M : vs[i] \in Int
  OBVIOUS
<1>2. PICK s : Sums(ns, s)
  BY Summed
<1>3. PICK t : Sums(vs, t)
  BY Summed
<1>4. /\ s \in [0 .. N -> Int] /\ s[0] = 0 /\ Total(ns) = s[N]
      /\ \A n \in 1 .. N : s[n] = s[n - 1] + ns[n]
  BY <1>2 DEF Sums
<1>5. /\ t \in [0 .. M -> Int] /\ t[0] = 0 /\ Total(vs) = t[M]
      /\ \A n \in 1 .. M : t[n] = t[n - 1] + vs[n]
  BY <1>3 DEF Sums
<1>6. \A i \in 1 .. N : ns[i] = IF d < i /\ i <= d + M THEN vs[i - d] ELSE 0
  OBVIOUS
<1> HIDE DEF N, M
<1> DEFINE upTo(n) == IF n <= d THEN 0 ELSE IF n <= d + M THEN t[n - d] ELSE t[M]
           T == {n \in Nat : n <= N => s[n] = upTo(n)}
<1>7. 0 \in T
  BY <1>4
<1>8. ASSUME NEW n \in Nat \cap T PROVE n + 1 \in T
  <2> SUFFICES ASSUME n + 1 <= N PROVE s[n + 1] = upTo(n + 1)
    OBVIOUS
  <2>1. n + 1 \in 1 .. N /\ (n + 1) - 1 = n /\ s[n] = upTo(n)
    BY <1>1
  <2>2. s[n + 1] = s[n] + ns[n + 1]
    BY <1>4, <2>1
  <2>3. t[M] \in Int /\ t[0] = 0
    BY <1>1, <1>5
  <2>4. CASE n + 1 <= d
    <3>1. ns[n + 1] = 0
      BY <1>6, <2>1, <2>4
    <3> QED BY <2>1, <2>2, <2>4, <3>1
  <2>5. CASE n + 1 > d /\ n + 1 <= d + M
    <3>1. (n + 1) - d \in 1 .. M /\ ((n + 1) - d) - 1 = n - d
      BY <1>1, <2>5
    <3>2. ns[n + 1] = vs[(n + 1) - d]
      BY <1>6, <2>1, <2>5
    <3>3. t[(n + 1) - d] = t[n - d] + vs[(n + 1) - d]
      BY <1>5, <3>1
    <3>4. s[n] = t[n - d]
      BY <1>1, <2>1, <2>3, <2>5
    <3> QED BY <2>2, <2>5, <3>2, <3>3, <3>4
  <2>6. CASE n + 1 > d + M
    <3>1. ~(n + 1 <= d + M) /\ n \in Nat /\ n >= d + M
      BY <1>1, <2>6
    <3>0. ns[n + 1] = 0
      BY <1>6, <2>1, <3>1
    <3>2. s[n] = t[M]
      <4>1. CASE n <= d
        <5>1. n = d /\ M = 0
          BY <1>1, <3>1, <4>1
        <5> QED BY <2>1, <2>3, <4>1, <5>1
      <4>2. CASE ~(n <= d) /\ n <= d + M
        <5>1. n - d = M
          BY <1>1, <3>1, <4>2
        <5> QED BY <2>1, <4>2, <5>1
      <4>3. CASE ~(n <= d) /\ ~(n <= d + M)
        BY <2>1, <4>3
      <4> QED BY <4>1, <4>2, <4>3
    <3>3. upTo(n + 1) = t[M]
      BY <1>1, <2>6
    <3> QED BY <2>2, <2>3, <3>0, <3>2, <3>3
  <2> QED BY <1>1, <2>4, <2>5, <2>6
<1> HIDE DEF T
<1>9. Nat \subseteq T
  BY <1>7, <1>8, Induction
<1>10. s[N] = upTo(N)
  <2>1. N \in T /\ N <= N
    BY <1>1, <1>9
  <2> HIDE DEF upTo
  <2> QED BY <2>1 DEF T
<1>11. s[N] = t[M] /\ t[M] \in Int
  <2>1. t[M] \in Int /\ t[0] = 0
    BY <1>1, <1>5
  <2>2. CASE N <= d
    <3>1. M = 0
      BY <1>1, <2>2
    <3> QED BY <1>10, <2>1, <2>2, <3>1
  <2>3. CASE ~(N <= d) /\ N <= d + M
    <3>1. N - d = M
      BY <1>1, <2>3
    <3> QED BY <1>10, <2>1, <2>3, <3>1
  <2>4. CASE ~(N <= d) /\ ~(N <= d + M)
    BY <1>10, <2>1, <2>4
  <2> QED BY <2>2, <2>3, <2>4
<1> QED BY <1>4, <1>5, <1>11

\* Zeros add up to nothing.
LEMMA SumOfZeros ==
  ASSUME NEW ns \in Seq(Int), \A i \in 1 .. Len(ns) : ns[i] = 0
  PROVE  Total(ns) = 0
<1> PICK s : Sums(ns, s)
  BY Summed
<1> DEFINE N == Len(ns)
<1>1. N \in Nat /\ s \in [0 .. N -> Int] /\ s[0] \in {0} /\ Total(ns) = s[N]
      /\ \A n \in 1 .. N : s[n] = s[n - 1] + ns[n]
  BY DEF Sums
<1>2. \A n \in 1 .. N : ns[n] = 0
  OBVIOUS
<1> HIDE DEF N
<1>3. \A n \in 1 .. N : s[n - 1] \in {0} => s[n] \in {0}
  BY <1>1, <1>2
<1>4. \A n \in 0 .. N : s[n] \in {0}
  BY <1>1, <1>3, InductionUpTo, Zenon
<1>5. N \in 0 .. N
  BY <1>1
<1> QED BY <1>1, <1>4, <1>5

\* One number among zeros is the sum.
LEMMA SumOfOne ==
  ASSUME NEW ns \in Seq(Int), NEW n \in 1 .. Len(ns), \A i \in 1 .. Len(ns) : i # n => ns[i] = 0
  PROVE  Total(ns) = ns[n]
<1> DEFINE zeros == [i \in 1 .. Len(ns) |-> 0]
           vs == <<ns[n]>>
<1>1. vs \in Seq(Int) /\ Len(vs) = 1 /\ vs[1] = ns[n] /\ n - 1 \in Nat
      /\ (n - 1) + Len(vs) <= Len(ns)
  OBVIOUS
<1>2. \A i \in 1 .. Len(ns) :
        ns[i] = IF n - 1 < i /\ i <= (n - 1) + Len(vs) THEN vs[i - (n - 1)] ELSE 0
  BY <1>1
<1>3. PICK t : Sums(vs, t)
  BY <1>1, Summed
<1> HIDE DEF vs
<1>4. Total(ns) = Total(vs)
  BY <1>1, <1>2, SumShifted
<1>5. t[0] = 0 /\ t[1] = t[0] + vs[1] /\ Total(vs) = t[1] /\ vs[1] \in Int
  <2>1. 1 \in 1 .. 1 /\ 1 - 1 = 0
    OBVIOUS
  <2> QED BY <1>1, <1>3, <2>1 DEF Sums
<1> QED BY <1>1, <1>4, <1>5

\* The sum of two sequences, one after the other.
LEMMA SumJoined ==
  ASSUME NEW ns \in Seq(Int), NEW ms \in Seq(Int)
  PROVE  /\ Total(ns) \in Int /\ Total(ms) \in Int
         /\ Total(ns \o ms) = Total(ns) + Total(ms)
<1> DEFINE N == Len(ns)
           M == Len(ms)
           all == ns \o ms
<1>1. /\ N \in Nat /\ M \in Nat /\ all \in Seq(Int) /\ Len(all) = N + M
      /\ \A i \in 1 .. N : all[i] = ns[i]
      /\ \A i \in 1 .. M : all[N + i] = ms[i] /\ ms[i] \in Int
  OBVIOUS
<1>0. N \in Nat /\ M \in Nat /\ N + M \in Nat
  BY <1>1
<1>2. PICK s : Sums(ns, s)
  BY Summed
<1>3. PICK t : Sums(ms, t)
  BY Summed
<1> HIDE DEF all
<1>4. PICK u : Sums(all, u)
  BY <1>1, Summed
<1>5. /\ s \in [0 .. N -> Int] /\ s[0] = 0 /\ Total(ns) = s[N]
      /\ \A n \in 1 .. N : s[n] = s[n - 1] + ns[n]
  BY <1>2 DEF Sums
<1>6. /\ t \in [0 .. M -> Int] /\ t[0] = 0 /\ Total(ms) = t[M]
      /\ \A n \in 1 .. M : t[n] = t[n - 1] + ms[n]
  BY <1>3 DEF Sums
<1>7. /\ u \in [0 .. N + M -> Int] /\ u[0] = 0 /\ Total(all) = u[N + M]
      /\ \A n \in 1 .. N + M : u[n] = u[n - 1] + all[n]
  BY <1>1, <1>4 DEF Sums
<1> HIDE DEF N, M
<1> DEFINE T == {n \in Nat : n <= N => u[n] = s[n]}
<1>8. 0 \in T
  BY <1>5, <1>7
<1>9. ASSUME NEW n \in Nat \cap T PROVE n + 1 \in T
  <2> SUFFICES ASSUME n + 1 <= N PROVE u[n + 1] = s[n + 1]
    OBVIOUS
  <2>0. u[n] = s[n]
    BY <1>0
  <2>1. n + 1 \in 1 .. N /\ n + 1 \in 1 .. N + M /\ (n + 1) - 1 = n
    BY <1>0
  <2>2. all[n + 1] = ns[n + 1]
    BY <1>1, <2>1
  <2>3. u[n + 1] = u[n] + all[n + 1]
    BY <1>7, <2>1
  <2>4. s[n + 1] = s[n] + ns[n + 1]
    BY <1>5, <2>1
  <2> QED BY <2>0, <2>1, <2>2, <2>3, <2>4
<1> HIDE DEF T
<1>10. Nat \subseteq T
  BY <1>8, <1>9, Induction
<1>11. u[N] = s[N]
  <2>1. N \in T /\ N <= N
    BY <1>0, <1>10
  <2> QED BY <2>1 DEF T
<1> DEFINE R == {n \in Nat : n <= M => u[N + n] = s[N] + t[n]}
<1>12. 0 \in R
  <2>1. s[N] \in Int /\ N + 0 = N
    BY <1>1, <1>5
  <2> QED BY <1>6, <1>11, <2>1
<1>13. ASSUME NEW n \in Nat \cap R PROVE n + 1 \in R
  <2> SUFFICES ASSUME n + 1 <= M PROVE u[N + (n + 1)] = s[N] + t[n + 1]
    OBVIOUS
  <2>1. /\ n + 1 \in 1 .. M /\ (n + 1) - 1 = n /\ N + (n + 1) \in 1 .. N + M
        /\ (N + (n + 1)) - 1 = N + n /\ n \in 0 .. M
    BY <1>1
  <2>2. u[N + (n + 1)] = u[N + n] + all[N + (n + 1)]
    BY <1>7, <2>1
  <2>3. all[N + (n + 1)] = ms[n + 1] /\ ms[n + 1] \in Int
    BY <1>1, <2>1
  <2>4. t[n + 1] = t[n] + ms[n + 1]
    BY <1>6, <2>1
  <2>5. u[N + n] = s[N] + t[n]
    BY <2>1
  <2>6. s[N] \in Int /\ t[n] \in Int
    BY <1>1, <1>5, <1>6, <2>1
  <2> QED BY <2>2, <2>3, <2>4, <2>5, <2>6
<1> HIDE DEF R
<1>14. Nat \subseteq R
  BY <1>12, <1>13, Induction
<1>15. u[N + M] = s[N] + t[M]
  <2>1. M \in R /\ M <= M
    BY <1>0, <1>14
  <2> QED BY <2>1 DEF R
<1>16. s[N] \in Int /\ t[M] \in Int
  BY <1>1, <1>5, <1>6
<1> QED BY <1>5, <1>6, <1>7, <1>15, <1>16 DEF all

\* What is rounded to cents is off by no more than half a cent.
LEMMA RoundedNear ==
  ASSUME NEW n \in Int, NEW r, r = Round(n, MonthlyScale)
  PROVE  /\ r \in Int /\ 2 * (r * MonthlyScale - n) <= MonthlyScale
         /\ 2 * (n - r * MonthlyScale) <= MonthlyScale
  BY DEF Round, MonthlyScale

-----------------------------------------------------------------------------
(***************************************************************************)
(* What is projected.                                                      *)
(***************************************************************************)

\* Nothing is edited once something is projected.
LEMMA EditsComeFirst ==
  ASSUME DOMAIN store = PlanFields, NEW price,
         EditPlan \/ EditOnDashboard \/ QuoteArrives(price)
  PROVE  projected = "none" /\ projected' = "none"
<1>1. CASE EditAccounts
  BY <1>1, AccountsEdited DEF Committed
<1>2. CASE EditPipeline
  BY <1>2, PipelineEdited DEF Committed
<1>3. CASE EditOther
  BY <1>3, Zenon DEF EditOther, AddGoal, RemoveGoal, SetGoals, AddAugment, RemoveAugment,
     ToggleAugment, SetAugments, SaveCheckpoint, SwitchMonthly, MonthPasses, Edit
<1>4. CASE EditOnDashboard
  BY <1>4, DashboardEdited DEF Committed
<1>5. CASE QuoteArrives(price)
  BY <1>5, QuoteWritten DEF Committed
<1> QED BY <1>1, <1>2, <1>3, <1>4, <1>5 DEF EditPlan

\* The days of a run.
LEMMA RunGoesOn ==
  ASSUME Run
  PROVE  plan' = plan /\ phase # "unbuilt" /\ phase' # "unbuilt"
  BY DEF Run, Build, SeedCheckpoint, AddLumpSum, RunFlow, AddExtras, Accrue, PayDebt,
     FloorDebts, NextMorning, Turn

\* The scenario of a document that stays, on the same day.
LEMMA ScenarioSame ==
  ASSUME store' = store, projected' = projected, today' = today
  PROVE  ScenarioOf(projected)' = ScenarioOf(projected)
  BY Zenon DEF ScenarioOf, CheckpointsOf, PipelineOf, At, NoFlows

\* A step that leaves both the document and the plan.
LEMMA ProjectedStays ==
  ASSUME ProjectedInv, store' = store, projected' = projected, today' = today, plan' = plan,
         phase' = "unbuilt" <=> phase = "unbuilt"
  PROVE  ProjectedInv'
<1>1. ScenarioOf(projected)' = ScenarioOf(projected)
  BY ScenarioSame
<1>2. Routed(ScenarioOf(projected))' = Routed(ScenarioOf(projected))
  BY <1>1, Zenon DEF Routed
<1> QED BY <1>2 DEF ProjectedInv

\* Every step of a session keeps what is projected.
LEMMA ProjectedStep ==
  ProjectedInv /\ ValuesInv /\ [DashboardNext]_<<ledgerVars, allPlanVars, dashboardVars>>
    => ProjectedInv'
<1> SUFFICES ASSUME ProjectedInv, ValuesInv,
                    [DashboardNext]_<<ledgerVars, allPlanVars, dashboardVars>>
             PROVE  ProjectedInv'
  OBVIOUS
<1>1. ASSUME EditElsewhere \/ EditHere \/ Wait PROVE ProjectedInv'
  <2>1. DOMAIN store = PlanFields
    BY DEF ValuesInv, Sound
  <2>2. projected = "none" /\ projected' = "none"
    <3>1. CASE EditElsewhere \/ EditHere
      BY <2>1, <3>1, EditsComeFirst, Zenon DEF EditElsewhere, EditHere
    <3>2. CASE Wait
      BY <3>2 DEF Wait, MonthPasses
    <3> QED BY <1>1, <3>1, <3>2
  <2>3. phase' = phase
    BY <1>1 DEF EditElsewhere, EditHere, Wait, ledgerVars, vars
  <2> QED BY <2>2, <2>3 DEF ProjectedInv, NoNames
<1>2. CASE Open \/ Leave \/ Refine \/ Retry \/ Work \/ \E chosen \in Settings : Choose(chosen)
  BY <1>2, ProjectedStays
  DEF Open, Leave, Refine, Retry, Work, Choose, planVars, allPlanVars, ledgerVars, vars
<1>3. ASSUME NEW name \in DOMAIN store.alternatives, Project(name) PROVE ProjectedInv'
  <2>1. /\ projected' = name /\ store' = store /\ phase' = "clone" /\ today' = today
        /\ plan' = Routed(ScenarioOf(name))
    BY <1>3 DEF Project, Clone
  <2>2. ScenarioOf(projected)' = ScenarioOf(name)
    BY <2>1, Zenon DEF ScenarioOf, CheckpointsOf, PipelineOf, At, NoFlows
  <2>3. Routed(ScenarioOf(projected))' = Routed(ScenarioOf(name))
    BY <2>2, Zenon DEF Routed
  <2>4. name \notin NoNames
    BY DEF ValuesInv, Sound
  <2> QED BY <2>1, <2>3, <2>4 DEF ProjectedInv, NoNames
<1>4. ASSUME NEW p \in Plans, ProjectPlan(p) PROVE ProjectedInv'
  BY <1>4 DEF ProjectPlan, Clone, ProjectedInv, NoNames, allPlanVars, planVars
<1>5. CASE Run /\ UNCHANGED allPlanVars
  BY <1>5, RunGoesOn, ProjectedStays DEF allPlanVars, planVars
<1>6. CASE UNCHANGED <<ledgerVars, allPlanVars, dashboardVars>>
  BY <1>6, ProjectedStays DEF planVars, allPlanVars, ledgerVars, vars
<1> QED BY <1>1, <1>2, <1>3, <1>4, <1>5, <1>6 DEF DashboardNext, ProjectOnly, Projection

\* At first nothing is projected.
LEMMA InitProjected == DashboardInit => ProjectedInv
  BY DEF DashboardInit, Init, PlanInit, ProjectedInv, NoNames

\* Every step of a projection keeps where it starts.
LEMMA StartStep == RunInv /\ BooksInv /\ StartInv /\ Stepped => StartInv'
<1> SUFFICES ASSUME RunInv, BooksInv, StartInv, Stepped PROVE StartInv'
  OBVIOUS
<1>1. CASE UNCHANGED vars
  <2>1. plan' = plan /\ phase' = phase /\ day' = day /\ balance' = balance
    BY <1>1 DEF vars, books
  <2>2. Accounts' = Accounts /\ \A a : SeededBalance(a)' = SeededBalance(a)
    BY <2>1, PlanSame
  <2> QED BY <2>1, <2>2 DEF StartInv
<1>2. CASE \E p : Projectable(p) /\ Clone(p)
  BY <1>2 DEF Clone, StartInv
<1>3. CASE Build
  <2>1. plan' = plan /\ balance' = [a \in Accounts |-> SeededBalance(a)]
    BY <1>3 DEF Build
  <2>2. Accounts' = Accounts /\ \A a : SeededBalance(a)' = SeededBalance(a)
    BY <2>1, PlanSame
  <2> QED BY <2>1, <2>2 DEF StartInv
<1>4. CASE SeedCheckpoint
  <2> SUFFICES ASSUME plan'.checkpoint = NoCheckpoint
               PROVE  \A a \in Accounts' : balance'[a] = SeededBalance(a)'
    BY <1>4 DEF StartInv, SeedCheckpoint
  <2>1. plan' = plan /\ phase = "seed" /\ balance' = [balance EXCEPT ![0] = @ + 0]
    BY <1>4 DEF SeedCheckpoint, Books
  <2>2. Accounts' = Accounts /\ \A a : SeededBalance(a)' = SeededBalance(a)
    BY <2>1, PlanSame
  <2>3. /\ \A a \in Accounts : balance[a] = SeededBalance(a) /\ balance[a] \in Int
        /\ DOMAIN balance = Accounts
    BY <2>1 DEF StartInv, BooksInv, Built, Right
  <2>4. \A a \in Accounts : balance'[a] = balance[a]
    BY <2>1, <2>3
  <2> QED BY <2>2, <2>3, <2>4
<1>5. CASE NextMorning
  <2>1. day' = day + 1 /\ phase' = "lump sum"
    BY <1>5 DEF NextMorning
  <2>2. day' # 0
    <3>1. day \in Nat
      BY DEF RunInv
    <3>2. \A n \in Nat : n + 1 # 0
      OBVIOUS
    <3> QED BY <2>1, <3>1, <3>2
  <2> QED BY <2>1, <2>2 DEF StartInv
<1>6. CASE AddLumpSum \/ RunFlow \/ AddExtras \/ Accrue \/ PayDebt \/ FloorDebts
  BY <1>6 DEF StartInv, AddLumpSum, RunFlow, AddExtras, Accrue, PayDebt, FloorDebts, Turn
<1> QED BY <1>1, <1>2, <1>3, <1>4, <1>5, <1>6 DEF Stepped, Run

-----------------------------------------------------------------------------
(***************************************************************************)
(* Where a projection starts.                                              *)
(***************************************************************************)

\* The clone has the rows of the alternative with what the flows write into them.
LEMMA ScenarioHas ==
  ASSUME ValuesInv, NEW name \in DOMAIN store.alternatives
  PROVE  /\ Filled(ScenarioOf(name)) /\ Projectable(ScenarioOf(name))
         /\ Filled(store.alternatives[name])
         /\ \A kind \in Kinds : ScenarioOf(name)[kind] = store.alternatives[name][kind]
         /\ ScenarioOf(name).edges = PipelineOf(store, name).edges
<1> DEFINE s == ScenarioOf(name)
           alt == store.alternatives[name]
<1>1. Filled(alt)
  BY DEF ValuesInv, Sound
<1>2. \A kind \in Kinds : s[kind] = alt[kind]
  BY DEF ScenarioOf, Kinds
<1>3. s.edges = PipelineOf(store, name).edges
  BY DEF ScenarioOf
<1>4. Projectable(s)
  BY ScenarioProjectable, Zenon
<1> HIDE DEF s, alt
<1>5. Kinds \subseteq DOMAIN s /\ "asset" \in Kinds
  BY <1>4 DEF Projectable, Kinds
<1>6. Filled(s)
  BY <1>1, <1>2, <1>5 DEF Filled, HasRows
<1> QED BY <1>1, <1>2, <1>3, <1>4, <1>6 DEF s, alt

\* The rows of a plan are worth what they were.
KeepsWorth(s, p) ==
  /\ Filled(p) /\ p.checkpoint = s.checkpoint
  /\ DOMAIN p.asset = DOMAIN s.asset /\ DOMAIN p.debt = DOMAIN s.debt
  /\ \A n \in DOMAIN s.asset : p.asset[n].value = s.asset[n].value
  /\ \A n \in DOMAIN s.debt : p.debt[n].value = s.debt[n].value

\* The flows change neither what is worth nor how it is valued.
LEMMA RoutedRows ==
  ASSUME NEW s, Filled(s), Projectable(s)
  PROVE  KeepsWorth(s, Routed(s))
<1>0. PICK p : p = Routed(s)
  OBVIOUS
<1>1. CASE s.edges = << >>
  BY <1>1, Zenon DEF Routed, KeepsWorth
<1>2. CASE s.edges # << >>
  <2>1. p = ApplyFlows(s, s.edges, s.today)
    BY <1>0, <1>2 DEF Routed
  <2>2. /\ IsEdges(s.edges) /\ s.today \in Int /\ Kinds \subseteq DOMAIN s
        /\ \A kind \in Kinds : IsRows(kind, s[kind])
        /\ "checkpoint" \in DOMAIN s
    BY Zenon DEF Projectable, Filled, HasRows
  <2>3. Filled(p)
    BY <2>1, <2>2, FlowsFilled
  <2> DEFINE Into(kind, n) == FlowsInto(s, s.edges, <<kind, n>>)
  <2>4. /\ \A x \in DOMAIN s \ {"asset", "debt", "expense"} : p[x] = s[x]
        /\ \A kind \in Kinds : DOMAIN p[kind] = DOMAIN s[kind]
        /\ \A n \in DOMAIN s.asset :
             p.asset[n] = FlowIntoAsset(s.asset[n], InAMonth(s, Into("asset", n)),
                                        Into("asset", n))
        /\ \A n \in DOMAIN s.debt :
             p.debt[n] = FlowIntoDebt(s.debt[n], Sum(s, Into("debt", n)), Into("debt", n),
                                      s.today)
    BY <2>1, <2>2, FlowsWritten
  <2> HIDE DEF Into
  <2>5. p.checkpoint = s.checkpoint
    BY <2>2, <2>4
  <2>6. /\ \A row : "value" \in DOMAIN row =>
             \A x, y : FlowIntoAsset(row, x, y).value = row.value
        /\ \A row : "value" \in DOMAIN row =>
             \A x, y, now : FlowIntoDebt(row, x, y, now).value = row.value
    BY DEF FlowIntoAsset, FlowIntoDebt
  <2>7. /\ \A n \in DOMAIN s.asset : "value" \in DOMAIN s.asset[n]
        /\ \A n \in DOMAIN s.debt : "value" \in DOMAIN s.debt[n]
    <3>1. IsRows("asset", s.asset) /\ IsRows("debt", s.debt)
      BY <2>2 DEF Kinds
    <3> QED BY <3>1 DEF IsRows, FieldsOf, HasFields, AssetFields, DebtFields
  <2>8. DOMAIN p.asset = DOMAIN s.asset /\ DOMAIN p.debt = DOMAIN s.debt
    BY <2>4 DEF Kinds
  <2>9. /\ \A n \in DOMAIN s.asset : p.asset[n].value = s.asset[n].value
        /\ \A n \in DOMAIN s.debt : p.debt[n].value = s.debt[n].value
    BY <2>4, <2>6, <2>7
  <2>10. KeepsWorth(s, p)
    BY <2>3, <2>5, <2>8, <2>9, Zenon DEF KeepsWorth
  <2> QED BY <1>0, <2>10, Zenon
<1> QED BY <1>1, <1>2

\* What an account without a checkpoint is seeded with is what its row is worth.
LEMMA SeededIsShown ==
  ASSUME Projectable(plan), Filled(plan), plan.checkpoint = NoCheckpoint,
         \A a \in Assets : RowOf(a).synced /\ (IsPosition(a) => RowOf(a).price < Micro)
  PROVE  /\ SeededBalance(0) = 0
         /\ \A n \in DOMAIN plan.asset : SeededBalance(n) = plan.asset[n].value
         /\ \A n \in DOMAIN plan.debt :
              SeededBalance(Len(plan.asset) + n) = plan.debt[n].value
<1>1. \A a : SeedRow(a) = RowOf(a)
  <2>1. \A a : Seen(a) = {}
    BY DEF Seen, NoCheckpoint
  <2> QED BY <2>1 DEF SeedRow
<1>2. /\ Len(plan.asset) \in Nat /\ Len(plan.debt) \in Nat
      /\ DOMAIN plan.asset = 1 .. Len(plan.asset) /\ DOMAIN plan.debt = 1 .. Len(plan.debt)
  BY RowsTyped DEF Kinds
<1>3. Assets = DOMAIN plan.asset
  BY <1>2 DEF Assets
<1>4. SeededBalance(0) = 0
  <2>1. ~IsPosition(0)
    BY <1>2 DEF IsPosition, Assets
  <2> QED BY <2>1 DEF SeededBalance
<1>5. ASSUME NEW n \in DOMAIN plan.asset PROVE SeededBalance(n) = plan.asset[n].value
  <2>1. RowOf(n) = plan.asset[n] /\ n # 0
    BY <1>2, <1>3 DEF RowOf
  <2>2. IsSynced(plan.asset[n])
    BY DEF Filled, HasRows
  <2>3. CASE IsPosition(n)
    <3>1. SeededBalance(n) = BankersRound(plan.asset[n].units * plan.asset[n].price, Micro)
      BY <1>1, <2>1, <2>3 DEF SeededBalance
    <3>2. /\ plan.asset[n].synced /\ plan.asset[n].mode = "Ticker" /\ ~plan.asset[n].connected
          /\ plan.asset[n].units > 0 /\ 0 < plan.asset[n].price /\ plan.asset[n].price < Micro
      <4>1. plan.asset[n].price \in Int
        BY RowsTyped
      <4> QED BY <1>1, <1>3, <2>1, <2>3, <4>1 DEF IsPosition
    <3> QED BY <2>2, <3>1, <3>2 DEF IsSynced
  <2>4. CASE ~IsPosition(n)
    BY <1>1, <2>1, <2>4 DEF SeededBalance
  <2> QED BY <2>3, <2>4
<1>6. ASSUME NEW n \in DOMAIN plan.debt
      PROVE  SeededBalance(Len(plan.asset) + n) = plan.debt[n].value
  <2> DEFINE a == Len(plan.asset) + n
  <2>1. a \notin Assets /\ a # 0 /\ a - Len(plan.asset) = n
    <3>1. n \in Nat /\ n >= 1
      BY <1>2
    <3>2. \A m, i \in Nat : i >= 1 => m + i \notin 1 .. m /\ m + i # 0 /\ (m + i) - m = i
      OBVIOUS
    <3> QED BY <1>2, <3>1, <3>2 DEF Assets
  <2> HIDE DEF a
  <2>2. RowOf(a) = plan.debt[n] /\ ~IsPosition(a)
    BY <2>1 DEF RowOf, IsPosition
  <2>3. SeededBalance(a) = plan.debt[n].value
    BY <1>1, <2>1, <2>2 DEF SeededBalance
  <2> QED BY <2>3 DEF a
<1> QED BY <1>4, <1>5, <1>6

\* The sum over some accounts, and that these stand one after the other.
OverAccounts(b, S, N) == [n \in 1 .. N |-> IF n - 1 \in S THEN b[n - 1] ELSE 0]

InARow(b, S, N, d, vs) ==
  \A a \in 0 .. N - 1 :
    (IF a \in S THEN b[a] ELSE 0) = IF d <= a /\ a < d + Len(vs) THEN vs[a - d + 1] ELSE 0

\* What is left of the other accounts is nothing.
LEMMA SumOverAccounts ==
  ASSUME NEW N \in Nat, NEW d \in Nat, NEW vs \in Seq(Int), d + Len(vs) <= N,
         NEW S, NEW b, InARow(b, S, N, d, vs)
  PROVE  Total(OverAccounts(b, S, N)) = Total(vs)
<1> PICK ts : ts = OverAccounts(b, S, N)
  OBVIOUS
<1>1. Len(vs) \in Nat /\ \A i \in 1 .. Len(vs) : vs[i] \in Int
  OBVIOUS
<1> PICK M \in Nat : M = Len(vs)
  BY <1>1
<1>2. ASSUME NEW n \in 1 .. N PROVE ts[n] = IF d < n /\ n <= d + M THEN vs[n - d] ELSE 0
  <2> PICK a : a = n - 1
    OBVIOUS
  <2>1. a \in 0 .. N - 1 /\ (d <= a <=> d < n) /\ (a < d + M <=> n <= d + M)
        /\ (a - d) + 1 = n - d
    OBVIOUS
  <2>2. ts[n] = IF a \in S THEN b[a] ELSE 0
    BY DEF OverAccounts
  <2>3. (IF a \in S THEN b[a] ELSE 0)
          = IF d <= a /\ a < d + M THEN vs[(a - d) + 1] ELSE 0
    BY <2>1 DEF InARow
  <2> QED BY <2>1, <2>2, <2>3
<1>3. ASSUME NEW n \in 1 .. N PROVE ts[n] \in Int
  <2>1. d < n /\ n <= d + M => n - d \in 1 .. M
    OBVIOUS
  <2>2. d < n /\ n <= d + M => vs[n - d] \in Int
    BY <1>1, <2>1
  <2> QED BY <1>2, <2>2
<1>4. ts = [n \in 1 .. N |-> ts[n]]
  BY DEF OverAccounts
<1>5. ts \in [1 .. N -> Int]
  BY <1>3, <1>4, Zenon
<1>6. ts \in Seq(Int) /\ Len(ts) = N
  BY <1>5
<1>7. \A n \in 1 .. Len(ts) : ts[n] = IF d < n /\ n <= d + Len(vs) THEN vs[n - d] ELSE 0
  BY <1>2, <1>6
<1> QED BY <1>6, <1>7, SumShifted

\* The net worth of balances that are the values of the rows.
LEMMA WorthIsShown ==
  ASSUME Projectable(plan), NEW alt,
         IsRows("asset", alt.asset), IsRows("debt", alt.debt),
         Len(plan.asset) = Len(alt.asset), Len(plan.debt) = Len(alt.debt),
         NEW b, b[0] = 0,
         \A n \in DOMAIN alt.asset : b[n] = alt.asset[n].value,
         \A n \in DOMAIN alt.debt : b[Len(plan.asset) + n] = alt.debt[n].value
  PROVE  NetWorth(b) = ShownNetWorth(alt)
<1>1. /\ DOMAIN alt.asset = 1 .. Len(alt.asset) /\ Len(alt.asset) \in Nat
      /\ DOMAIN alt.debt = 1 .. Len(alt.debt) /\ Len(alt.debt) \in Nat
  BY Sequence DEF IsRows
<1>2. PICK A \in Nat : A = Len(alt.asset)
  BY <1>1
<1>3. PICK D \in Nat : D = Len(alt.debt)
  BY <1>1
<1>4. Assets = 1 .. A /\ Debts = A + 1 .. A + D
  BY <1>2, <1>3 DEF Assets, Debts
<1>5. /\ \A n \in 1 .. A : alt.asset[n].value \in Int /\ b[n] = alt.asset[n].value
      /\ \A n \in 1 .. D : alt.debt[n].value \in Int /\ b[A + n] = alt.debt[n].value
  BY <1>1, <1>2, <1>3 DEF IsRows, HasFields, FieldsOf, AssetFields, DebtFields, ValuesOf
<1> DEFINE vs == [n \in 1 .. A |-> alt.asset[n].value]
           ws == [n \in 1 .. D |-> alt.debt[n].value]
<1>6. Value(alt.asset) = Total(vs) /\ Value(alt.debt) = Total(ws)
  BY <1>1, <1>2, <1>3 DEF Value
<1>7. /\ vs \in Seq(Int) /\ Len(vs) = A /\ \A n \in 1 .. A : b[n] = vs[n]
      /\ ws \in Seq(Int) /\ Len(ws) = D /\ \A n \in 1 .. D : b[A + n] = ws[n]
  BY <1>5
<1> HIDE DEF vs, ws
<1>8. SumOf(b, {0} \union Assets) = Total(vs)
  <2> DEFINE zs == <<0>> \o vs
  <2>0. PICK N \in Nat : N = A + D + 1
    OBVIOUS
  <2>1. SumOf(b, {0} \union Assets) = Total(OverAccounts(b, {0} \union Assets, N))
    BY <1>2, <1>3, <2>0 DEF SumOf, OverAccounts
  <2>2. zs \in Seq(Int) /\ Len(zs) = A + 1 /\ zs[1] = 0 /\ \A n \in 1 .. A : zs[n + 1] = vs[n]
    BY <1>7
  <2> HIDE DEF zs
  <2>3. ASSUME NEW a \in 0 .. N - 1
        PROVE  (IF a \in {0} \union Assets THEN b[a] ELSE 0)
                 = IF 0 <= a /\ a < 0 + Len(zs) THEN zs[a - 0 + 1] ELSE 0
    <3>1. CASE a = 0
      BY <2>2, <3>1
    <3>2. CASE a \in 1 .. A
      BY <1>4, <1>7, <2>2, <3>2
    <3>3. CASE a # 0 /\ a \notin 1 .. A
      BY <1>4, <2>2, <3>3
    <3> QED BY <3>1, <3>2, <3>3
  <2>4. 0 + Len(zs) <= N /\ 0 \in Nat
    BY <2>0, <2>2
  <2>7. InARow(b, {0} \union Assets, N, 0, zs)
    BY <2>3, Zenon DEF InARow
  <2>5. Total(OverAccounts(b, {0} \union Assets, N)) = Total(zs)
    <3>1. PICK S : S = {0} \union Assets
      OBVIOUS
    <3>2. PICK d \in Nat : d = 0
      OBVIOUS
    <3>3. InARow(b, S, N, d, zs) /\ d + Len(zs) <= N
      BY <2>4, <2>7, <3>1, <3>2
    <3>5. zs \in Seq(Int) /\ d \in Nat /\ N \in Nat
      BY <2>2
    <3>4. Total(OverAccounts(b, S, N)) = Total(zs)
      BY <3>3, <3>5, SumOverAccounts, SMT
    <3> QED BY <3>1, <3>4
  <2>6. Total(zs) = Total(vs)
    <3>1. PICK z : z = <<0>>
      OBVIOUS
    <3>2. z \in Seq(Int) /\ \A i \in 1 .. Len(z) : z[i] = 0
      BY <3>1
    <3>3. Total(z) = 0
      BY <3>2, SumOfZeros, Zenon
    <3>4. Total(vs) \in Int /\ Total(z \o vs) = Total(z) + Total(vs)
      BY <1>7, <3>2, SumJoined, Zenon
    <3>5. zs = z \o vs
      BY <3>1 DEF zs
    <3> QED BY <3>3, <3>4, <3>5
  <2> QED BY <2>1, <2>5, <2>6
<1>9. SumOf(b, Debts) = Total(ws)
  <2>0. PICK N \in Nat : N = A + D + 1
    OBVIOUS
  <2>1. SumOf(b, Debts) = Total(OverAccounts(b, Debts, N))
    BY <1>2, <1>3, <2>0 DEF SumOf, OverAccounts
  <2>2. ASSUME NEW a \in 0 .. N - 1
        PROVE  (IF a \in Debts THEN b[a] ELSE 0)
                 = IF A + 1 <= a /\ a < (A + 1) + Len(ws) THEN ws[a - (A + 1) + 1] ELSE 0
    <3>1. a \in Debts <=> A + 1 <= a /\ a < (A + 1) + Len(ws)
      BY <1>4, <1>7
    <3>2. CASE a \in Debts
      <4>1. a - A \in 1 .. D /\ A + (a - A) = a /\ a - (A + 1) + 1 = a - A
        BY <1>4, <3>2
      <4>2. b[a] = ws[a - A]
        BY <1>7, <4>1
      <4> QED BY <3>1, <3>2, <4>1, <4>2
    <3>3. CASE a \notin Debts
      BY <3>1, <3>3
    <3> QED BY <3>2, <3>3
  <2>3. A + 1 \in Nat /\ (A + 1) + Len(ws) <= N
    BY <1>7, <2>0
  <2>5. InARow(b, Debts, N, A + 1, ws)
    BY <2>2, Zenon DEF InARow
  <2>4. Total(OverAccounts(b, Debts, N)) = Total(ws)
    <3>1. PICK d \in Nat : d = A + 1
      BY <2>3
    <3>2. InARow(b, Debts, N, d, ws) /\ d + Len(ws) <= N
      BY <2>3, <2>5, <3>1
    <3>3. ws \in Seq(Int) /\ d \in Nat /\ N \in Nat
      BY <1>7
    <3> QED BY <3>2, <3>3, SumOverAccounts, SMT
  <2> QED BY <2>1, <2>4
<1> QED BY <1>6, <1>8, <1>9 DEF NetWorth, ShownNetWorth

\* There are as many numbers up to one as to another only if they are the same.
LEMMA SameUpTo ==
  \A m, n \in Nat : 1 .. m = 1 .. n => m = n
<1> SUFFICES ASSUME NEW m \in Nat, NEW n \in Nat, 1 .. m = 1 .. n PROVE m = n
  OBVIOUS
<1>1. \A i \in Int : 1 <= i /\ i <= m <=> 1 <= i /\ i <= n
  <2>1. \A i : i \in 1 .. m <=> i \in 1 .. n
    BY Zenon
  <2> QED BY <2>1
<1>2. m >= 1 => m <= n
  BY <1>1
<1>3. n >= 1 => n <= m
  BY <1>1
<1> QED BY <1>2, <1>3

\* The accounts of the debts stand behind those of the assets.
LEMMA AfterThem ==
  \A m, d \in Nat : \A n \in 1 .. d : m + n \in m + 1 .. m + d
  OBVIOUS

\* So it starts from the net worth that is shown.
LEMMA StartSuffices ==
  RunInv /\ BooksInv /\ ValuesInv /\ ProjectedInv /\ StartInv => StartsFromShown
<1> SUFFICES ASSUME RunInv, BooksInv, ValuesInv, ProjectedInv, StartInv,
                    projected \in DOMAIN store.alternatives,
                    phase = "lump sum", day = 0, plan.checkpoint = NoCheckpoint,
                    \A a \in Assets : RowOf(a).synced
                                      /\ (IsPosition(a) => RowOf(a).price < Micro)
             PROVE  NetWorth(balance) = ShownNetWorth(store.alternatives[projected])
  BY Zenon DEF StartsFromShown
<1>a. PICK s : s = ScenarioOf(projected)
  OBVIOUS
<1>b. PICK alt : alt = store.alternatives[projected]
  OBVIOUS
<1>1. projected \notin NoNames /\ plan = Routed(s)
  BY <1>a DEF ValuesInv, Sound, ProjectedInv
<1>2. /\ Filled(s) /\ Projectable(s) /\ Filled(alt)
      /\ \A kind \in Kinds : s[kind] = alt[kind]
  <2>1. /\ Filled(ScenarioOf(projected)) /\ Projectable(ScenarioOf(projected))
        /\ Filled(store.alternatives[projected])
        /\ \A kind \in Kinds :
             ScenarioOf(projected)[kind] = store.alternatives[projected][kind]
    BY ScenarioHas, Zenon
  <2> QED BY <1>a, <1>b, <2>1, Zenon
<1>3. Projectable(plan)
  BY DEF RunInv
<1>4. s.asset = alt.asset /\ s.debt = alt.debt
      /\ IsRows("asset", alt.asset) /\ IsRows("debt", alt.debt)
  BY <1>2 DEF Kinds, Filled, HasRows
<1>5. /\ Filled(plan)
      /\ DOMAIN plan.asset = DOMAIN alt.asset /\ DOMAIN plan.debt = DOMAIN alt.debt
      /\ \A n \in DOMAIN alt.asset : plan.asset[n].value = alt.asset[n].value
      /\ \A n \in DOMAIN alt.debt : plan.debt[n].value = alt.debt[n].value
  <2>1. /\ Filled(plan)
        /\ DOMAIN plan.asset = DOMAIN s.asset /\ DOMAIN plan.debt = DOMAIN s.debt
        /\ \A n \in DOMAIN s.asset : plan.asset[n].value = s.asset[n].value
        /\ \A n \in DOMAIN s.debt : plan.debt[n].value = s.debt[n].value
    <3>1. Filled(s) /\ Projectable(s)
      BY <1>2
    <3>2. KeepsWorth(s, plan)
      BY <1>1, <3>1, RoutedRows, Zenon
    <3> QED BY <3>2, Zenon DEF KeepsWorth
  <2> QED BY <1>4, <2>1, Zenon
<1>6. /\ SeededBalance(0) = 0
      /\ \A n \in DOMAIN plan.asset : SeededBalance(n) = plan.asset[n].value
      /\ \A n \in DOMAIN plan.debt : SeededBalance(Len(plan.asset) + n) = plan.debt[n].value
  BY <1>3, <1>5, SeededIsShown
<1>7. \A a \in Accounts : balance[a] = SeededBalance(a)
  BY DEF StartInv
<1>8. /\ Len(plan.asset) \in Nat /\ Len(plan.debt) \in Nat
      /\ DOMAIN plan.asset = 1 .. Len(plan.asset) /\ DOMAIN plan.debt = 1 .. Len(plan.debt)
  BY <1>3, RowsTyped DEF Kinds
<1>9. Len(plan.asset) = Len(alt.asset) /\ Len(plan.debt) = Len(alt.debt)
  <2>1. /\ Len(alt.asset) \in Nat /\ DOMAIN alt.asset = 1 .. Len(alt.asset)
        /\ Len(alt.debt) \in Nat /\ DOMAIN alt.debt = 1 .. Len(alt.debt)
    BY <1>4, Sequence DEF IsRows
  <2> QED BY <1>5, <1>8, <2>1, SameUpTo, Zenon
<1>10. /\ balance[0] = 0
       /\ \A n \in DOMAIN alt.asset : balance[n] = alt.asset[n].value
       /\ \A n \in DOMAIN alt.debt : balance[Len(plan.asset) + n] = alt.debt[n].value
  <2>1. \A n \in DOMAIN plan.asset : n \in Accounts
    BY <1>8 DEF Accounts, Assets
  <2>2. ASSUME NEW n \in DOMAIN plan.debt PROVE Len(plan.asset) + n \in Accounts
    <3>1. PICK m \in Nat : m = Len(plan.asset)
      BY <1>8
    <3>2. PICK d \in Nat : d = Len(plan.debt)
      BY <1>8
    <3>3. n \in 1 .. d
      BY <1>8, <3>2
    <3>4. m + n \in m + 1 .. m + d
      BY <3>3, AfterThem
    <3>5. Debts = m + 1 .. m + d
      BY <3>1, <3>2 DEF Debts
    <3> QED BY <3>1, <3>4, <3>5, Zenon DEF Accounts
  <2>3. 0 \in Accounts
    BY DEF Accounts
  <2> QED BY <1>5, <1>6, <1>7, <2>1, <2>2, <2>3, Zenon
<1>11. NetWorth(balance) = ShownNetWorth(alt)
  BY <1>3, <1>4, <1>9, <1>10, WorthIsShown, Zenon
<1> QED BY <1>b, <1>11

-----------------------------------------------------------------------------
(***************************************************************************)
(* What a month pays.                                                      *)
(***************************************************************************)

\* What a flow pays in a month for a row, and what some flows pay.
Weight(f, kind, n) == IF f.kind = kind /\ f.target = n THEN Monthly(f.amount, f.every) ELSE 0

Weighed(flows, kind, n) == [i \in DOMAIN flows |-> Weight(flows[i], kind, n)]

Weights(flows, kind, n) == Total(Weighed(flows, kind, n))

\* Flows that pay whole numbers.
Whole(E) == \A f \in E : Monthly(f.amount, f.every) \in Int

\* An amount that comes at some frequency is a whole number in parts of the scale, not
\* less than nothing if the amount is not, and the scale times it if it comes monthly.
LEMMA MonthlyWhole ==
  ASSUME NEW amount \in Int, NEW every \in Frequencies
  PROVE  /\ Monthly(amount, every) \in Int
         /\ amount >= 0 => Monthly(amount, every) >= 0
         /\ Monthly(amount, "monthly") = amount * MonthlyScale
<1>1. PerMonth(every) \in Nat
  BY DEF PerMonth, Frequencies
<1>2. PerMonth("monthly") = 600
  BY DEF PerMonth
<1>3. \A a \in Int, p \in Nat : a * p * 100 \in Int /\ (a >= 0 => a * p * 100 >= 0)
  OBVIOUS
<1>4. amount * 600 * 100 = amount * (600 * 100)
  OBVIOUS
<1> QED BY <1>1, <1>2, <1>3, <1>4 DEF Monthly, MonthlyScale

\* A sequence is two others one after the other if its elements are theirs.
LEMMA JoinedIs ==
  ASSUME NEW E, NEW s \in Seq(E), NEW t \in Seq(E), NEW u \in Seq(E),
         Len(u) = Len(s) + Len(t),
         \A i \in 1 .. Len(s) : u[i] = s[i],
         \A i \in 1 .. Len(t) : u[Len(s) + i] = t[i]
  PROVE  u = s \o t
<1>1. Len(s) \in Nat /\ Len(t) \in Nat
  OBVIOUS
<1>2. ASSUME NEW i \in 1 .. Len(u) PROVE u[i] = (s \o t)[i]
  <2>1. CASE i <= Len(s)
    BY <1>1, <2>1
  <2>2. CASE i > Len(s)
    <3>1. i - Len(s) \in 1 .. Len(t) /\ Len(s) + (i - Len(s)) = i
      BY <1>1, <2>2
    <3>2. u[i] = t[i - Len(s)]
      BY <3>1
    <3>3. (s \o t)[i] = t[i - Len(s)]
      BY <1>1, <2>2, <3>1
    <3> QED BY <3>2, <3>3
  <2> QED BY <1>1, <2>1, <2>2
<1>3. s \o t \in Seq(E) /\ Len(s \o t) = Len(u)
  BY <1>1
<1> QED BY <1>2, <1>3

\* The weights of flows are a sequence of numbers.
LEMMA WeighedTyped ==
  ASSUME NEW E, Whole(E), NEW s \in Seq(E), NEW kind, NEW n
  PROVE  /\ Weighed(s, kind, n) \in Seq(Int)
         /\ Len(Weighed(s, kind, n)) = Len(s) /\ Len(s) \in Nat /\ DOMAIN s = 1 .. Len(s)
         /\ \A i \in 1 .. Len(s) : Weighed(s, kind, n)[i] = Weight(s[i], kind, n)
<1>1. Len(s) \in Nat /\ DOMAIN s = 1 .. Len(s) /\ \A i \in 1 .. Len(s) : s[i] \in E
  OBVIOUS
<1>2. \A i \in 1 .. Len(s) : Weight(s[i], kind, n) \in Int
  BY <1>1 DEF Whole, Weight
<1>3. Weighed(s, kind, n) = [i \in 1 .. Len(s) |-> Weight(s[i], kind, n)]
  BY <1>1 DEF Weighed
<1> QED BY <1>1, <1>2, <1>3

\* Flows one after the other pay what they pay together.
LEMMA WeightsJoined ==
  ASSUME NEW E, Whole(E), NEW s \in Seq(E), NEW t \in Seq(E), NEW kind, NEW n
  PROVE  /\ Weights(s \o t, kind, n) = Weights(s, kind, n) + Weights(t, kind, n)
         /\ Weights(s, kind, n) \in Int /\ Weights(t, kind, n) \in Int
<1> DEFINE u == s \o t
           ws == Weighed(s, kind, n)
           wt == Weighed(t, kind, n)
           wu == Weighed(u, kind, n)
<1>1. u \in Seq(E) /\ Len(u) = Len(s) + Len(t)
      /\ (\A i \in 1 .. Len(s) : u[i] = s[i])
      /\ \A i \in 1 .. Len(t) : u[Len(s) + i] = t[i]
  OBVIOUS
<1> HIDE DEF u
<1>2. /\ ws \in Seq(Int) /\ Len(ws) = Len(s) /\ Len(s) \in Nat
      /\ \A i \in 1 .. Len(s) : ws[i] = Weight(s[i], kind, n)
  BY WeighedTyped, Zenon
<1>3. /\ wt \in Seq(Int) /\ Len(wt) = Len(t) /\ Len(t) \in Nat
      /\ \A i \in 1 .. Len(t) : wt[i] = Weight(t[i], kind, n)
  BY WeighedTyped, Zenon
<1>4. /\ wu \in Seq(Int) /\ Len(wu) = Len(u)
      /\ \A i \in 1 .. Len(u) : wu[i] = Weight(u[i], kind, n)
  <2>1. u \in Seq(E)
    BY <1>1
  <2> QED BY <2>1, WeighedTyped, Zenon
<1> HIDE DEF ws, wt, wu
<1>5. wu = ws \o wt
  <2>1. Len(wu) = Len(ws) + Len(wt)
    BY <1>1, <1>2, <1>3, <1>4
  <2>2. ASSUME NEW i \in 1 .. Len(ws) PROVE wu[i] = ws[i]
    <3>1. i \in 1 .. Len(s) /\ i \in 1 .. Len(u)
      BY <1>1, <1>2, <1>3
    <3> QED BY <1>1, <1>2, <1>4, <3>1
  <2>3. ASSUME NEW i \in 1 .. Len(wt) PROVE wu[Len(ws) + i] = wt[i]
    <3>1. i \in 1 .. Len(t) /\ Len(s) + i \in 1 .. Len(u)
      BY <1>1, <1>2, <1>3
    <3> QED BY <1>1, <1>2, <1>3, <1>4, <3>1
  <2> QED BY <1>2, <1>3, <1>4, <2>1, <2>2, <2>3, JoinedIs
<1>6. Total(wu) = Total(ws) + Total(wt) /\ Total(ws) \in Int /\ Total(wt) \in Int
  BY <1>2, <1>3, <1>5, SumJoined, Zenon
<1> QED BY <1>6 DEF Weights, u, ws, wt, wu

\* Flows none of which is for the row pay nothing for it.
LEMMA WeightsOfNone ==
  ASSUME NEW E, Whole(E), NEW s \in Seq(E), NEW kind, NEW n,
         \A i \in 1 .. Len(s) : Weight(s[i], kind, n) = 0
  PROVE  Weights(s, kind, n) = 0
<1>1. /\ Weighed(s, kind, n) \in Seq(Int) /\ Len(Weighed(s, kind, n)) = Len(s)
      /\ \A i \in 1 .. Len(s) : Weighed(s, kind, n)[i] = Weight(s[i], kind, n)
  BY WeighedTyped, Zenon
<1> PICK ns : ns = Weighed(s, kind, n)
  OBVIOUS
<1>2. ns \in Seq(Int) /\ \A i \in 1 .. Len(ns) : ns[i] = 0
  BY <1>1
<1>3. Total(ns) = 0
  BY <1>2, SumOfZeros, Zenon
<1> QED BY <1>3 DEF Weights

\* Flows of which one is for the row pay what that one pays.
LEMMA WeightsOfOne ==
  ASSUME NEW E, Whole(E), NEW s \in Seq(E), NEW kind, NEW n, NEW j \in 1 .. Len(s),
         \A i \in 1 .. Len(s) : i # j => Weight(s[i], kind, n) = 0
  PROVE  Weights(s, kind, n) = Weight(s[j], kind, n)
<1>1. /\ Weighed(s, kind, n) \in Seq(Int) /\ Len(Weighed(s, kind, n)) = Len(s)
      /\ \A i \in 1 .. Len(s) : Weighed(s, kind, n)[i] = Weight(s[i], kind, n)
  BY WeighedTyped, Zenon
<1> PICK ns : ns = Weighed(s, kind, n)
  OBVIOUS
<1>2. ns \in Seq(Int) /\ j \in 1 .. Len(ns) /\ ns[j] = Weight(s[j], kind, n)
      /\ \A i \in 1 .. Len(ns) : i # j => ns[i] = 0
  BY <1>1
<1>3. Total(ns) = ns[j]
  BY <1>2, SumOfOne, Zenon
<1> QED BY <1>2, <1>3 DEF Weights

\* Parts, and that all but one pay nothing for a row.
ArePartsOf(parts, N, E) ==
  DOMAIN parts = 1 .. N /\ Len(parts) = N /\ \A i \in 1 .. N : parts[i] \in Seq(E)

OnlyPart(parts, N, j, kind, n) == \A i \in 1 .. N : i # j => Weights(parts[i], kind, n) = 0

\* Together they pay for it what that one pays.
LEMMA WeightsOfParts ==
  ASSUME NEW E, Whole(E), NEW N \in Nat, NEW parts, ArePartsOf(parts, N, E),
         NEW kind, NEW n, NEW j \in Int, OnlyPart(parts, N, j, kind, n)
  PROVE  /\ Weights(Concatenated(parts), kind, n)
              = IF j \in 1 .. N THEN Weights(parts[j], kind, n) ELSE 0
         /\ Concatenated(parts) \in Seq(E)
<1>0. PICK g : Joins(g, parts, N, E)
  <2>1. /\ DOMAIN parts = 1 .. N /\ Len(parts) = N
        /\ \A i \in 1 .. N : parts[i] \in Seq(E)
    BY Zenon DEF ArePartsOf
  <2> QED BY <2>1, JoinedUpTo, Zenon
<1>1. /\ g \in [0 .. N -> Seq(E)] /\ g[0] = << >> /\ Concatenated(parts) = g[N]
      /\ \A i \in 1 .. N : g[i] = g[i - 1] \o parts[i]
  BY <1>0, Zenon DEF Joins
<1> DEFINE W(s) == Weights(s, kind, n)
           upTo(m) == IF j \in 1 .. m THEN W(parts[j]) ELSE 0
           T == {m \in Nat : m <= N => W(g[m]) = upTo(m)}
<1>2. W(<< >>) = 0
  <2>1. << >> \in Seq(E) /\ \A i \in 1 .. Len(<< >>) : FALSE
    OBVIOUS
  <2> QED BY <2>1, WeightsOfNone
<1>3. ASSUME NEW m \in 1 .. N
      PROVE  W(g[m]) = W(g[m - 1]) + W(parts[m]) /\ W(g[m - 1]) \in Int /\ W(parts[m]) \in Int
  <2>1. g[m - 1] \in Seq(E) /\ parts[m] \in Seq(E) /\ g[m] = g[m - 1] \o parts[m]
    <3>1. m - 1 \in 0 .. N
      OBVIOUS
    <3> QED BY <1>1, <3>1 DEF ArePartsOf
  <2>2. PICK x \in Seq(E) : x = g[m - 1]
    BY <2>1
  <2>3. PICK y \in Seq(E) : y = parts[m]
    BY <2>1
  <2>4. W(x \o y) = W(x) + W(y) /\ W(x) \in Int /\ W(y) \in Int
    <3>1. Weights(x \o y, kind, n) = Weights(x, kind, n) + Weights(y, kind, n)
      BY WeightsJoined
    <3>2. Weights(x, kind, n) \in Int /\ Weights(y, kind, n) \in Int
      BY WeightsJoined
    <3> QED BY <3>1, <3>2
  <2> HIDE DEF W
  <2> QED BY <2>1, <2>2, <2>3, <2>4
<1>4. \A m \in 1 .. N : m # j => W(parts[m]) = 0
  BY Zenon DEF OnlyPart
<1> HIDE DEF W
<1>5. 0 \in T
  BY <1>1, <1>2
<1>6. ASSUME NEW m \in Nat \cap T PROVE m + 1 \in T
  <2> SUFFICES ASSUME m + 1 <= N PROVE W(g[m + 1]) = upTo(m + 1)
    OBVIOUS
  <2>1. m + 1 \in 1 .. N /\ (m + 1) - 1 = m /\ W(g[m]) = upTo(m)
    OBVIOUS
  <2>2. W(g[m + 1]) = W(g[m]) + W(parts[m + 1]) /\ W(g[m]) \in Int /\ W(parts[m + 1]) \in Int
    BY <1>3, <2>1
  <2>3. CASE m + 1 = j
    <3>1. upTo(m) = 0 /\ upTo(m + 1) = W(parts[j])
      BY <2>3
    <3> HIDE DEF upTo
    <3> QED BY <2>1, <2>2, <2>3, <3>1
  <2>4. CASE m + 1 # j
    <3>1. upTo(m + 1) = upTo(m) /\ W(parts[m + 1]) = 0
      BY <1>4, <2>1, <2>4
    <3> HIDE DEF upTo
    <3> QED BY <2>1, <2>2, <3>1
  <2> QED BY <2>3, <2>4
<1> HIDE DEF T
<1>7. Nat \subseteq T
  BY <1>5, <1>6, Induction
<1>8. W(g[N]) = upTo(N)
  <2>1. N \in T /\ N <= N
    BY <1>7
  <2> HIDE DEF upTo
  <2> QED BY <2>1 DEF T
<1>9. g[N] \in Seq(E)
  <2>1. N \in 0 .. N
    OBVIOUS
  <2> QED BY <1>1, <2>1
<1> QED BY <1>1, <1>8, <1>9 DEF W

\* One flow pays what it pays, and none nothing.
LEMMA WeightsOfSingle ==
  ASSUME NEW E, Whole(E), NEW f \in E, NEW kind, NEW n
  PROVE  /\ Weights(<<f>>, kind, n) = Weight(f, kind, n) /\ <<f>> \in Seq(E)
         /\ Weights(<< >>, kind, n) = 0 /\ << >> \in Seq(E)
         /\ Weight(f, kind, n) \in Int
<1>1. PICK s : s = <<f>>
  OBVIOUS
<1>2. s \in Seq(E) /\ Len(s) = 1 /\ s[1] = f
  BY <1>1
<1>3. 1 \in 1 .. Len(s) /\ \A i \in 1 .. Len(s) : i # 1 => Weight(s[i], kind, n) = 0
  BY <1>2
<1>4. Weights(s, kind, n) = Weight(s[1], kind, n)
  BY <1>2, <1>3, WeightsOfOne
<1>5. PICK t : t = << >>
  OBVIOUS
<1>6. t \in Seq(E) /\ \A i \in 1 .. Len(t) : Weight(t[i], kind, n) = 0
  BY <1>5
<1>7. Weights(t, kind, n) = 0
  BY <1>6, WeightsOfNone
<1>8. Weight(f, kind, n) \in Int
  BY DEF Whole, Weight
<1> QED BY <1>1, <1>2, <1>4, <1>5, <1>6, <1>7, <1>8

\* What holds numbered elements is a sequence.
LEMMA FunctionIsSequence ==
  ASSUME NEW E, NEW N \in Nat, NEW s, s = [n \in 1 .. N |-> s[n]], \A n \in 1 .. N : s[n] \in E
  PROVE  s \in Seq(E) /\ Len(s) = N
<1>1. s \in [1 .. N -> E]
  BY Zenon
<1> QED BY <1>1

\* The flows there can be.
FlowKinds == {"income", "expense", "transfer", "debt_payment"}

AnyFlow ==
  {Flow(x[1], x[2], x[3], x[4], x[5], x[6], x[7]) :
     x \in FlowKinds \X Int \X Int \X Frequencies \X Nat \X Int \X Int}

\* It pays that for its row and nothing for the others.
PaysFor(f, kd, m, pay) ==
  \A kind, n : Weight(f, kind, n) = IF kd = kind /\ m = n THEN pay ELSE 0

\* A flow is one of them, and what it pays.
LEMMA FlowWeighs ==
  ASSUME NEW kd \in FlowKinds, NEW m \in Int, NEW amount \in Int, NEW every \in Frequencies,
         NEW start \in Nat, NEW growth \in Int, NEW to \in Int
  PROVE  /\ Flow(kd, m, amount, every, start, growth, to) \in AnyFlow
         /\ PaysFor(Flow(kd, m, amount, every, start, growth, to), kd, m,
                    Monthly(amount, every))
<1>1. Flow(kd, m, amount, every, start, growth, to) \in AnyFlow
  <2> DEFINE x == <<kd, m, amount, every, start, growth, to>>
  <2>1. x \in FlowKinds \X Int \X Int \X Frequencies \X Nat \X Int \X Int
    OBVIOUS
  <2>2. /\ x[1] = kd /\ x[2] = m /\ x[3] = amount /\ x[4] = every /\ x[5] = start
        /\ x[6] = growth /\ x[7] = to
    OBVIOUS
  <2> HIDE DEF x
  <2>3. Flow(kd, m, amount, every, start, growth, to)
          = Flow(x[1], x[2], x[3], x[4], x[5], x[6], x[7])
    BY <2>2, Zenon
  <2> QED BY <2>1, <2>3, Zenon DEF AnyFlow
<1>2. PICK f : f = Flow(kd, m, amount, every, start, growth, to)
  OBVIOUS
<1>3. f.kind = kd /\ f.target = m /\ f.amount = amount /\ f.every = every
  BY <1>2 DEF Flow
<1>4. PaysFor(f, kd, m, Monthly(amount, every))
  BY <1>3, Zenon DEF Weight, PaysFor
<1> QED BY <1>1, <1>2, <1>4, Zenon

\* They pay whole numbers.
LEMMA AnyFlowWhole == Whole(AnyFlow)
<1> SUFFICES ASSUME NEW f \in AnyFlow PROVE Monthly(f.amount, f.every) \in Int
  BY DEF Whole
<1>1. PICK x \in FlowKinds \X Int \X Int \X Frequencies \X Nat \X Int \X Int :
        f = Flow(x[1], x[2], x[3], x[4], x[5], x[6], x[7])
  BY DEF AnyFlow
<1>2. x[3] \in Int /\ x[4] \in Frequencies
  OBVIOUS
<1>3. f.amount = x[3] /\ f.every = x[4]
  BY <1>1 DEF Flow
<1> QED BY <1>2, <1>3, MonthlyWhole

\* A flow that is there where an amount is more than nothing.
OneIf(amount, f) == IF amount > 0 THEN <<f>> ELSE << >>

\* Flows pay an amount for their row if something is more than nothing.
PayWhere(s, kd, m, amount, pay) ==
  \A kind, n : Weights(s, kind, n) = IF kd = kind /\ m = n /\ amount > 0 THEN pay ELSE 0

\* It pays there only.
LEMMA WeightsOfOneIf ==
  ASSUME NEW f \in AnyFlow, NEW kd, NEW m, NEW pay, PaysFor(f, kd, m, pay),
         NEW amount
  PROVE  /\ OneIf(amount, f) \in Seq(AnyFlow)
         /\ PayWhere(OneIf(amount, f), kd, m, amount, pay)
<1> SUFFICES ASSUME NEW kind, NEW n
             PROVE  /\ OneIf(amount, f) \in Seq(AnyFlow)
                    /\ Weights(OneIf(amount, f), kind, n)
                         = IF kd = kind /\ m = n /\ amount > 0 THEN pay ELSE 0
  BY Zenon DEF PayWhere
<1>1. /\ Weights(<<f>>, kind, n) = Weight(f, kind, n) /\ <<f>> \in Seq(AnyFlow)
      /\ Weights(<< >>, kind, n) = 0 /\ << >> \in Seq(AnyFlow)
  <2>1. Whole(AnyFlow)
    BY AnyFlowWhole
  <2> QED BY <2>1, WeightsOfSingle
<1>2. Weight(f, kind, n) = IF kd = kind /\ m = n THEN pay ELSE 0
  BY Zenon DEF PaysFor
<1>3. CASE amount > 0
  <2>1. OneIf(amount, f) = <<f>>
    BY <1>3, Zenon DEF OneIf
  <2>2. (kd = kind /\ m = n /\ amount > 0) <=> (kd = kind /\ m = n)
    BY <1>3, Zenon
  <2> QED BY <1>1, <1>2, <2>1, <2>2, Zenon
<1>4. CASE ~(amount > 0)
  <2>1. OneIf(amount, f) = << >>
    BY <1>4, Zenon DEF OneIf
  <2>2. ~(kd = kind /\ m = n /\ amount > 0)
    BY <1>4, Zenon
  <2> QED BY <1>1, <2>1, <2>2, Zenon
<1> QED BY <1>3, <1>4, Zenon

\* What a projection pays for a row is what its row says.
LEMMA PaidIs ==
  ASSUME Projectable(plan)
  PROVE  /\ \A n \in DOMAIN plan.asset : Paid("transfer", n)
              = IF plan.asset[n].recur > 0
                THEN Monthly(plan.asset[n].recur, plan.asset[n].every) ELSE 0
         /\ \A n \in DOMAIN plan.expense : Paid("expense", n)
              = Monthly(plan.expense[n].amount, plan.expense[n].every)
         /\ \A n \in DOMAIN plan.debt : Paid("debt_payment", n)
              = (IF plan.debt[n].pmt > 0
                 THEN Monthly(plan.debt[n].pmt, plan.debt[n].every) ELSE 0)
                + (IF plan.debt[n].extra > 0
                   THEN Monthly(plan.debt[n].extra, plan.debt[n].extraEvery) ELSE 0)
<1> DEFINE E == AnyFlow
           I == [n \in 1 .. Len(plan.income) |->
                   Flow("income", n, plan.income[n].amount, plan.income[n].every,
                        StartDay(plan.income[n]), plan.income[n].growth, 0)]
           X == [n \in 1 .. Len(plan.expense) |->
                   Flow("expense", n, plan.expense[n].amount, plan.expense[n].every,
                        StartDay(plan.expense[n]), Inflation(plan.expense[n]), 0)]
           C == [n \in 1 .. Len(plan.asset) |-> Contribution(n)]
           P == [n \in 1 .. Len(plan.debt) |-> Payments(n)]
<1>1. \A row : row.start \in Int => StartDay(row) \in Nat
  <2>1. plan.checkpoint.day \in Nat
    BY DEF Projectable, IsCheckpoint
  <2> QED BY <2>1 DEF StartDay, Larger
<1>2. /\ Len(plan.income) \in Nat /\ DOMAIN plan.income = 1 .. Len(plan.income)
      /\ Len(plan.expense) \in Nat /\ DOMAIN plan.expense = 1 .. Len(plan.expense)
      /\ Len(plan.asset) \in Nat /\ DOMAIN plan.asset = 1 .. Len(plan.asset)
      /\ Len(plan.debt) \in Nat /\ DOMAIN plan.debt = 1 .. Len(plan.debt)
  BY RowsTyped DEF Kinds
<1>3. Whole(E) /\ {"income", "expense", "transfer", "debt_payment"} \subseteq FlowKinds
  BY AnyFlowWhole DEF FlowKinds
<1>4. RecurringFlows = I \o X \o Concatenated(C) \o Concatenated(P)
  BY DEF RecurringFlows
<1>5. \A kind, n : Paid(kind, n) = Weights(RecurringFlows, kind, n)
  BY Zenon DEF Paid, Weights, Weighed, Weight
<1>6. ASSUME NEW n \in 1 .. Len(plan.income)
      PROVE  /\ I[n] \in E
             /\ \A kind, m : kind # "income" => Weight(I[n], kind, m) = 0
  <2>1. plan.income[n].amount \in Int /\ plan.income[n].every \in Frequencies
        /\ plan.income[n].start \in Int /\ plan.income[n].growth \in Int
    BY <1>2, RowsTyped
  <2>2. StartDay(plan.income[n]) \in Nat
    BY <1>1, <2>1
  <2>3. PICK f : f = Flow("income", n, plan.income[n].amount, plan.income[n].every,
                          StartDay(plan.income[n]), plan.income[n].growth, 0)
    OBVIOUS
  <2>4. n \in Int /\ 0 \in Int
    BY <1>2
  <2>5. /\ f \in E
        /\ \A kind, m : Weight(f, kind, m)
             = IF "income" = kind /\ n = m
               THEN Monthly(plan.income[n].amount, plan.income[n].every) ELSE 0
    <3>1. "income" \in FlowKinds
      BY <1>3
    <3>2. Flow("income", n, plan.income[n].amount, plan.income[n].every,
                       StartDay(plan.income[n]), plan.income[n].growth, 0)
            \in AnyFlow
      BY <2>1, <2>2, <2>4, <3>1, FlowWeighs, Zenon
    <3>3. PaysFor(Flow("income", n, plan.income[n].amount, plan.income[n].every,
                       StartDay(plan.income[n]), plan.income[n].growth, 0),
                  "income", n, Monthly(plan.income[n].amount, plan.income[n].every))
      BY <2>1, <2>2, <2>4, <3>1, FlowWeighs, Zenon
    <3> QED BY <2>3, <3>2, <3>3, Zenon DEF PaysFor
  <2>6. I[n] = f
    BY <2>3
  <2> HIDE DEF I, E
  <2> QED BY <2>5, <2>6, Zenon
<1>7. ASSUME NEW n \in 1 .. Len(plan.expense)
      PROVE  /\ X[n] \in E
             /\ \A kind, m : Weight(X[n], kind, m)
                  = IF "expense" = kind /\ n = m
                    THEN Monthly(plan.expense[n].amount, plan.expense[n].every) ELSE 0
  <2>1. plan.expense[n].amount \in Int /\ plan.expense[n].every \in Frequencies
        /\ plan.expense[n].start \in Int /\ Inflation(plan.expense[n]) \in Int
    BY <1>2, RowsTyped DEF Inflation, Projectable
  <2>2. StartDay(plan.expense[n]) \in Nat
    BY <1>1, <2>1
  <2>3. PICK f : f = Flow("expense", n, plan.expense[n].amount, plan.expense[n].every,
                          StartDay(plan.expense[n]), Inflation(plan.expense[n]), 0)
    OBVIOUS
  <2>4. n \in Int /\ 0 \in Int
    BY <1>2
  <2>5. /\ f \in E
        /\ \A kind, m : Weight(f, kind, m)
             = IF "expense" = kind /\ n = m
               THEN Monthly(plan.expense[n].amount, plan.expense[n].every) ELSE 0
    <3>1. "expense" \in FlowKinds
      BY <1>3
    <3>2. Flow("expense", n, plan.expense[n].amount, plan.expense[n].every,
                       StartDay(plan.expense[n]), Inflation(plan.expense[n]), 0)
            \in AnyFlow
      BY <2>1, <2>2, <2>4, <3>1, FlowWeighs, Zenon
    <3>3. PaysFor(Flow("expense", n, plan.expense[n].amount, plan.expense[n].every,
                       StartDay(plan.expense[n]), Inflation(plan.expense[n]), 0),
                  "expense", n, Monthly(plan.expense[n].amount, plan.expense[n].every))
      BY <2>1, <2>2, <2>4, <3>1, FlowWeighs, Zenon
    <3> QED BY <2>3, <3>2, <3>3, Zenon DEF PaysFor
  <2>6. X[n] = f
    BY <2>3
  <2> HIDE DEF X, E
  <2> QED BY <2>5, <2>6, Zenon
<1>8. ASSUME NEW n \in 1 .. Len(plan.asset)
      PROVE  /\ Contribution(n) \in Seq(E)
             /\ \A kind, m : Weights(Contribution(n), kind, m)
                  = IF "transfer" = kind /\ n = m /\ plan.asset[n].recur > 0
                    THEN Monthly(plan.asset[n].recur, plan.asset[n].every) ELSE 0
  <2>1. plan.asset[n].recur \in Int /\ plan.asset[n].every \in Frequencies /\ n \in Int
        /\ 0 \in Nat
    BY <1>2, RowsTyped
  <2>2. PICK f : f = Flow("transfer", n, plan.asset[n].recur, plan.asset[n].every, 0, 0, n)
    OBVIOUS
  <2>3. /\ f \in AnyFlow
        /\ PaysFor(f, "transfer", n, Monthly(plan.asset[n].recur, plan.asset[n].every))
    <3>1. "transfer" \in FlowKinds /\ 0 \in Int
      BY <1>3
    <3>2. Flow("transfer", n, plan.asset[n].recur, plan.asset[n].every, 0, 0, n) \in AnyFlow
      BY <2>1, <3>1, FlowWeighs, Zenon
    <3>3. PaysFor(Flow("transfer", n, plan.asset[n].recur, plan.asset[n].every, 0, 0, n),
                  "transfer", n, Monthly(plan.asset[n].recur, plan.asset[n].every))
      BY <2>1, <3>1, FlowWeighs, Zenon
    <3> QED BY <2>2, <3>2, <3>3, Zenon
  <2>4. Contribution(n) = OneIf(plan.asset[n].recur, f)
    BY <2>2, Zenon DEF Contribution, OneIf
  <2>5. PICK pay : pay = Monthly(plan.asset[n].recur, plan.asset[n].every)
    OBVIOUS
  <2>6. /\ OneIf(plan.asset[n].recur, f) \in Seq(AnyFlow)
        /\ PayWhere(OneIf(plan.asset[n].recur, f), "transfer", n, plan.asset[n].recur, pay)
    BY <2>3, <2>5, WeightsOfOneIf, Zenon
  <2>7. Contribution(n) \in Seq(E)
    BY <2>4, <2>6, Zenon
  <2>8. \A kind, m : Weights(Contribution(n), kind, m)
          = IF "transfer" = kind /\ n = m /\ plan.asset[n].recur > 0 THEN pay ELSE 0
    BY <2>4, <2>6, Zenon DEF PayWhere
  <2> QED BY <2>5, <2>7, <2>8, Zenon
<1>9. ASSUME NEW n \in 1 .. Len(plan.debt)
      PROVE  /\ Payments(n) \in Seq(E)
             /\ \A kind, m : Weights(Payments(n), kind, m)
                  = IF "debt_payment" = kind /\ n = m
                    THEN (IF plan.debt[n].pmt > 0
                          THEN Monthly(plan.debt[n].pmt, plan.debt[n].every) ELSE 0)
                         + (IF plan.debt[n].extra > 0
                            THEN Monthly(plan.debt[n].extra, plan.debt[n].extraEvery) ELSE 0)
                    ELSE 0
  <2>1. plan.debt[n].pmt \in Int /\ plan.debt[n].every \in Frequencies
        /\ plan.debt[n].extra \in Int /\ plan.debt[n].extraEvery \in Frequencies
        /\ plan.debt[n].start \in Int
    BY <1>2, RowsTyped
  <2>2. StartDay(plan.debt[n]) \in Nat
    BY <1>1, <2>1
  <2>3. n \in Int /\ 0 \in Int /\ Len(plan.asset) + n \in Int
    BY <1>2
  <2>4. PICK f : f = Flow("debt_payment", n, plan.debt[n].pmt, plan.debt[n].every,
                          StartDay(plan.debt[n]), 0, Len(plan.asset) + n)
    OBVIOUS
  <2>5. PICK g : g = Flow("debt_payment", n, plan.debt[n].extra, plan.debt[n].extraEvery,
                          StartDay(plan.debt[n]), 0, Len(plan.asset) + n)
    OBVIOUS
  <2>6. /\ f \in AnyFlow
        /\ PaysFor(f, "debt_payment", n, Monthly(plan.debt[n].pmt, plan.debt[n].every))
    <3>1. "debt_payment" \in FlowKinds
      BY <1>3
    <3>2. Flow("debt_payment", n, plan.debt[n].pmt, plan.debt[n].every,
               StartDay(plan.debt[n]), 0, Len(plan.asset) + n)
            \in AnyFlow
      BY <2>1, <2>2, <2>3, <3>1, FlowWeighs, Zenon
    <3>3. PaysFor(Flow("debt_payment", n, plan.debt[n].pmt, plan.debt[n].every,
                       StartDay(plan.debt[n]), 0, Len(plan.asset) + n),
                  "debt_payment", n, Monthly(plan.debt[n].pmt, plan.debt[n].every))
      BY <2>1, <2>2, <2>3, <3>1, FlowWeighs, Zenon
    <3> QED BY <2>4, <3>2, <3>3, Zenon
  <2>7. /\ g \in AnyFlow
        /\ PaysFor(g, "debt_payment", n, Monthly(plan.debt[n].extra, plan.debt[n].extraEvery))
    <3>1. "debt_payment" \in FlowKinds
      BY <1>3
    <3>2. Flow("debt_payment", n, plan.debt[n].extra, plan.debt[n].extraEvery,
               StartDay(plan.debt[n]), 0, Len(plan.asset) + n)
            \in AnyFlow
      BY <2>1, <2>2, <2>3, <3>1, FlowWeighs, Zenon
    <3>3. PaysFor(Flow("debt_payment", n, plan.debt[n].extra, plan.debt[n].extraEvery,
                       StartDay(plan.debt[n]), 0, Len(plan.asset) + n),
                  "debt_payment", n, Monthly(plan.debt[n].extra, plan.debt[n].extraEvery))
      BY <2>1, <2>2, <2>3, <3>1, FlowWeighs, Zenon
    <3> QED BY <2>5, <3>2, <3>3, Zenon
  <2>8. PICK s : s = OneIf(plan.debt[n].pmt, f)
    OBVIOUS
  <2>9. PICK t : t = OneIf(plan.debt[n].extra, g)
    OBVIOUS
  <2>10. Payments(n) = s \o t
    BY <2>4, <2>5, <2>8, <2>9, Zenon DEF Payments, OneIf
  <2>11. PICK pay : pay = Monthly(plan.debt[n].pmt, plan.debt[n].every)
    OBVIOUS
  <2>12. PICK extra : extra = Monthly(plan.debt[n].extra, plan.debt[n].extraEvery)
    OBVIOUS
  <2>13. s \in Seq(AnyFlow) /\ PayWhere(s, "debt_payment", n, plan.debt[n].pmt, pay)
    BY <2>6, <2>8, <2>11, WeightsOfOneIf, Zenon
  <2>14. t \in Seq(AnyFlow) /\ PayWhere(t, "debt_payment", n, plan.debt[n].extra, extra)
    BY <2>7, <2>9, <2>12, WeightsOfOneIf, Zenon
  <2>15. s \o t \in Seq(E)
         /\ \A kind, m : Weights(s \o t, kind, m) = Weights(s, kind, m) + Weights(t, kind, m)
    BY <1>3, <2>13, <2>14, WeightsJoined
  <2>16. ASSUME NEW kind, NEW m
         PROVE  Weights(Payments(n), kind, m)
                  = IF "debt_payment" = kind /\ n = m
                    THEN (IF plan.debt[n].pmt > 0 THEN pay ELSE 0)
                         + (IF plan.debt[n].extra > 0 THEN extra ELSE 0)
                    ELSE 0
    <3>1. Weights(s, kind, m)
            = IF "debt_payment" = kind /\ n = m /\ plan.debt[n].pmt > 0 THEN pay ELSE 0
      BY <2>13, Zenon DEF PayWhere
    <3>2. Weights(t, kind, m)
            = IF "debt_payment" = kind /\ n = m /\ plan.debt[n].extra > 0 THEN extra ELSE 0
      BY <2>14, Zenon DEF PayWhere
    <3>3. Weights(Payments(n), kind, m) = Weights(s, kind, m) + Weights(t, kind, m)
      BY <2>10, <2>15, Zenon
    <3>4. CASE "debt_payment" = kind /\ n = m
      <4>1. Weights(s, kind, m) = IF plan.debt[n].pmt > 0 THEN pay ELSE 0
        BY <3>1, <3>4, Zenon
      <4>2. Weights(t, kind, m) = IF plan.debt[n].extra > 0 THEN extra ELSE 0
        BY <3>2, <3>4, Zenon
      <4> QED BY <3>3, <3>4, <4>1, <4>2, Zenon
    <3>5. CASE ~("debt_payment" = kind /\ n = m)
      <4>1. Weights(s, kind, m) = 0 /\ Weights(t, kind, m) = 0
        BY <3>1, <3>2, <3>5, Zenon
      <4>2. Weights(Payments(n), kind, m) = 0
        BY <3>3, <4>1
      <4> QED BY <3>5, <4>2, Zenon
    <3> QED BY <3>4, <3>5, Zenon
  <2>17. Payments(n) \in Seq(E)
    BY <2>10, <2>15, Zenon
  <2> QED BY <2>11, <2>12, <2>16, <2>17, Zenon
<1>10. PICK CC : CC = Concatenated(C)
  OBVIOUS
<1>11. PICK PP : PP = Concatenated(P)
  OBVIOUS
<1>12. /\ CC \in Seq(E)
       /\ \A n \in Int : Weights(CC, "transfer", n)
            = IF n \in 1 .. Len(plan.asset) THEN Weights(Contribution(n), "transfer", n) ELSE 0
       /\ \A n \in Int : Weights(CC, "expense", n) = 0 /\ Weights(CC, "debt_payment", n) = 0
  <2>1. /\ DOMAIN C = 1 .. Len(plan.asset) /\ Len(C) = Len(plan.asset)
        /\ \A n \in 1 .. Len(plan.asset) : C[n] = Contribution(n)
    BY <1>2
  <2>2. \A n \in 1 .. Len(plan.asset) : C[n] \in Seq(E)
    BY <1>8, <2>1
  <2> HIDE DEF C, E
  <2>3. ASSUME NEW n \in Int, NEW kind \in {"transfer", "expense", "debt_payment"}
        PROVE  /\ Weights(CC, kind, n)
                    = IF n \in 1 .. Len(plan.asset) THEN Weights(C[n], kind, n) ELSE 0
               /\ CC \in Seq(E)
    <3>1. OnlyPart(C, Len(plan.asset), n, kind, n)
      BY <1>8, <2>1 DEF OnlyPart
    <3>3. ArePartsOf(C, Len(plan.asset), E)
      BY <2>1, <2>2, Zenon DEF ArePartsOf
    <3>4. Whole(E) /\ Len(plan.asset) \in Nat
      BY <1>2, <1>3
    <3>2. /\ Weights(Concatenated(C), kind, n)
               = IF n \in 1 .. Len(plan.asset) THEN Weights(C[n], kind, n) ELSE 0
          /\ Concatenated(C) \in Seq(E)
      BY <3>1, <3>3, <3>4, WeightsOfParts
    <3> QED BY <1>10, <3>2
  <2>4. CC \in Seq(E)
    BY <2>3
  <2>5. ASSUME NEW n \in Int, NEW kind \in {"expense", "debt_payment"}
        PROVE  Weights(CC, kind, n) = 0
    <3>1. Weights(CC, kind, n)
            = IF n \in 1 .. Len(plan.asset) THEN Weights(C[n], kind, n) ELSE 0
      BY <2>3
    <3>2. n \in 1 .. Len(plan.asset) => Weights(C[n], kind, n) = 0
      BY <1>8, <2>1
    <3> QED BY <3>1, <3>2
  <2> QED BY <2>1, <2>3, <2>4, <2>5
<1>13. /\ PP \in Seq(E)
       /\ \A n \in Int : Weights(PP, "debt_payment", n)
            = IF n \in 1 .. Len(plan.debt) THEN Weights(Payments(n), "debt_payment", n) ELSE 0
       /\ \A n \in Int : Weights(PP, "expense", n) = 0 /\ Weights(PP, "transfer", n) = 0
  <2>1. /\ DOMAIN P = 1 .. Len(plan.debt) /\ Len(P) = Len(plan.debt)
        /\ \A n \in 1 .. Len(plan.debt) : P[n] = Payments(n)
    BY <1>2
  <2>2. \A n \in 1 .. Len(plan.debt) : P[n] \in Seq(E)
    BY <1>9, <2>1
  <2> HIDE DEF P, E
  <2>3. ASSUME NEW n \in Int, NEW kind \in {"transfer", "expense", "debt_payment"}
        PROVE  /\ Weights(PP, kind, n)
                    = IF n \in 1 .. Len(plan.debt) THEN Weights(P[n], kind, n) ELSE 0
               /\ PP \in Seq(E)
    <3>1. OnlyPart(P, Len(plan.debt), n, kind, n)
      BY <1>9, <2>1 DEF OnlyPart
    <3>3. ArePartsOf(P, Len(plan.debt), E)
      BY <2>1, <2>2, Zenon DEF ArePartsOf
    <3>4. Whole(E) /\ Len(plan.debt) \in Nat
      BY <1>2, <1>3
    <3>2. /\ Weights(Concatenated(P), kind, n)
               = IF n \in 1 .. Len(plan.debt) THEN Weights(P[n], kind, n) ELSE 0
          /\ Concatenated(P) \in Seq(E)
      BY <3>1, <3>3, <3>4, WeightsOfParts
    <3> QED BY <1>11, <3>2
  <2>4. PP \in Seq(E)
    BY <2>3
  <2>5. ASSUME NEW n \in Int, NEW kind \in {"expense", "transfer"}
        PROVE  Weights(PP, kind, n) = 0
    <3>1. Weights(PP, kind, n)
            = IF n \in 1 .. Len(plan.debt) THEN Weights(P[n], kind, n) ELSE 0
      BY <2>3
    <3>2. n \in 1 .. Len(plan.debt) => Weights(P[n], kind, n) = 0
      BY <1>9, <2>1
    <3> QED BY <3>1, <3>2
  <2> QED BY <2>1, <2>3, <2>4, <2>5
<1>14. /\ I \in Seq(E)
       /\ \A kind, n : kind # "income" => Weights(I, kind, n) = 0
  <2>1. I \in Seq(E) /\ Len(I) = Len(plan.income)
    <3>1. I = [n \in 1 .. Len(plan.income) |-> I[n]]
      OBVIOUS
    <3> HIDE DEF I, E
    <3> QED BY <1>2, <1>6, <3>1, FunctionIsSequence
  <2> HIDE DEF I, E
  <2>2. ASSUME NEW kind, NEW n, kind # "income" PROVE Weights(I, kind, n) = 0
    <3>1. \A i \in 1 .. Len(I) : Weight(I[i], kind, n) = 0
      BY <1>6, <2>1, <2>2
    <3> QED BY <1>3, <2>1, <3>1, WeightsOfNone
  <2> QED BY <2>1, <2>2
<1>15. /\ X \in Seq(E)
       /\ \A kind, n : kind # "expense" => Weights(X, kind, n) = 0
       /\ \A n \in 1 .. Len(plan.expense) : Weights(X, "expense", n)
            = Monthly(plan.expense[n].amount, plan.expense[n].every)
  <2>1. X \in Seq(E) /\ Len(X) = Len(plan.expense)
    <3>1. X = [n \in 1 .. Len(plan.expense) |-> X[n]]
      OBVIOUS
    <3> HIDE DEF X, E
    <3> QED BY <1>2, <1>7, <3>1, FunctionIsSequence
  <2> HIDE DEF X, E
  <2>2. ASSUME NEW kind, NEW n, kind # "expense" PROVE Weights(X, kind, n) = 0
    <3>1. \A i \in 1 .. Len(X) : Weight(X[i], kind, n) = 0
      BY <1>7, <2>1, <2>2
    <3> QED BY <1>3, <2>1, <3>1, WeightsOfNone
  <2>3. ASSUME NEW n \in 1 .. Len(plan.expense)
        PROVE  Weights(X, "expense", n) = Monthly(plan.expense[n].amount, plan.expense[n].every)
    <3>1. \A i \in 1 .. Len(X) : i # n => Weight(X[i], "expense", n) = 0
      BY <1>7, <2>1
    <3>2. Weights(X, "expense", n) = Weight(X[n], "expense", n)
      BY <1>3, <2>1, <3>1, WeightsOfOne
    <3> QED BY <1>7, <3>2
  <2> QED BY <2>1, <2>2, <2>3
<1> HIDE DEF I, X, C, P, E
<1>16. ASSUME NEW kind, NEW n
       PROVE  /\ Weights(RecurringFlows, kind, n)
                   = Weights(I, kind, n) + Weights(X, kind, n) + Weights(CC, kind, n)
                     + Weights(PP, kind, n)
              /\ Weights(I, kind, n) \in Int /\ Weights(X, kind, n) \in Int
              /\ Weights(CC, kind, n) \in Int /\ Weights(PP, kind, n) \in Int
  <2>1. PICK IX : IX = I \o X
    OBVIOUS
  <2>2. PICK IXC : IXC = IX \o CC
    OBVIOUS
  <2>9. /\ Whole(E) /\ I \in Seq(E) /\ X \in Seq(E) /\ CC \in Seq(E)
        /\ PP \in Seq(E)
    BY <1>3, <1>12, <1>13, <1>14, <1>15
  <2>3. IX \in Seq(E)
    BY <1>14, <1>15, <2>1
  <2>4. IXC \in Seq(E)
    BY <1>12, <2>2, <2>3
  <2>5. RecurringFlows = IXC \o PP
    BY <1>4, <1>10, <1>11, <2>1, <2>2
  <2>6. /\ Weights(IX, kind, n) = Weights(I, kind, n) + Weights(X, kind, n)
        /\ Weights(I, kind, n) \in Int /\ Weights(X, kind, n) \in Int
    BY <2>9, <2>1, WeightsJoined
  <2>7. /\ Weights(IXC, kind, n) = Weights(IX, kind, n) + Weights(CC, kind, n)
        /\ Weights(CC, kind, n) \in Int
    BY <2>2, <2>3, <2>9, WeightsJoined
  <2>8. /\ Weights(RecurringFlows, kind, n) = Weights(IXC, kind, n) + Weights(PP, kind, n)
        /\ Weights(PP, kind, n) \in Int
    BY <2>4, <2>5, <2>9, WeightsJoined
  <2> QED BY <2>6, <2>7, <2>8
<1>17. ASSUME NEW n \in DOMAIN plan.asset
       PROVE  Paid("transfer", n)
                = IF plan.asset[n].recur > 0
                  THEN Monthly(plan.asset[n].recur, plan.asset[n].every) ELSE 0
  <2>1. n \in 1 .. Len(plan.asset) /\ n \in Int
    BY <1>2
  <2>2. /\ Weights(I, "transfer", n) = 0 /\ Weights(X, "transfer", n) = 0
        /\ Weights(PP, "transfer", n) = 0
        /\ Weights(CC, "transfer", n) = Weights(Contribution(n), "transfer", n)
    BY <1>12, <1>13, <1>14, <1>15, <2>1
  <2>3. Paid("transfer", n) = Weights(CC, "transfer", n)
    BY <1>5, <1>16, <2>2
  <2> QED BY <1>8, <2>1, <2>2, <2>3
<1>18. ASSUME NEW n \in DOMAIN plan.expense
       PROVE  Paid("expense", n) = Monthly(plan.expense[n].amount, plan.expense[n].every)
  <2>1. n \in 1 .. Len(plan.expense) /\ n \in Int
    BY <1>2
  <2>2. /\ Weights(I, "expense", n) = 0 /\ Weights(CC, "expense", n) = 0
        /\ Weights(PP, "expense", n) = 0
    BY <1>12, <1>13, <1>14, <2>1
  <2>3. Paid("expense", n) = Weights(X, "expense", n)
    BY <1>5, <1>16, <2>2
  <2> QED BY <1>15, <2>1, <2>3
<1>19. ASSUME NEW n \in DOMAIN plan.debt
       PROVE  Paid("debt_payment", n)
                = (IF plan.debt[n].pmt > 0
                   THEN Monthly(plan.debt[n].pmt, plan.debt[n].every) ELSE 0)
                  + (IF plan.debt[n].extra > 0
                     THEN Monthly(plan.debt[n].extra, plan.debt[n].extraEvery) ELSE 0)
  <2>1. n \in 1 .. Len(plan.debt) /\ n \in Int
    BY <1>2
  <2>2. /\ Weights(I, "debt_payment", n) = 0 /\ Weights(X, "debt_payment", n) = 0
        /\ Weights(CC, "debt_payment", n) = 0
        /\ Weights(PP, "debt_payment", n) = Weights(Payments(n), "debt_payment", n)
    BY <1>12, <1>13, <1>14, <1>15, <2>1
  <2>3. Paid("debt_payment", n) = Weights(PP, "debt_payment", n)
    BY <1>5, <1>16, <2>2
  <2> QED BY <1>9, <2>1, <2>2, <2>3
<1> QED BY <1>17, <1>18, <1>19

-----------------------------------------------------------------------------
(***************************************************************************)
(* What the flows say and what is paid.                                    *)
(***************************************************************************)

\* The flows of a document add up to the same in whatever holds its rows.
LEMMA SameFlows ==
  ASSUME NEW s, NEW alt, \A kind \in Kinds : s[kind] = alt[kind], NEW edges, NEW node
  PROVE  /\ FlowsInto(s, edges, node) = FlowsInto(alt, edges, node)
         /\ \A flows : InAMonth(s, flows) = InAMonth(alt, flows)
<1>1. Nodes(s) = Nodes(alt)
  <2>1. {{kind} \X DOMAIN s[kind] : kind \in Kinds} = {{kind} \X DOMAIN alt[kind] : kind \in Kinds}
    BY Zenon
  <2> QED BY <2>1 DEF Nodes
<1>2. s.income = alt.income
  BY DEF Kinds
<1>3. \A edge : Counts(s, edge) <=> Counts(alt, edge)
  BY <1>1, Zenon DEF Counts
<1>4. {i \in DOMAIN edges : edges[i].to = node /\ Counts(s, edges[i])}
        = {i \in DOMAIN edges : edges[i].to = node /\ Counts(alt, edges[i])}
  BY <1>3, Zenon
<1>5. \A edge : MonthlyFlow(s, edge) = MonthlyFlow(alt, edge)
  BY <1>2, Zenon DEF MonthlyFlow
<1>6. ASSUME NEW flows PROVE InAMonth(s, flows) = InAMonth(alt, flows)
  <2>1. [i \in DOMAIN flows |-> MonthlyFlow(s, flows[i])]
          = [i \in DOMAIN flows |-> MonthlyFlow(alt, flows[i])]
    BY <1>5
  <2> QED BY <2>1, Zenon DEF InAMonth
<1> QED BY <1>4, <1>6, Zenon DEF FlowsInto

\* No flows add up to nothing.
LEMMA NoneDrawn ==
  ASSUME NEW a, NEW flows, DOMAIN flows = {}
  PROVE  InAMonth(a, flows) = 0
<1> PICK ns : ns = [i \in DOMAIN flows |-> MonthlyFlow(a, flows[i])]
  OBVIOUS
<1>1. ns = [i \in 1 .. 0 |-> ns[i]]
  OBVIOUS
<1>2. \A i \in 1 .. 0 : ns[i] \in Int
  OBVIOUS
<1>3. ns \in Seq(Int) /\ Len(ns) = 0
  BY <1>1, <1>2, FunctionIsSequence
<1>4. \A i \in 1 .. Len(ns) : ns[i] = 0
  BY <1>3
<1>5. Total(ns) = 0
  BY <1>3, <1>4, SumOfZeros
<1> QED BY <1>5 DEF InAMonth

\* Where there are no flows, none leads to a row.
LEMMA NoneLeads ==
  ASSUME NEW a, NEW node
  PROVE  DOMAIN FlowsInto(a, << >>, node) = {}
<1> PICK none : none = << >>
  OBVIOUS
<1> PICK K : K = {i \in DOMAIN none : none[i].to = node /\ Counts(a, none[i])}
  OBVIOUS
<1>1. IsSequence(none) /\ DOMAIN none = {}
  BY DEF IsSequence
<1>2. \A i \in DOMAIN Kept(none, K) : \E j \in K \cap DOMAIN none : Kept(none, K)[i] = none[j]
  BY <1>1, KeptElements
<1>3. DOMAIN Kept(none, K) = {}
  BY <1>1, <1>2
<1> QED BY <1>3 DEF FlowsInto

\* An amount in cents, paid monthly where there is one, is off by half a cent at most;
\* with something on top of it, it is no less than that.
LEMMA PaidNear ==
  ASSUME NEW n \in Int, NEW r, r = Round(n, MonthlyScale)
  PROVE  /\ r \in Int
         /\ n > 0 => /\ 2 * Magnitude(r * MonthlyScale - n) <= MonthlyScale
                     /\ 2 * Magnitude((IF r > 0 THEN r * MonthlyScale ELSE 0) - n)
                          <= MonthlyScale
         /\ \A x \in Int : x >= 0 =>
              2 * ((x + (IF r > 0 THEN r * MonthlyScale ELSE 0)) - n) >= -MonthlyScale
<1>1. /\ r \in Int /\ 2 * (r * MonthlyScale - n) <= MonthlyScale
      /\ 2 * (n - r * MonthlyScale) <= MonthlyScale
  BY RoundedNear
<1>2. MonthlyScale = 60000
  BY DEF MonthlyScale
<1> QED BY <1>1, <1>2 DEF Magnitude

\* What is written into the rows of assets and expenses.
LEMMA WrittenIs ==
  ASSUME NEW row, NEW n, NEW flows
  PROVE  /\ "recur" \in DOMAIN row /\ n > 0
              => FlowIntoAsset(row, n, flows).recur = Round(n, MonthlyScale)
         /\ {"amount", "every"} \subseteq DOMAIN row /\ flows # << >>
              => /\ FlowIntoExpense(row, n, flows).amount = n
                 /\ FlowIntoExpense(row, n, flows).every = "monthly"
<1>1. ASSUME "recur" \in DOMAIN row, n > 0
      PROVE  FlowIntoAsset(row, n, flows).recur = Round(n, MonthlyScale)
  <2>1. PICK r : r = Round(n, MonthlyScale)
    OBVIOUS
  <2> QED BY <1>1, <2>1 DEF FlowIntoAsset
<1>2. ASSUME {"amount", "every"} \subseteq DOMAIN row, flows # << >>
      PROVE  /\ FlowIntoExpense(row, n, flows).amount = n
             /\ FlowIntoExpense(row, n, flows).every = "monthly"
  BY <1>2 DEF FlowIntoExpense
<1> QED BY <1>1, <1>2

\* What is paid for a debt: something, and the extra payments on top.
LEMMA DebtPaid ==
  ASSUME Projectable(plan), NEW n \in DOMAIN plan.debt
  PROVE  /\ Paid("debt_payment", n) \in Int /\ Paid("debt_payment", n) >= 0
         /\ \E x \in Int : /\ x >= 0
                          /\ Paid("debt_payment", n)
                               = x + (IF plan.debt[n].extra > 0
                                      THEN Monthly(plan.debt[n].extra, plan.debt[n].extraEvery)
                                      ELSE 0)
<1>1. PICK pmt : pmt = plan.debt[n].pmt
  OBVIOUS
<1>2. PICK extra : extra = plan.debt[n].extra
  OBVIOUS
<1>3. PICK every : every = plan.debt[n].every
  OBVIOUS
<1>4. PICK extraEvery : extraEvery = plan.debt[n].extraEvery
  OBVIOUS
<1>5. pmt \in Int /\ extra \in Int /\ every \in Frequencies /\ extraEvery \in Frequencies
  BY <1>1, <1>2, <1>3, <1>4, RowsTyped
<1>6. PICK x : x = IF pmt > 0 THEN Monthly(pmt, every) ELSE 0
  OBVIOUS
<1>7. PICK y : y = IF extra > 0 THEN Monthly(extra, extraEvery) ELSE 0
  OBVIOUS
<1>8. Paid("debt_payment", n) = x + y
  BY <1>1, <1>2, <1>3, <1>4, <1>6, <1>7, PaidIs
<1>9. x \in Int /\ x >= 0
  BY <1>5, <1>6, MonthlyWhole
<1>10. y \in Int /\ y >= 0
  BY <1>5, <1>7, MonthlyWhole
<1>11. x + y \in Int /\ x + y >= 0
  BY <1>9, <1>10
<1> QED BY <1>2, <1>4, <1>7, <1>8, <1>9, <1>11

\* What a projection pays is what the flows on the screen add up to.
LEMMA FlowsSuffice ==
  RunInv /\ ValuesInv /\ ProjectedInv => FlowsArePaid
<1> SUFFICES ASSUME RunInv, ValuesInv, ProjectedInv, phase = "seed",
                    projected \in DOMAIN store.alternatives
             PROVE  FlowsArePaid
  BY Zenon DEF FlowsArePaid
<1>a. PICK s : s = ScenarioOf(projected)
  OBVIOUS
<1>b. PICK alt : alt = store.alternatives[projected]
  OBVIOUS
<1>1. projected \notin NoNames /\ plan = Routed(s)
  BY <1>a DEF ValuesInv, Sound, ProjectedInv
<1>2. /\ Filled(s) /\ Projectable(s) /\ Filled(alt)
      /\ \A kind \in Kinds : s[kind] = alt[kind]
      /\ s.edges = PipelineOf(store, projected).edges
  <2>1. /\ Filled(ScenarioOf(projected)) /\ Projectable(ScenarioOf(projected))
        /\ Filled(store.alternatives[projected])
        /\ \A kind \in Kinds :
             ScenarioOf(projected)[kind] = store.alternatives[projected][kind]
        /\ ScenarioOf(projected).edges = PipelineOf(store, projected).edges
    BY ScenarioHas, Zenon
  <2> QED BY <1>a, <1>b, <2>1, Zenon
<1>3. Projectable(plan)
  BY DEF RunInv
<1> DEFINE Into(kind, n) == FlowsInto(s, s.edges, <<kind, n>>)
           D(kind, n) == InAMonth(s, Into(kind, n))
<1>4. \A kind, n : Drawn(<<kind, n>>) = D(kind, n)
  <2>1. \A node : Drawn(node) = InAMonth(alt, FlowsInto(alt, s.edges, node))
    BY <1>b, <1>2, Zenon DEF Drawn
  <2>2. \A kind \in Kinds : s[kind] = alt[kind]
    BY <1>2
  <2>3. ASSUME NEW node PROVE FlowsInto(s, s.edges, node) = FlowsInto(alt, s.edges, node)
    BY <2>2, SameFlows
  <2>4. ASSUME NEW flows PROVE InAMonth(s, flows) = InAMonth(alt, flows)
    BY <2>2, SameFlows
  <2> QED BY <2>1, <2>3, <2>4
<1>5. /\ IsEdges(s.edges) /\ (\A kind \in Kinds : IsRows(kind, s[kind]))
      /\ Kinds \subseteq DOMAIN s /\ s.today \in Int
  BY <1>2, Zenon DEF Projectable, Filled, HasRows
<1>6. \A kind, n : D(kind, n) \in Int
  BY <1>5, FlowsIntoTyped, Zenon
<1>7. \A kind, n : Into(kind, n) = << >> => D(kind, n) = 0
  <2>1. ASSUME NEW kind, NEW n, Into(kind, n) = << >> PROVE D(kind, n) = 0
    <3>1. DOMAIN Into(kind, n) = {}
      <4> HIDE DEF Into
      <4> QED BY <2>1
    <3> HIDE DEF Into
    <3> QED BY <3>1, NoneDrawn
  <2> QED BY <2>1
<1> HIDE DEF D
<1>8. /\ \A n \in DOMAIN plan.asset :
           plan.asset[n].recur \in Int /\ plan.asset[n].every \in Frequencies
      /\ \A n \in DOMAIN plan.expense :
           plan.expense[n].amount \in Int /\ plan.expense[n].every \in Frequencies
      /\ \A n \in DOMAIN plan.debt :
           /\ plan.debt[n].pmt \in Int /\ plan.debt[n].every \in Frequencies
           /\ plan.debt[n].extra \in Int /\ plan.debt[n].extraEvery \in Frequencies
  BY <1>3, RowsTyped
<1>9. Assets = DOMAIN plan.asset
  <2>1. DOMAIN plan.asset = 1 .. Len(plan.asset)
    BY <1>3, RowsTyped DEF Kinds
  <2> QED BY <2>1 DEF Assets
<1>10. CASE s.edges = << >>
  <2>1. \A kind, n : D(kind, n) = 0
    <3>1. \A kind, n : DOMAIN Into(kind, n) = {}
      BY <1>10, NoneLeads
    <3>2. ASSUME NEW kind, NEW n PROVE D(kind, n) = 0
      <4> HIDE DEF Into
      <4>1. DOMAIN Into(kind, n) = {}
        BY <3>1
      <4> QED BY <4>1, NoneDrawn DEF D
    <3> QED BY <3>2
  <2>2. \A kind, n : ~(Drawn(<<kind, n>>) > 0)
    <3>1. ASSUME NEW kind, NEW n PROVE ~(Drawn(<<kind, n>>) > 0)
      <4>1. Drawn(<<kind, n>>) = 0
        BY <1>4, <2>1
      <4> QED BY <4>1
    <3> QED BY <3>1
  <2>3. ASSUME NEW n \in DOMAIN plan.debt
        PROVE  2 * (Paid("debt_payment", n) - Drawn(<<"debt", n>>)) >= -MonthlyScale
    <3>1. Drawn(<<"debt", n>>) = 0
      BY <1>4, <2>1
    <3>2. Paid("debt_payment", n) \in Int /\ Paid("debt_payment", n) >= 0
      BY <1>3, DebtPaid
    <3>3. MonthlyScale = 60000
      BY DEF MonthlyScale
    <3> QED BY <3>1, <3>2, <3>3
  <2> QED BY <2>2, <2>3 DEF FlowsArePaid
<1>11. CASE s.edges # << >>
  <2>1. /\ \A kind \in Kinds : DOMAIN plan[kind] = DOMAIN s[kind]
        /\ \A n \in DOMAIN s.asset :
             plan.asset[n] = FlowIntoAsset(s.asset[n], D("asset", n), Into("asset", n))
        /\ \A n \in DOMAIN s.debt :
             plan.debt[n] = FlowIntoDebt(s.debt[n], Round(D("debt", n), MonthlyScale),
                                         Into("debt", n), s.today)
        /\ \A n \in DOMAIN s.expense :
             plan.expense[n] = FlowIntoExpense(s.expense[n],
                                               Round(D("expense", n), MonthlyScale),
                                               Into("expense", n))
    <3>1. plan = ApplyFlows(s, s.edges, s.today)
      BY <1>1, <1>11 DEF Routed
    <3>2. /\ \A kind \in Kinds : DOMAIN plan[kind] = DOMAIN s[kind]
          /\ \A n \in DOMAIN s.asset :
               plan.asset[n] = FlowIntoAsset(s.asset[n], InAMonth(s, Into("asset", n)),
                                             Into("asset", n))
          /\ \A n \in DOMAIN s.debt :
               plan.debt[n] = FlowIntoDebt(s.debt[n], Sum(s, Into("debt", n)),
                                           Into("debt", n), s.today)
          /\ \A n \in DOMAIN s.expense :
               plan.expense[n] = FlowIntoExpense(s.expense[n], Sum(s, Into("expense", n)),
                                                 Into("expense", n))
      BY <1>5, <3>1, FlowsWritten
    <3> HIDE DEF Into
    <3> QED BY <3>2 DEF D, Sum
  <2> HIDE DEF Into
  <2>2. /\ DOMAIN plan.asset = DOMAIN s.asset /\ DOMAIN plan.debt = DOMAIN s.debt
        /\ DOMAIN plan.expense = DOMAIN s.expense
    BY <2>1 DEF Kinds
  <2>4. /\ \A n \in DOMAIN s.asset : "recur" \in DOMAIN s.asset[n]
        /\ \A n \in DOMAIN s.expense : {"amount", "every"} \subseteq DOMAIN s.expense[n]
        /\ \A n \in DOMAIN s.debt : {"extra", "extraEvery"} \subseteq DOMAIN s.debt[n]
    <3>1. IsRows("asset", s.asset) /\ IsRows("expense", s.expense) /\ IsRows("debt", s.debt)
      BY <1>5 DEF Kinds
    <3> QED BY <3>1
            DEF IsRows, FieldsOf, HasFields, AssetFields, DebtFields, FlowFields
  <2>3. ASSUME NEW n \in DOMAIN plan.asset,
               Drawn(<<"asset", n>>) > 0, plan.asset[n].every = "monthly"
        PROVE  2 * Magnitude(Paid("transfer", n) - Drawn(<<"asset", n>>)) <= MonthlyScale
    <3>1. PICK d \in Int : d = Drawn(<<"asset", n>>) /\ d = D("asset", n)
      BY <1>4, <1>6
    <3>2. plan.asset[n].recur = Round(d, MonthlyScale)
      <4>1. "recur" \in DOMAIN s.asset[n]
        BY <2>2, <2>4
      <4> QED BY <2>1, <2>2, <2>3, <3>1, <4>1, WrittenIs
    <3>3. Paid("transfer", n) = IF plan.asset[n].recur > 0
                                THEN Monthly(plan.asset[n].recur, "monthly") ELSE 0
      BY <1>3, <2>3, PaidIs
    <3>4. Monthly(plan.asset[n].recur, "monthly") = plan.asset[n].recur * MonthlyScale
      BY <1>8, MonthlyWhole
    <3> QED BY <2>3, <3>1, <3>2, <3>3, <3>4, PaidNear
  <2>5. ASSUME NEW n \in DOMAIN plan.expense, Drawn(<<"expense", n>>) > 0
        PROVE  2 * Magnitude(Paid("expense", n) - Drawn(<<"expense", n>>)) <= MonthlyScale
    <3>1. PICK d \in Int : d = Drawn(<<"expense", n>>) /\ d = D("expense", n)
      BY <1>4, <1>6
    <3>2. Into("expense", n) # << >>
      <4>1. D("expense", n) # 0
        BY <2>5, <3>1
      <4> QED BY <1>7, <4>1, Zenon
    <3>3. PICK r : r = Round(d, MonthlyScale)
      OBVIOUS
    <3>4. plan.expense[n].amount = r /\ plan.expense[n].every = "monthly"
      <4>1. {"amount", "every"} \subseteq DOMAIN s.expense[n]
        BY <2>2, <2>4
      <4>2. plan.expense[n] = FlowIntoExpense(s.expense[n], r, Into("expense", n))
        BY <2>1, <2>2, <3>1, <3>3
      <4> QED BY <3>2, <4>1, <4>2, WrittenIs
    <3>5. Paid("expense", n) = Monthly(r, "monthly")
      BY <1>3, <3>4, PaidIs
    <3>6. r \in Int
      BY <1>8, <3>4
    <3>7. Monthly(r, "monthly") = r * MonthlyScale
      <4>1. "monthly" \in Frequencies
        BY DEF Frequencies
      <4> QED BY <3>6, <4>1, MonthlyWhole
    <3> QED BY <2>5, <3>1, <3>3, <3>5, <3>7, PaidNear
  <2>6. ASSUME NEW n \in DOMAIN plan.debt
        PROVE  2 * (Paid("debt_payment", n) - Drawn(<<"debt", n>>)) >= -MonthlyScale
    <3>1. PICK d \in Int : d = Drawn(<<"debt", n>>) /\ d = D("debt", n)
      BY <1>4, <1>6
    <3>2. CASE Into("debt", n) = << >>
      <4>1. d = 0
        BY <1>7, <3>1, <3>2
      <4>2. Paid("debt_payment", n) \in Int /\ Paid("debt_payment", n) >= 0
        BY <1>3, DebtPaid
      <4>3. MonthlyScale = 60000
        BY DEF MonthlyScale
      <4> QED BY <3>1, <4>1, <4>2, <4>3
    <3>3. CASE Into("debt", n) # << >>
      <4>1. PICK r : r = Round(d, MonthlyScale)
        OBVIOUS
      <4>2. plan.debt[n].extra = r /\ plan.debt[n].extraEvery = "monthly"
        <5>1. {"extra", "extraEvery"} \subseteq DOMAIN s.debt[n]
          BY <2>2, <2>4
        <5>2. plan.debt[n] = FlowIntoDebt(s.debt[n], r, Into("debt", n), s.today)
          BY <2>1, <2>2, <3>1, <4>1
        <5> PICK row, flows : row = s.debt[n] /\ flows = Into("debt", n)
          OBVIOUS
        <5>3. {"extra", "extraEvery"} \subseteq DOMAIN row /\ flows # << >>
          BY <3>3, <5>1
        <5>4. /\ FlowIntoDebt(row, r, flows, s.today).extra = r
              /\ FlowIntoDebt(row, r, flows, s.today).extraEvery = "monthly"
          BY <5>3 DEF FlowIntoDebt
        <5>5. plan.debt[n] = FlowIntoDebt(row, r, flows, s.today)
          BY <5>2, Zenon
        <5> QED BY <5>4, <5>5
      <4>3. PICK x \in Int : /\ x >= 0
                            /\ Paid("debt_payment", n)
                                 = x + (IF r > 0 THEN Monthly(r, "monthly") ELSE 0)
        BY <1>3, <4>2, DebtPaid
      <4>4. r \in Int
        BY <1>8, <4>2
      <4>5. Monthly(r, "monthly") = r * MonthlyScale
        <5>1. "monthly" \in Frequencies
          BY DEF Frequencies
        <5> QED BY <4>4, <5>1, MonthlyWhole
      <4>6. 2 * ((x + (IF r > 0 THEN r * MonthlyScale ELSE 0)) - d) >= -MonthlyScale
        BY <4>1, <4>3, PaidNear
      <4> QED BY <3>1, <4>3, <4>5, <4>6
    <3> QED BY <3>2, <3>3
  <2> QED BY <1>9, <2>3, <2>5, <2>6 DEF FlowsArePaid
<1> QED BY <1>10, <1>11

-----------------------------------------------------------------------------
(***************************************************************************)
(* The projection follows the plan.                                        *)
(***************************************************************************)

\* A session starts with it.
LEMMA InitSession == DashboardInit => SessionInv
<1> SUFFICES ASSUME DashboardInit PROVE SessionInv
  OBVIOUS
<1>1. Init
  BY DEF DashboardInit
<1>2. phase = "unbuilt"
  BY <1>1 DEF Init
<1>3. StartInv
  BY <1>2 DEF StartInv
<1>4. RunInv /\ BooksInv
  <2>1. BooksInv
    BY <1>1 DEF Init, BooksInv, Built
  <2> QED BY <1>1, <2>1, InitRun
<1> QED BY <1>3, <1>4, DashInit, InitProjected DEF SessionInv

\* Every step of a session keeps it.
LEMMA SessionStep ==
  SessionInv /\ [DashboardNext]_<<ledgerVars, allPlanVars, dashboardVars>> => SessionInv'
<1> SUFFICES ASSUME SessionInv, [DashboardNext]_<<ledgerVars, allPlanVars, dashboardVars>>
             PROVE  SessionInv'
  OBVIOUS
<1>1. DashInv'
  BY DashStep DEF SessionInv
<1>2. Stepped
  BY DashboardStepped DEF SessionInv, DashInv
<1>3. RunInv' /\ BooksInv' /\ StartInv'
  BY <1>2, RunStep, BooksStep, StartStep DEF SessionInv
<1>4. ProjectedInv'
  BY ProjectedStep DEF SessionInv, DashInv
<1> QED BY <1>1, <1>3, <1>4 DEF SessionInv

\* In every session in which a plan is edited, charted and projected: a projection that
\* starts without a checkpoint starts from the net worth the screens show, and a month of
\* it pays, to half a cent, what the flows on the screen add up to.
THEOREM ProjectionIsThatOfThePlan == DashboardSpec => []ProjectionFollowsPlan
<1>1. DashboardInit => SessionInv
  BY InitSession
<1>2. SessionInv /\ [DashboardNext]_<<ledgerVars, allPlanVars, dashboardVars>> => SessionInv'
  BY SessionStep
<1>3. SessionInv => ProjectionFollowsPlan
  BY StartSuffices, FlowsSuffice DEF SessionInv, DashInv, ProjectionFollowsPlan
<1> QED BY <1>1, <1>2, <1>3, PTL DEF DashboardSpec
=============================================================================
