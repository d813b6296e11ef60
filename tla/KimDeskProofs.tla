--------------------------- MODULE KimDeskProofs ---------------------------
(***************************************************************************)
(* Proofs about KimDesk: for any tasks, any number of administrators and   *)
(* any times.                                                              *)
(***************************************************************************)
EXTENDS KimDesk, SequenceTheorems, FiniteSetTheorems, WellFoundedInduction, TLAPS

-----------------------------------------------------------------------------
(***************************************************************************)
(* The rows of a list                                                      *)
(***************************************************************************)

\* In a list without repetitions an element has one index.
LEMMA IndexOfElement ==
  ASSUME NEW s, IsInjective(s), NEW i \in DOMAIN s
  PROVE  IndexOf(s, s[i]) = i
BY DEF IndexOf, IsInjective

\* Where the elements that remain were before element i was taken out.
Before(i, j) == IF j < i THEN j ELSE j + 1

LEMMA RemoveAtElements ==
  ASSUME NEW S, NEW s \in Seq(S), NEW i \in DOMAIN s, NEW t, t = RemoveAt(s, i)
  PROVE  /\ t \in Seq(S) /\ Len(t) = Len(s) - 1
         /\ DOMAIN t = 1..Len(t) /\ Len(s) \in Nat \ {0} /\ DOMAIN s = 1..Len(s)
         /\ \A j \in DOMAIN t : /\ Before(i, j) \in DOMAIN s
                                /\ t[j] = s[Before(i, j)]
<1> DEFINE a == SubSeq(s, 1, i - 1)
           b == SubSeq(s, i + 1, Len(s))
<1>1. /\ DOMAIN s = 1..Len(s) /\ Len(s) \in Nat \ {0} /\ i \in 1..Len(s)
      /\ \A j \in 1..Len(s) : s[j] \in S
  BY LenProperties, ElementOfSeq
<1>2. /\ a \in Seq(S) /\ Len(a) = i - 1
      /\ \A j \in 1..(i - 1) : a[j] = s[j]
  <2>1. /\ a \in Seq(S) /\ Len(a) = IF 1 <= i - 1 THEN (i - 1) - 1 + 1 ELSE 0
        /\ \A j \in 1 .. (i - 1) - 1 + 1 : a[j] = s[1 + j - 1]
    BY <1>1, SubSeqProperties
  <2> QED
    BY <1>1, <2>1
<1>3. /\ b \in Seq(S) /\ Len(b) = Len(s) - i
      /\ \A j \in 1..(Len(s) - i) : b[j] = s[i + j]
  <2>1. /\ b \in Seq(S) /\ Len(b) = IF i + 1 <= Len(s) THEN Len(s) - (i + 1) + 1 ELSE 0
        /\ \A j \in 1 .. Len(s) - (i + 1) + 1 : b[j] = s[(i + 1) + j - 1]
    BY <1>1, SubSeqProperties, SMTT(30)
  <2> QED
    BY <1>1, <2>1
<1>4. t = a \o b
  BY DEF RemoveAt
<1> HIDE DEF a, b
<1>5. /\ t \in Seq(S) /\ Len(t) = Len(a) + Len(b)
      /\ \A j \in 1 .. Len(a) + Len(b) :
           (j <= Len(a) => t[j] = a[j]) /\ (~(j <= Len(a)) => t[j] = b[j - Len(a)])
  <2>1. a \in Seq(S) /\ b \in Seq(S)
    BY <1>2, <1>3
  <2>2. t \in Seq(S)
    BY <1>4, <2>1, ConcatProperties
  <2>3. Len(t) = Len(a) + Len(b)
    BY <1>4, <2>1, ConcatProperties
  <2>4. \A j \in 1 .. Len(a) + Len(b) :
           (j <= Len(a) => t[j] = a[j]) /\ (~(j <= Len(a)) => t[j] = b[j - Len(a)])
    BY <1>4, <2>1, ConcatProperties
  <2> QED
    BY <2>2, <2>3, <2>4
<1>6. /\ t \in Seq(S) /\ Len(t) = Len(s) - 1 /\ DOMAIN t = 1..Len(t)
  BY <1>1, <1>2, <1>3, <1>5, LenProperties
<1>7. ASSUME NEW j \in DOMAIN t
      PROVE  Before(i, j) \in DOMAIN s /\ t[j] = s[Before(i, j)]
  <2>1. j \in 1..(Len(s) - 1) /\ j \in 1 .. Len(a) + Len(b)
    BY <1>1, <1>5, <1>6
  <2>2. CASE j < i
    BY <1>1, <1>2, <1>5, <2>1, <2>2 DEF Before
  <2>3. CASE ~(j < i)
    <3>1. j - (i - 1) \in 1..(Len(s) - i) /\ i + (j - (i - 1)) = j + 1
      BY <1>1, <2>1, <2>3
    <3>2. t[j] = b[j - (i - 1)]
      BY <1>1, <1>2, <1>5, <2>1, <2>3
    <3> QED
      <4>1. Before(i, j) = j + 1 /\ j + 1 \in DOMAIN s
        BY <1>1, <2>1, <2>3 DEF Before
      <4>2. b[j - (i - 1)] = s[i + (j - (i - 1))]
        BY <1>3, <3>1
      <4> QED
        BY <3>1, <3>2, <4>1, <4>2
  <2> QED
    BY <2>2, <2>3
<1> QED
  BY <1>1, <1>6, <1>7

\* A list without repetitions has none after an element is taken out, and that
\* element is not in it any more.
LEMMA RemoveAtSet ==
  ASSUME NEW S, NEW s \in Seq(S), IsInjective(s), NEW i \in DOMAIN s,
         NEW t, t = RemoveAt(s, i)
  PROVE  IsInjective(t) /\ ToSet(t) = ToSet(s) \ {s[i]}
<1>1. /\ DOMAIN t = 1..Len(t) /\ Len(t) = Len(s) - 1 /\ Len(s) \in Nat \ {0}
      /\ DOMAIN s = 1..Len(s)
      /\ \A j \in DOMAIN t : Before(i, j) \in DOMAIN s /\ t[j] = s[Before(i, j)]
  BY RemoveAtElements
<1>2. \A j \in DOMAIN t : Before(i, j) # i
  BY <1>1 DEF Before
<1>3. \A j, k \in DOMAIN t : Before(i, j) = Before(i, k) => j = k
  BY <1>1 DEF Before
<1>4. \A j \in DOMAIN s : j # i => \E k \in DOMAIN t : Before(i, k) = j
  <2> SUFFICES ASSUME NEW j \in DOMAIN s, j # i PROVE \E k \in DOMAIN t : Before(i, k) = j
    OBVIOUS
  <2>1. CASE j < i
    BY <1>1, <2>1 DEF Before
  <2>2. CASE ~(j < i)
    <3>1. j - 1 \in DOMAIN t /\ Before(i, j - 1) = j
      BY <1>1, <2>2 DEF Before
    <3> QED
      BY <3>1
  <2> QED
    BY <2>1, <2>2
<1>5. IsInjective(t)
  <2> SUFFICES ASSUME NEW j \in DOMAIN t, NEW k \in DOMAIN t, t[j] = t[k] PROVE j = k
    BY DEF IsInjective
  <2>1. Before(i, j) = Before(i, k)
    BY <1>1 DEF IsInjective
  <2> QED
    BY <1>3, <2>1
<1>6. ASSUME NEW x \in ToSet(t) PROVE x \in ToSet(s) \ {s[i]}
  BY <1>1, <1>2 DEF ToSet, IsInjective
<1>7. ASSUME NEW x \in ToSet(s) \ {s[i]} PROVE x \in ToSet(t)
  BY <1>1, <1>4 DEF ToSet
<1> QED
  BY <1>5, <1>6, <1>7

\* insertBefore: an element takes index i, and those from there on move down.
LEMMA InsertAtElements ==
  ASSUME NEW S, NEW s \in Seq(S), NEW i \in DOMAIN s, NEW x \in S,
         NEW t, t = InsertAt(s, i, x)
  PROVE  /\ t \in Seq(S) /\ DOMAIN t = 1..(Len(s) + 1)
         /\ i \in DOMAIN t /\ t[i] = x
         /\ \A j \in DOMAIN s : Before(i, j) \in DOMAIN t /\ t[Before(i, j)] = s[j]
<1> DEFINE a == SubSeq(s, 1, i - 1)
           b == SubSeq(s, i, Len(s))
           c == a \o <<x>>
<1>1. /\ DOMAIN s = 1..Len(s) /\ Len(s) \in Nat \ {0} /\ i \in 1..Len(s)
      /\ \A j \in 1..Len(s) : s[j] \in S
  BY LenProperties, ElementOfSeq
<1>2. /\ a \in Seq(S) /\ Len(a) = i - 1
      /\ \A j \in 1..(i - 1) : a[j] = s[j]
  <2>1. /\ a \in Seq(S) /\ Len(a) = IF 1 <= i - 1 THEN (i - 1) - 1 + 1 ELSE 0
        /\ \A j \in 1 .. (i - 1) - 1 + 1 : a[j] = s[1 + j - 1]
    BY <1>1, SubSeqProperties
  <2> QED
    BY <1>1, <2>1
<1>3. /\ b \in Seq(S) /\ Len(b) = Len(s) - i + 1
      /\ \A j \in 1..(Len(s) - i + 1) : b[j] = s[i + j - 1]
  <2>1. /\ b \in Seq(S) /\ Len(b) = IF i <= Len(s) THEN Len(s) - i + 1 ELSE 0
        /\ \A j \in 1 .. Len(s) - i + 1 : b[j] = s[i + j - 1]
    BY <1>1, SubSeqProperties
  <2> QED
    BY <1>1, <2>1
<1>4. t = c \o b
  BY DEF InsertAt
<1>5. <<x>> \in Seq(S) /\ Len(<<x>>) = 1 /\ <<x>>[1] = x
  OBVIOUS
<1> DEFINE one == <<x>>
<1> HIDE DEF a, b, one
<1>6. c = a \o one
  BY DEF one
<1> HIDE DEF c
<1>7. /\ c \in Seq(S) /\ Len(c) = i
      /\ \A j \in 1..i : (j < i => c[j] = s[j]) /\ (j = i => c[j] = x)
  <2>1. one \in Seq(S) /\ Len(one) = 1 /\ one[1] = x
    BY <1>5 DEF one
  <2>2. c \in Seq(S) /\ Len(c) = Len(a) + Len(one)
    BY <1>2, <1>6, <2>1, ConcatProperties
  <2>3. \A j \in 1..Len(a) + Len(one) :
          (j <= Len(a) => c[j] = a[j]) /\ (~(j <= Len(a)) => c[j] = one[j - Len(a)])
    BY <1>2, <1>6, <2>1, ConcatProperties
  <2>4. i \in Nat /\ Len(a) = i - 1 /\ Len(a) + Len(one) = i
    BY <1>1, <1>2, <2>1
  <2>5. ASSUME NEW j \in 1..i, j < i PROVE c[j] = s[j]
    <3>1. j \in 1..(i - 1) /\ j <= Len(a) /\ j \in 1..Len(a) + Len(one)
      BY <2>4, <2>5
    <3> QED
      BY <1>2, <2>3, <3>1
  <2>6. c[i] = x
    <3>1. i \in 1..Len(a) + Len(one) /\ ~(i <= Len(a)) /\ i - Len(a) = 1
      BY <1>1, <2>4
    <3> QED
      BY <2>1, <2>3, <3>1
  <2> QED
    BY <2>2, <2>4, <2>5, <2>6
<1>8. /\ t \in Seq(S) /\ Len(t) = Len(s) + 1
      /\ \A j \in 1..Len(s) + 1 :
           (j <= i => t[j] = c[j]) /\ (~(j <= i) => t[j] = b[j - i])
  <2>1. c \in Seq(S) /\ b \in Seq(S)
    BY <1>3, <1>7
  <2>2. t \in Seq(S)
    BY <1>4, <2>1, ConcatProperties
  <2>3. Len(t) = Len(c) + Len(b)
    BY <1>4, <2>1, ConcatProperties
  <2>4. \A j \in 1..Len(c) + Len(b) :
          (j <= Len(c) => t[j] = c[j]) /\ (~(j <= Len(c)) => t[j] = b[j - Len(c)])
    BY <1>4, <2>1, ConcatProperties
  <2>5. Len(c) + Len(b) = Len(s) + 1
    BY <1>1, <1>3, <1>7
  <2> QED
    BY <1>7, <2>2, <2>3, <2>4, <2>5
<1>9. DOMAIN t = 1..(Len(s) + 1)
  BY <1>8, LenProperties
<1>10. i \in DOMAIN t /\ t[i] = x
  BY <1>1, <1>7, <1>8, <1>9
<1>11. ASSUME NEW j \in DOMAIN s
       PROVE  Before(i, j) \in DOMAIN t /\ t[Before(i, j)] = s[j]
  <2>1. CASE j < i
    BY <1>1, <1>7, <1>8, <1>9, <2>1 DEF Before
  <2>2. CASE ~(j < i)
    <3>1. /\ j + 1 \in 1..Len(s) + 1 /\ ~(j + 1 <= i)
          /\ (j + 1) - i \in 1..(Len(s) - i + 1) /\ i + ((j + 1) - i) - 1 = j
      BY <1>1, <2>2
    <3>2. t[j + 1] = b[(j + 1) - i]
      BY <1>8, <3>1
    <3> QED
      BY <1>3, <1>9, <2>2, <3>1, <3>2 DEF Before
  <2> QED
    BY <2>1, <2>2
<1> QED
  BY <1>8, <1>9, <1>10, <1>11

\* t is s with elements i and j exchanged.
Exchanged(s, t, i, j) ==
  /\ DOMAIN t = DOMAIN s /\ t[i] = s[j] /\ t[j] = s[i]
  /\ \A k \in DOMAIN s \ {i, j} : t[k] = s[k]

\* insertBefore with the row before it: what swap does when j is above i.
LEMMA SwapRowsUp ==
  ASSUME NEW S, NEW s \in Seq(S), IsInjective(s), NEW i \in DOMAIN s, NEW j \in DOMAIN s,
         j = i - 1, NEW t, t = SwapRows(s, i, j)
  PROVE  t \in Seq(S) /\ Exchanged(s, t, i, j)
<1>1. DOMAIN s = 1..Len(s) /\ Len(s) \in Nat /\ s[i] \in S /\ s[j] \in S
  BY LenProperties, ElementOfSeq
<1>2. IndexOf(s, s[j]) = j /\ IndexOf(s, s[i]) = i /\ j # Len(s) /\ j + 1 = i
  BY <1>1, IndexOfElement
<1>3. NextSibling(s, s[j]) = <<s[i]>>
  BY <1>2 DEF NextSibling
<1>4. t = InsertBefore(s, s[i], <<s[j]>>)
  BY <1>3 DEF SwapRows
<1> DEFINE rest == RemoveAt(s, i)
<1>5. Contains(s, s[i])
  BY <1>1 DEF Contains
<1>6. Detached(s, s[i]) = rest
  BY <1>2, <1>5 DEF Detached
<1>7. /\ rest \in Seq(S) /\ Len(rest) = Len(s) - 1 /\ DOMAIN rest = 1..Len(rest)
      /\ \A k \in DOMAIN rest : rest[k] = s[Before(i, k)]
  BY RemoveAtElements
<1>8. IsInjective(rest)
  BY RemoveAtSet
<1> HIDE DEF rest
<1>9. j \in DOMAIN rest /\ rest[j] = s[j]
  BY <1>1, <1>7 DEF Before
<1>10. IndexOf(rest, s[j]) = j
  BY <1>8, <1>9, IndexOfElement
<1>11. t = InsertAt(rest, j, s[i])
  <2>1. <<s[j]>> # <<>> /\ <<s[j]>>[1] = s[j]
    OBVIOUS
  <2> QED
    BY <1>4, <1>6, <1>10, <2>1 DEF InsertBefore
<1>12. /\ t \in Seq(S) /\ DOMAIN t = 1..(Len(rest) + 1) /\ t[j] = s[i]
       /\ \A k \in DOMAIN rest : t[Before(j, k)] = rest[k]
  <2>1. PICK x, q : x = s[i] /\ q = j
    OBVIOUS
  <2>2. PICK u : u = InsertAt(rest, q, x)
    OBVIOUS
  <2>3. rest \in Seq(S) /\ q \in DOMAIN rest /\ x \in S
    BY <1>1, <1>7, <1>9, <2>1
  <2>4. /\ u \in Seq(S) /\ DOMAIN u = 1..(Len(rest) + 1) /\ u[q] = x
        /\ \A k \in DOMAIN rest : u[Before(q, k)] = rest[k]
    BY <2>2, <2>3, InsertAtElements
  <2>5. t = u
    BY <1>11, <2>1, <2>2
  <2> QED
    BY <2>1, <2>4, <2>5
<1>13. DOMAIN t = DOMAIN s
  BY <1>1, <1>7, <1>12
<1>14. t[i] = s[j]
  <2>1. Before(j, j) = i
    BY <1>1 DEF Before
  <2> QED
    BY <1>9, <1>12, <2>1
<1>15. ASSUME NEW k \in DOMAIN s \ {i, j} PROVE t[k] = s[k]
  <2>1. CASE k < j
    <3>1. k \in DOMAIN rest /\ Before(i, k) = k /\ Before(j, k) = k
      BY <1>1, <1>7, <2>1 DEF Before
    <3> QED
      BY <1>7, <1>12, <3>1
  <2>2. CASE k > i
    <3>1. k - 1 \in DOMAIN rest /\ Before(i, k - 1) = k /\ Before(j, k - 1) = k
      BY <1>1, <1>7, <2>2 DEF Before
    <3> QED
      BY <1>7, <1>12, <3>1
  <2> QED
    BY <1>1, <2>1, <2>2
<1> QED
  BY <1>12, <1>13, <1>14, <1>15 DEF Exchanged

\* replaceWith, and insertBefore what came after: what swap does when j is below i.
LEMMA SwapRowsDown ==
  ASSUME NEW S, NEW s \in Seq(S), IsInjective(s), NEW i \in DOMAIN s, NEW j \in DOMAIN s,
         j = i + 1, NEW t, t = SwapRows(s, i, j)
  PROVE  t \in Seq(S) /\ Exchanged(s, t, i, j)
<1> DEFINE afterB == NextSibling(s, s[j])
           rest == RemoveAt(s, j)
           m == ReplaceAt(rest, i, s[j])
<1>1. DOMAIN s = 1..Len(s) /\ Len(s) \in Nat /\ s[i] \in S /\ s[j] \in S
  BY LenProperties, ElementOfSeq
<1>2. IndexOf(s, s[j]) = j /\ IndexOf(s, s[i]) = i
  BY IndexOfElement
<1>3. /\ j = Len(s) => afterB = <<>>
      /\ j # Len(s) => afterB = <<s[j + 1]>> /\ j + 1 \in DOMAIN s
  BY <1>1, <1>2 DEF NextSibling
<1> HIDE DEF afterB
<1>4. afterB # <<s[i]>>
  <2>1. CASE j = Len(s)
    BY <1>3, <2>1
  <2>2. CASE j # Len(s)
    <3>1. s[j + 1] # s[i]
      BY <1>1, <1>3, <2>2 DEF IsInjective
    <3>2. <<s[j + 1]>>[1] = s[j + 1] /\ <<s[i]>>[1] = s[i]
      OBVIOUS
    <3> QED
      BY <1>3, <2>2, <3>1, <3>2
  <2> QED
    BY <2>1, <2>2
<1>5. t = InsertBefore(ReplaceWith(s, s[i], s[j]), s[i], afterB)
  BY <1>4 DEF SwapRows, afterB
<1>6. Contains(s, s[j])
  BY <1>1 DEF Contains
<1>7. Detached(s, s[j]) = rest
  BY <1>2, <1>6 DEF Detached
<1>8. /\ rest \in Seq(S) /\ Len(rest) = Len(s) - 1 /\ DOMAIN rest = 1..Len(rest)
      /\ \A k \in DOMAIN rest : rest[k] = s[Before(j, k)]
  BY RemoveAtElements
<1>9. IsInjective(rest)
  BY RemoveAtSet
<1> HIDE DEF rest
<1>10. i \in DOMAIN rest /\ rest[i] = s[i]
  BY <1>1, <1>8 DEF Before
<1>11. IndexOf(rest, s[i]) = i
  BY <1>9, <1>10, IndexOfElement
<1>12. ReplaceWith(s, s[i], s[j]) = m
  BY <1>7, <1>11 DEF ReplaceWith
<1>13. /\ m \in Seq(S) /\ Len(m) = Len(s) - 1 /\ DOMAIN m = 1..(Len(s) - 1)
       /\ m[i] = s[j]
       /\ \A k \in DOMAIN m : k # i => m[k] = rest[k]
  <2>1. i \in 1..Len(rest)
    BY <1>8, <1>10
  <2>2. /\ m \in Seq(S) /\ Len(m) = Len(rest)
        /\ \A k \in 1..Len(rest) : m[k] = IF k = i THEN s[j] ELSE rest[k]
    <3>1. m = [rest EXCEPT ![i] = s[j]]
      BY DEF ReplaceAt
    <3> HIDE DEF m
    <3>2. rest \in Seq(S) /\ s[j] \in S
      BY <1>1, <1>8
    <3> QED
      BY <2>1, <3>1, <3>2, ExceptSeq
  <2>3. DOMAIN m = 1..Len(m)
    BY <2>2, LenProperties
  <2> HIDE DEF m
  <2> QED
    BY <1>8, <2>1, <2>2, <2>3
<1> HIDE DEF m
<1>14. \A k \in DOMAIN m : (k < i => m[k] = s[k]) /\ (k > i => m[k] = s[k + 1] /\ k + 1 \in DOMAIN s)
  <2> SUFFICES ASSUME NEW k \in DOMAIN m
               PROVE  (k < i => m[k] = s[k]) /\ (k > i => m[k] = s[k + 1] /\ k + 1 \in DOMAIN s)
    OBVIOUS
  <2>1. k \in DOMAIN rest /\ (k < i => Before(j, k) = k) /\ (k > i => Before(j, k) = k + 1)
    BY <1>1, <1>8, <1>13 DEF Before
  <2> QED
    BY <1>1, <1>8, <1>13, <2>1
<1>15. \A k \in DOMAIN m : m[k] # s[i]
  <2> SUFFICES ASSUME NEW k \in DOMAIN m, m[k] = s[i] PROVE FALSE
    OBVIOUS
  <2>1. k \in DOMAIN s /\ k \in Int /\ i \in Int
    BY <1>1, <1>13
  <2>2. CASE k < i
    BY <1>14, <2>1, <2>2 DEF IsInjective
  <2>3. CASE k = i
    <3>1. s[i] = s[j] /\ i # j
      BY <1>1, <1>13, <2>3
    <3> QED
      BY <3>1 DEF IsInjective
  <2>4. CASE k > i
    BY <1>14, <2>1, <2>4 DEF IsInjective
  <2> QED
    BY <2>1, <2>2, <2>3, <2>4
<1>16. Detached(m, s[i]) = m
  BY <1>13, <1>15 DEF Detached, Contains
<1>17. /\ t \in Seq(S) /\ DOMAIN t = DOMAIN s /\ t[j] = s[i]
       /\ \A k \in DOMAIN m : t[Before(j, k)] = m[k]
  <2>1. CASE j = Len(s)
    <3>1. t = Append(m, s[i])
      BY <1>3, <1>5, <1>12, <1>16, <2>1 DEF InsertBefore
    <3>2. /\ t \in Seq(S) /\ Len(t) = Len(m) + 1 /\ t[Len(m) + 1] = s[i]
          /\ \A k \in 1..Len(m) : t[k] = m[k]
      <4>1. PICK x : x = s[i]
        OBVIOUS
      <4>2. m \in Seq(S) /\ x \in S
        BY <1>1, <1>13, <4>1
      <4>3. /\ Append(m, x) \in Seq(S) /\ Len(Append(m, x)) = Len(m) + 1
            /\ Append(m, x)[Len(m) + 1] = x
            /\ \A k \in 1..Len(m) : Append(m, x)[k] = m[k]
        BY <4>2, AppendProperties
      <4> QED
        BY <3>1, <4>1, <4>3
    <3>3. DOMAIN t = 1..(Len(m) + 1)
      BY <3>2, LenProperties
    <3>4. Len(m) + 1 = j /\ \A k \in DOMAIN m : Before(j, k) = k
      BY <1>1, <1>13, <2>1 DEF Before
    <3>5. DOMAIN t = DOMAIN s
      BY <1>1, <2>1, <3>3, <3>4
    <3>6. \A k \in DOMAIN m : t[Before(j, k)] = m[k]
      BY <1>13, <3>1, <3>2, <3>4
    <3> QED
      BY <3>1, <3>2, <3>4, <3>5, <3>6
  <2>2. CASE j # Len(s)
    <3>1. j \in DOMAIN m /\ m[j] = s[j + 1]
      BY <1>1, <1>13, <1>14, <2>2
    <3>2. ASSUME NEW k \in DOMAIN m, m[k] = s[j + 1] PROVE k = j
      <4>1. k \in DOMAIN s /\ k \in Int /\ i \in Int /\ j + 1 \in DOMAIN s
        BY <1>1, <1>3, <1>13, <2>2
      <4>2. k < i => FALSE
        BY <1>14, <3>2, <4>1 DEF IsInjective
      <4>3. k = i => FALSE
        BY <1>13, <3>2, <4>1 DEF IsInjective
      <4>4. k > i => k + 1 = j + 1
        BY <1>14, <3>2, <4>1 DEF IsInjective
      <4> QED
        BY <4>1, <4>2, <4>3, <4>4
    <3>3. IndexOf(m, s[j + 1]) = j
      BY <3>1, <3>2 DEF IndexOf
    <3>4. t = InsertAt(m, j, s[i])
      <4>1. <<s[j + 1]>> # <<>> /\ <<s[j + 1]>>[1] = s[j + 1]
        OBVIOUS
      <4> QED
        BY <1>3, <1>5, <1>12, <1>16, <2>2, <3>3, <4>1 DEF InsertBefore
    <3>5. m \in Seq(S) /\ j \in DOMAIN m /\ s[i] \in S
      BY <1>1, <1>13, <3>1
    <3>6. /\ t \in Seq(S) /\ DOMAIN t = 1..(Len(m) + 1) /\ t[j] = s[i]
          /\ \A k \in DOMAIN m : t[Before(j, k)] = m[k]
      <4>1. PICK x : x = s[i]
        OBVIOUS
      <4>2. PICK u : u = InsertAt(m, j, x)
        OBVIOUS
      <4>3. m \in Seq(S) /\ j \in DOMAIN m /\ x \in S
        BY <3>5, <4>1
      <4>4. /\ u \in Seq(S) /\ DOMAIN u = 1..(Len(m) + 1) /\ u[j] = x
            /\ \A k \in DOMAIN m : u[Before(j, k)] = m[k]
        BY <4>2, <4>3, InsertAtElements
      <4>5. t = u
        BY <3>4, <4>1, <4>2
      <4> QED
        BY <4>1, <4>4, <4>5
    <3>7. DOMAIN t = DOMAIN s
      BY <1>1, <1>13, <3>6
    <3> QED
      BY <3>6, <3>7
  <2> QED
    BY <2>1, <2>2
<1>18. t[i] = s[j]
  <2>1. i \in DOMAIN m /\ Before(j, i) = i
    BY <1>1, <1>13 DEF Before
  <2> QED
    BY <1>13, <1>17, <2>1
<1>19. ASSUME NEW k \in DOMAIN s \ {i, j} PROVE t[k] = s[k]
  <2>1. CASE k < i
    <3>1. k \in DOMAIN m /\ Before(j, k) = k
      BY <1>1, <1>13, <2>1 DEF Before
    <3> QED
      BY <1>14, <1>17, <2>1, <3>1
  <2>2. CASE k > j
    <3>1. k - 1 \in DOMAIN m /\ k - 1 > i /\ (k - 1) + 1 = k /\ Before(j, k - 1) = k
      BY <1>1, <1>13, <2>2 DEF Before
    <3> QED
      BY <1>14, <1>17, <3>1
  <2> QED
    BY <1>1, <2>1, <2>2
<1> QED
  BY <1>17, <1>18, <1>19 DEF Exchanged

-----------------------------------------------------------------------------
(***************************************************************************)
(* The list of a page: rows, components and places agree                   *)
(***************************************************************************)

ListOK(list) ==
  /\ DOMAIN list = {"rows", "comps", "place"}
  /\ list.comps \in Seq(Tasks) /\ IsInjective(list.comps)
  /\ list.rows = list.comps
  /\ DOMAIN list.place = ToSet(list.comps)
  /\ \A i \in DOMAIN list.comps :
       list.place[list.comps[i]] = PositionOf(i, Len(list.comps))

\* A component that was told its place knows it; others knew it before.
LEMMA ToldPlaces ==
  ASSUME NEW list, NEW set,
         DOMAIN list = {"rows", "comps", "place"},
         list.comps \in Seq(Tasks), IsInjective(list.comps), list.rows = list.comps,
         DOMAIN list.place = ToSet(list.comps), set \subseteq DOMAIN list.comps,
         \A i \in DOMAIN list.comps \ set :
           list.place[list.comps[i]] = PositionOf(i, Len(list.comps))
  PROVE  /\ ListOK(Told(list, set))
         /\ Told(list, set).comps = list.comps
<1> DEFINE comps == list.comps
           told == Told(list, set)
           place == [x \in DOMAIN list.place |->
                       IF \E i \in set : list.comps[i] = x
                       THEN PositionOf(IndexOf(list.comps, x), Len(list.comps))
                       ELSE list.place[x]]
<1>1. told = [list EXCEPT !.place = place]
  BY Zenon DEF Told
<1> HIDE DEF place, told
<1>2. /\ DOMAIN told = {"rows", "comps", "place"}
      /\ told.comps = comps /\ told.rows = list.rows /\ told.place = place
  BY <1>1
<1>3. DOMAIN place = ToSet(comps)
  BY DEF place
<1>4. ASSUME NEW i \in DOMAIN comps PROVE place[comps[i]] = PositionOf(i, Len(comps))
  <2>1. comps[i] \in DOMAIN list.place
    BY DEF ToSet
  <2>2. CASE i \in set
    <3>1. IndexOf(comps, comps[i]) = i
      BY IndexOfElement
    <3> QED
      BY <2>1, <2>2, <3>1 DEF place
  <2>3. CASE i \notin set
    <3>1. ~\E j \in set : comps[j] = comps[i]
      BY <2>3 DEF IsInjective
    <3> QED
      BY <2>1, <2>3, <3>1 DEF place
  <2> QED
    BY <2>2, <2>3
<1>5. ListOK(told)
  BY <1>2, <1>3, <1>4 DEF ListOK
<1> QED
  BY <1>2, <1>5 DEF told

\* popComponent
LEMMA PopKeepsList ==
  ASSUME NEW list, ListOK(list), NEW i \in DOMAIN list.comps,
         NEW new, new = PopComponent(list, i)
  PROVE  ListOK(new) /\ new.comps = RemoveAt(list.comps, i)
<1> DEFINE s == list.comps
           comps == RemoveAt(s, i)
           place == [y \in ToSet(comps) |-> list.place[y]]
           popped == [rows |-> RemoveAt(list.rows, i), comps |-> comps, place |-> place]
           set == {j \in DOMAIN comps : j >= i - 1}
<1>1. new = Told(popped, set)
  BY Zenon DEF PopComponent
<1>2. s \in Seq(Tasks) /\ IsInjective(s)
  BY DEF ListOK
<1>3. /\ comps \in Seq(Tasks) /\ Len(comps) = Len(s) - 1
      /\ DOMAIN comps = 1..Len(comps) /\ Len(s) \in Nat \ {0} /\ DOMAIN s = 1..Len(s)
      /\ \A j \in DOMAIN comps : Before(i, j) \in DOMAIN s /\ comps[j] = s[Before(i, j)]
  <2>1. PICK u : u = comps
    OBVIOUS
  <2>2. /\ u \in Seq(Tasks) /\ Len(u) = Len(s) - 1
        /\ DOMAIN u = 1..Len(u) /\ Len(s) \in Nat \ {0} /\ DOMAIN s = 1..Len(s)
        /\ \A j \in DOMAIN u : Before(i, j) \in DOMAIN s /\ u[j] = s[Before(i, j)]
    BY <1>2, <2>1, RemoveAtElements
  <2> QED
    BY <2>1, <2>2
<1>4. IsInjective(comps)
  BY <1>2, RemoveAtSet
<1>5. /\ DOMAIN popped = {"rows", "comps", "place"}
      /\ popped.comps = comps /\ popped.rows = comps /\ popped.place = place
      /\ DOMAIN place = ToSet(comps)
  BY DEF ListOK
<1> HIDE DEF comps
<1>6. ASSUME NEW j \in DOMAIN comps \ set PROVE place[comps[j]] = PositionOf(j, Len(comps))
  <2>1. j \in Int /\ i \in Int /\ j < i - 1
    BY <1>3
  <2>2. Before(i, j) = j /\ j \in DOMAIN s
    BY <1>3, <2>1 DEF Before
  <2>3. comps[j] = s[j] /\ comps[j] \in ToSet(comps)
    BY <1>3, <2>2 DEF ToSet
  <2>4. place[comps[j]] = PositionOf(j, Len(s))
    BY <2>2, <2>3 DEF ListOK
  <2>5. j # Len(s) /\ j # Len(comps)
    BY <1>3, <2>1
  <2> QED
    BY <2>4, <2>5 DEF PositionOf
<1> HIDE DEF place
<1>7. set \subseteq DOMAIN comps
  OBVIOUS
<1> HIDE DEF set, popped
<1>8. ListOK(Told(popped, set)) /\ Told(popped, set).comps = popped.comps
  BY <1>3, <1>4, <1>5, <1>6, <1>7, ToldPlaces
<1> QED
  BY <1>1, <1>5, <1>8 DEF comps

\* swap of two components that are neighbours
LEMMA SwapKeepsList ==
  ASSUME NEW list, ListOK(list), NEW i \in DOMAIN list.comps, NEW j \in DOMAIN list.comps,
         j = i - 1 \/ j = i + 1, NEW new, new = SwapComponents(list, i, j)
  PROVE  ListOK(new) /\ Exchanged(list.comps, new.comps, i, j)
<1> DEFINE s == list.comps
           comps == [s EXCEPT ![i] = s[j], ![j] = s[i]]
           rows == SwapRows(list.rows, i, j)
           moved == [list EXCEPT !.rows = rows, !.comps = comps]
<1>1. new = Told(moved, {i, j})
  BY Zenon DEF SwapComponents
<1>2. /\ s \in Seq(Tasks) /\ IsInjective(s)
      /\ DOMAIN list = {"rows", "comps", "place"} /\ list.rows = s
      /\ DOMAIN list.place = ToSet(s)
      /\ \A k \in DOMAIN s : list.place[s[k]] = PositionOf(k, Len(s))
  BY DEF ListOK
<1> HIDE DEF s
<1>3. DOMAIN s = 1..Len(s) /\ Len(s) \in Nat /\ i # j
  BY <1>2, LenProperties DEF s
<1>4. Exchanged(s, comps, i, j)
  <2>1. DOMAIN comps = DOMAIN s
    OBVIOUS
  <2>2. comps[i] = s[j] /\ comps[j] = s[i]
    BY <1>3 DEF s
  <2>3. \A k \in DOMAIN s \ {i, j} : comps[k] = s[k]
    OBVIOUS
  <2> HIDE DEF comps
  <2> QED
    BY <2>1, <2>2, <2>3 DEF Exchanged
<1> HIDE DEF comps
<1>5. rows \in Seq(Tasks) /\ Exchanged(s, rows, i, j)
  <2>1. PICK u : u = rows
    OBVIOUS
  <2>2. u = SwapRows(s, i, j)
    BY <1>2, <2>1
  <2>3. i \in DOMAIN s /\ j \in DOMAIN s
    BY DEF s
  <2>4. CASE j = i - 1
    BY <1>2, <2>1, <2>2, <2>3, <2>4, SwapRowsUp
  <2>5. CASE j = i + 1
    BY <1>2, <2>1, <2>2, <2>3, <2>5, SwapRowsDown
  <2> QED
    BY <2>4, <2>5
<1> HIDE DEF rows
<1>6. rows = comps
  <2>1. /\ DOMAIN rows = DOMAIN s /\ DOMAIN comps = DOMAIN s
        /\ \A k \in DOMAIN s : rows[k] = comps[k]
    <3>1. DOMAIN rows = DOMAIN s /\ DOMAIN comps = DOMAIN s
      BY <1>4, <1>5 DEF Exchanged
    <3>2. ASSUME NEW k \in DOMAIN s PROVE rows[k] = comps[k]
      <4>1. k \in {i, j} \/ k \in DOMAIN s \ {i, j}
        OBVIOUS
      <4> QED
        BY <1>4, <1>5, <4>1 DEF Exchanged
    <3> QED
      BY <3>1, <3>2
  <2>2. rows = [k \in DOMAIN s |-> rows[k]]
    <3>1. rows = [k \in DOMAIN rows |-> rows[k]]
      BY <1>5
    <3> QED
      BY <2>1, <3>1
  <2>3. comps = [k \in DOMAIN s |-> comps[k]]
    <3>1. comps = [k \in DOMAIN comps |-> comps[k]]
      BY DEF comps
    <3> QED
      BY <2>1, <3>1
  <2> QED
    BY <2>1, <2>2, <2>3
<1>7. /\ DOMAIN moved = {"rows", "comps", "place"}
      /\ moved.comps = comps /\ moved.rows = comps /\ moved.place = list.place
  BY <1>2, <1>6
<1> HIDE DEF moved
<1>8. Len(comps) = Len(s) /\ DOMAIN comps = DOMAIN s /\ comps \in Seq(Tasks)
  <2>1. DOMAIN comps = 1..Len(comps) /\ Len(comps) \in Nat
    BY <1>5, <1>6, LenProperties
  <2> QED
    BY <1>3, <1>4, <1>5, <1>6, <2>1 DEF Exchanged
<1>9. \A k \in DOMAIN s : \E l \in DOMAIN s : comps[k] = s[l] /\ (k \notin {i, j} => l = k)
                                               /\ (k = i => l = j) /\ (k = j => l = i)
  BY <1>3, <1>4 DEF Exchanged, s
<1>10. IsInjective(comps)
  <2> SUFFICES ASSUME NEW k \in DOMAIN s, NEW l \in DOMAIN s, comps[k] = comps[l]
               PROVE  k = l
    BY <1>8 DEF IsInjective
  <2>1. PICK m \in DOMAIN s : comps[k] = s[m] /\ (k \notin {i, j} => m = k)
                               /\ (k = i => m = j) /\ (k = j => m = i)
    BY <1>9
  <2>2. PICK n \in DOMAIN s : comps[l] = s[n] /\ (l \notin {i, j} => n = l)
                               /\ (l = i => n = j) /\ (l = j => n = i)
    BY <1>9
  <2>3. m = n
    BY <1>2, <2>1, <2>2 DEF IsInjective
  <2> QED
    BY <2>1, <2>2, <2>3
<1>11. ToSet(comps) = ToSet(s)
  <2>1. ASSUME NEW x \in ToSet(comps) PROVE x \in ToSet(s)
    BY <1>8, <1>9 DEF ToSet
  <2>2. ASSUME NEW x \in ToSet(s) PROVE x \in ToSet(comps)
    <3>1. PICK k \in DOMAIN s : x = s[k]
      BY DEF ToSet
    <3>2. \E l \in DOMAIN s : comps[l] = s[k]
      BY <1>4 DEF Exchanged, s
    <3> QED
      BY <1>8, <3>1, <3>2 DEF ToSet
  <2> QED
    BY <2>1, <2>2
<1>12. {i, j} \subseteq DOMAIN comps
  BY <1>8 DEF s
<1>13. ASSUME NEW k \in DOMAIN comps \ {i, j}
       PROVE  list.place[comps[k]] = PositionOf(k, Len(comps))
  BY <1>2, <1>4, <1>8 DEF Exchanged
<1>14. ListOK(Told(moved, {i, j})) /\ Told(moved, {i, j}).comps = moved.comps
  <2>1. PICK set : set = {i, j}
    OBVIOUS
  <2>2. set \subseteq DOMAIN comps
    BY <1>12, <2>1
  <2>3. \A k \in DOMAIN comps \ set : list.place[comps[k]] = PositionOf(k, Len(comps))
    BY <1>13, <2>1
  <2>4. ListOK(Told(moved, set)) /\ Told(moved, set).comps = moved.comps
    BY <1>2, <1>7, <1>8, <1>10, <1>11, <2>2, <2>3, ToldPlaces
  <2> QED
    BY <2>1, <2>4
<1> QED
  BY <1>1, <1>4, <1>7, <1>14 DEF s

-----------------------------------------------------------------------------
(***************************************************************************)
(* The positions of a page                                                 *)
(***************************************************************************)

\* The components are the tasks that are not gone, in the order of their positions.
LocalOK(comps, local) ==
  /\ DOMAIN local \subseteq Tasks
  /\ \A t \in DOMAIN local : local[t] \in Int
  /\ \A t \in Tasks : t \in ToSet(comps) <=> t \in DOMAIN local /\ local[t] # Gone
  /\ \A i, j \in DOMAIN comps : i < j => local[comps[i]] < local[comps[j]]

\* No two tasks have one position.
Distinct(pos) == \A s, t \in DOMAIN pos : pos[s] = pos[t] /\ pos[s] # Gone => s = t

\* Every position in new is one in old.
Within(new, old) ==
  \A t \in DOMAIN new : new[t] # Gone => \E s \in DOMAIN old : old[s] = new[t]

LEMMA WithinIsTransitive ==
  ASSUME NEW a, NEW b, NEW c, Within(a, b), Within(b, c)
  PROVE  Within(a, c)
<1> SUFFICES ASSUME NEW t \in DOMAIN a, a[t] # Gone PROVE \E s \in DOMAIN c : c[s] = a[t]
  BY DEF Within
<1>1. PICK u \in DOMAIN b : b[u] = a[t]
  BY DEF Within
<1>2. PICK s \in DOMAIN c : c[s] = b[u]
  BY <1>1 DEF Within
<1> QED
  BY <1>1, <1>2

LEMMA WithinItself ==
  ASSUME NEW a
  PROVE  Within(a, a)
BY DEF Within

\* Positions in the order of a list without repetitions are distinct.
LEMMA LocalIsDistinct ==
  ASSUME NEW comps \in Seq(Tasks), NEW local, LocalOK(comps, local)
  PROVE  Distinct(local)
<1> SUFFICES ASSUME NEW s \in DOMAIN local, NEW t \in DOMAIN local,
                    local[s] = local[t], local[s] # Gone
             PROVE  s = t
  BY DEF Distinct
<1>1. s \in ToSet(comps) /\ t \in ToSet(comps)
  BY DEF LocalOK
<1>2. PICK i \in DOMAIN comps : comps[i] = s
  BY <1>1 DEF ToSet
<1>3. PICK j \in DOMAIN comps : comps[j] = t
  BY <1>1 DEF ToSet
<1>4. DOMAIN comps = 1..Len(comps) /\ Len(comps) \in Nat
  BY LenProperties
<1>5. local[s] \in Int /\ local[t] \in Int
  BY DEF LocalOK
<1>6. ~(i < j)
  BY <1>2, <1>3, <1>5 DEF LocalOK
<1>7. ~(j < i)
  BY <1>2, <1>3, <1>5 DEF LocalOK
<1>8. i = j
  BY <1>4, <1>6, <1>7
<1> QED
  BY <1>2, <1>3, <1>8

\* pop: the position of the component is gone.
LEMMA PopKeepsLocal ==
  ASSUME NEW comps \in Seq(Tasks), IsInjective(comps), NEW local, LocalOK(comps, local),
         NEW i \in DOMAIN comps, NEW new, new = [local EXCEPT ![comps[i]] = Gone],
         NEW rest, rest = RemoveAt(comps, i)
  PROVE  LocalOK(rest, new) /\ Within(new, local) /\ DOMAIN new = DOMAIN local
<1>1. /\ DOMAIN rest = 1..Len(rest) /\ Len(rest) = Len(comps) - 1 /\ Len(comps) \in Nat \ {0}
      /\ DOMAIN comps = 1..Len(comps) /\ rest \in Seq(Tasks)
      /\ \A j \in DOMAIN rest : Before(i, j) \in DOMAIN comps /\ rest[j] = comps[Before(i, j)]
  BY RemoveAtElements
<1>2. ToSet(rest) = ToSet(comps) \ {comps[i]}
  BY RemoveAtSet
<1>3. comps[i] \in Tasks /\ comps[i] \in ToSet(comps)
  BY <1>1, ElementOfSeq DEF ToSet
<1>4. DOMAIN new = DOMAIN local
  OBVIOUS
<1>5. comps[i] \in DOMAIN local
  BY <1>3 DEF LocalOK
<1>6. \A t \in DOMAIN local : new[t] = IF t = comps[i] THEN Gone ELSE local[t]
  BY <1>5
<1>7. \A t \in DOMAIN new : new[t] \in Int
  BY <1>4, <1>6 DEF LocalOK, Gone
<1>8. \A t \in Tasks : t \in ToSet(rest) <=> t \in DOMAIN new /\ new[t] # Gone
  BY <1>2, <1>3, <1>4, <1>6 DEF LocalOK
<1>9. ASSUME NEW j \in DOMAIN rest, NEW k \in DOMAIN rest, j < k
      PROVE  new[rest[j]] < new[rest[k]]
  <2>1. Before(i, j) < Before(i, k) /\ Before(i, j) \in DOMAIN comps /\ Before(i, k) \in DOMAIN comps
    BY <1>1, <1>9 DEF Before
  <2>2. local[comps[Before(i, j)]] < local[comps[Before(i, k)]]
    BY <2>1 DEF LocalOK
  <2>3. rest[j] \in ToSet(rest) /\ rest[k] \in ToSet(rest)
    BY DEF ToSet
  <2>4. /\ rest[j] # comps[i] /\ rest[k] # comps[i] 
        /\ rest[j] \in ToSet(comps) /\ rest[k] \in ToSet(comps)
    BY <1>2, <2>3
  <2>5. rest[j] \in DOMAIN local /\ rest[k] \in DOMAIN local
    <3>1. rest[j] \in Tasks /\ rest[k] \in Tasks
      BY <1>1, ElementOfSeq
    <3> QED
      BY <2>4, <3>1 DEF LocalOK
  <2>6. new[rest[j]] = local[comps[Before(i, j)]] /\ new[rest[k]] = local[comps[Before(i, k)]]
    BY <1>1, <1>6, <2>4, <2>5
  <2> QED
    BY <2>2, <2>6
<1>10. LocalOK(rest, new)
  BY <1>4, <1>7, <1>8, <1>9 DEF LocalOK
<1>11. Within(new, local)
  BY <1>4, <1>6 DEF Within
<1> QED
  BY <1>4, <1>10, <1>11

\* swap: so are the positions of the components.
LEMMA SwapKeepsLocal ==
  ASSUME NEW comps \in Seq(Tasks), IsInjective(comps), NEW local, LocalOK(comps, local),
         NEW i \in DOMAIN comps, NEW j \in DOMAIN comps, i # j,
         NEW new, new = [local EXCEPT ![comps[i]] = local[comps[j]],
                                      ![comps[j]] = local[comps[i]]],
         NEW swapped, Exchanged(comps, swapped, i, j)
  PROVE  LocalOK(swapped, new) /\ Within(new, local) /\ DOMAIN new = DOMAIN local
<1> DEFINE a == comps[i]
           b == comps[j]
<1>1. DOMAIN comps = 1..Len(comps) /\ Len(comps) \in Nat
  BY LenProperties
<1>2. a \in Tasks /\ b \in Tasks /\ a \in ToSet(comps) /\ b \in ToSet(comps) /\ a # b
  BY <1>1, ElementOfSeq DEF ToSet, IsInjective
<1>3. a \in DOMAIN local /\ b \in DOMAIN local /\ local[a] # Gone /\ local[b] # Gone
  BY <1>2 DEF LocalOK
<1>4. DOMAIN new = DOMAIN local
  OBVIOUS
<1>5. /\ new[a] = local[b] /\ new[b] = local[a]
      /\ \A t \in DOMAIN local \ {a, b} : new[t] = local[t]
  BY <1>2, <1>3
<1>6. \A k \in DOMAIN comps : /\ k = i => swapped[k] = b
                              /\ k = j => swapped[k] = a
                              /\ k \notin {i, j} => swapped[k] = comps[k]
  BY DEF Exchanged
<1>7. DOMAIN swapped = DOMAIN comps
  BY DEF Exchanged
<1>8. \A k \in DOMAIN comps : k \notin {i, j} => comps[k] \notin {a, b} /\ comps[k] \in DOMAIN local
  <2> SUFFICES ASSUME NEW k \in DOMAIN comps, k \notin {i, j}
               PROVE  comps[k] \notin {a, b} /\ comps[k] \in DOMAIN local
    OBVIOUS
  <2>1. comps[k] \in Tasks /\ comps[k] \in ToSet(comps)
    BY <1>1, ElementOfSeq DEF ToSet
  <2> QED
    BY <2>1 DEF LocalOK, IsInjective
<1> HIDE DEF a, b
<1>9. \A k \in DOMAIN comps : new[swapped[k]] = local[comps[k]]
  <2> SUFFICES ASSUME NEW k \in DOMAIN comps PROVE new[swapped[k]] = local[comps[k]]
    OBVIOUS
  <2>1. CASE k = i
    BY <1>5, <1>6, <2>1 DEF a
  <2>2. CASE k = j
    BY <1>5, <1>6, <2>2 DEF b
  <2>3. CASE k \notin {i, j}
    BY <1>5, <1>6, <1>8, <2>3
  <2> QED
    BY <2>1, <2>2, <2>3
<1>10. \A t \in DOMAIN new : new[t] \in Int /\ (new[t] # Gone <=> local[t] # Gone)
  BY <1>3, <1>4, <1>5 DEF LocalOK
<1>11. ToSet(swapped) = ToSet(comps)
  <2>1. ASSUME NEW x \in ToSet(swapped) PROVE x \in ToSet(comps)
    BY <1>2, <1>6, <1>7 DEF ToSet
  <2>2. ASSUME NEW x \in ToSet(comps) PROVE x \in ToSet(swapped)
    <3>1. PICK k \in DOMAIN comps : x = comps[k]
      BY DEF ToSet
    <3>2. \E l \in DOMAIN comps : swapped[l] = comps[k]
      BY <1>6 DEF a, b
    <3> QED
      BY <1>7, <3>1, <3>2 DEF ToSet
  <2> QED
    BY <2>1, <2>2
<1>12. LocalOK(swapped, new)
  <2>1. \A t \in Tasks : t \in ToSet(swapped) <=> t \in DOMAIN new /\ new[t] # Gone
    BY <1>4, <1>10, <1>11 DEF LocalOK
  <2>2. \A k, l \in DOMAIN swapped : k < l => new[swapped[k]] < new[swapped[l]]
    BY <1>7, <1>9 DEF LocalOK
  <2>3. DOMAIN new \subseteq Tasks
    BY <1>4 DEF LocalOK
  <2> QED
    BY <1>10, <2>1, <2>2, <2>3 DEF LocalOK
<1>13. Within(new, local)
  <2> SUFFICES ASSUME NEW t \in DOMAIN new PROVE \E s \in DOMAIN local : local[s] = new[t]
    BY DEF Within
  <2> QED
    BY <1>3, <1>4, <1>5
<1> QED
  BY <1>4, <1>12, <1>13

\* What the server has when an update of these tasks is saved.
Carried(remote, tasks) ==
  [t \in DOMAIN remote |-> IF t \in DOMAIN tasks THEN tasks[t].swap ELSE remote[t]]

\* An update moves tasks to places of others that it moves as well, and so do the
\* edits made since it was sent.
SentOK(local, remote, tasks) ==
  /\ DOMAIN remote = DOMAIN local /\ DOMAIN tasks \subseteq DOMAIN remote
  /\ \A t \in DOMAIN remote : remote[t] \in Int
  /\ \A t \in DOMAIN tasks : /\ tasks[t].curr = remote[t] /\ tasks[t].swap \in Int
                             /\ tasks[t].swap # remote[t]
  /\ Distinct(remote) /\ Distinct(Carried(remote, tasks))
  /\ Within(Carried(remote, tasks), remote) /\ Within(local, Carried(remote, tasks))

LEMMA CarriedValues ==
  ASSUME NEW remote, NEW tasks
  PROVE  /\ DOMAIN Carried(remote, tasks) = DOMAIN remote
         /\ \A t \in DOMAIN remote :
              Carried(remote, tasks)[t] = IF t \in DOMAIN tasks THEN tasks[t].swap ELSE remote[t]
BY DEF Carried

LEMMA NothingCarried ==
  ASSUME NEW remote
  PROVE  /\ DOMAIN Carried(remote, NoTasks) = DOMAIN remote
         /\ \A t \in DOMAIN remote : Carried(remote, NoTasks)[t] = remote[t]
         /\ DOMAIN NoTasks = {}
BY DEF Carried, NoTasks

\* An edit
LEMMA EditKeepsSent ==
  ASSUME NEW local, NEW remote, NEW tasks, SentOK(local, remote, tasks),
         NEW new, Within(new, local), DOMAIN new = DOMAIN local
  PROVE  SentOK(new, remote, tasks)
<1>1. Within(new, Carried(remote, tasks))
  BY WithinIsTransitive DEF SentOK
<1> QED
  BY <1>1 DEF SentOK

\* A failed update
LEMMA FailureKeepsSent ==
  ASSUME NEW local, NEW remote, NEW tasks, SentOK(local, remote, tasks)
  PROVE  SentOK(local, remote, NoTasks)
<1>1. Within(local, remote)
  BY WithinIsTransitive DEF SentOK
<1>2. Within(local, Carried(remote, NoTasks))
  BY <1>1, NothingCarried DEF Within
<1>3. Within(Carried(remote, NoTasks), remote)
  BY NothingCarried DEF Within
<1>4. Distinct(Carried(remote, NoTasks))
  BY NothingCarried DEF Distinct, SentOK
<1>5. DOMAIN NoTasks = {}
  BY NothingCarried
<1> QED
  BY <1>2, <1>3, <1>4, <1>5 DEF SentOK

\* commit
LEMMA CommitKeepsSent ==
  ASSUME NEW local, NEW remote, NEW tasks, SentOK(local, remote, tasks),
         NEW new, new = Carried(remote, tasks)
  PROVE  SentOK(local, new, NoTasks)
<1>1. DOMAIN new = DOMAIN local
  BY CarriedValues DEF SentOK
<1>2. \A t \in DOMAIN new : new[t] \in Int
  BY CarriedValues DEF SentOK
<1>3. Distinct(new) /\ Within(local, new)
  BY DEF SentOK
<1>4. Within(local, Carried(new, NoTasks))
  BY <1>3, NothingCarried DEF Within
<1>5. Within(Carried(new, NoTasks), new)
  BY NothingCarried DEF Within
<1>6. Distinct(Carried(new, NoTasks))
  BY <1>3, NothingCarried DEF Distinct
<1>7. DOMAIN NoTasks = {}
  BY NothingCarried
<1> QED
  BY <1>1, <1>2, <1>3, <1>4, <1>5, <1>6, <1>7 DEF SentOK

\* serialize: what is carried is what the page has.
LEMMA SendKeepsSent ==
  ASSUME NEW local, NEW remote, SentOK(local, remote, NoTasks), Distinct(local),
         \A t \in DOMAIN local : local[t] \in Int,
         NEW tasks,
         tasks = [t \in {t \in DOMAIN local : local[t] # remote[t]} |->
                    [curr |-> remote[t], swap |-> local[t]]]
  PROVE  SentOK(local, remote, tasks)
<1>1. DOMAIN remote = DOMAIN local
  BY DEF SentOK
<1>2. DOMAIN tasks = {t \in DOMAIN local : local[t] # remote[t]}
  OBVIOUS
<1>3. \A t \in DOMAIN tasks : tasks[t].curr = remote[t] /\ tasks[t].swap = local[t]
  BY <1>2
<1>4. \A t \in DOMAIN remote : Carried(remote, tasks)[t] = local[t]
  BY <1>1, <1>2, <1>3, CarriedValues
<1>5. DOMAIN Carried(remote, tasks) = DOMAIN remote
  BY CarriedValues
<1>6. Within(local, remote)
  BY NothingCarried DEF SentOK, Within
<1>7. Within(local, Carried(remote, tasks))
  BY <1>1, <1>4, <1>5 DEF Within
<1>8. Within(Carried(remote, tasks), remote)
  BY <1>1, <1>4, <1>5, <1>6 DEF Within
<1>9. Distinct(Carried(remote, tasks))
  BY <1>1, <1>4, <1>5 DEF Distinct
<1>10. DOMAIN tasks \subseteq DOMAIN remote
  BY <1>1, <1>2
<1>11. \A t \in DOMAIN tasks : /\ tasks[t].curr = remote[t] /\ tasks[t].swap \in Int
                               /\ tasks[t].swap # remote[t]
  BY <1>2, <1>3
<1> QED
  BY <1>1, <1>7, <1>8, <1>9, <1>10, <1>11 DEF SentOK

-----------------------------------------------------------------------------
(***************************************************************************)
(* The update of the tasks                                                 *)
(***************************************************************************)

PositionsOK(k) ==
  /\ k.end \in Nat /\ DOMAIN k.pos = Tasks
  /\ \A t \in Tasks : k.pos[t] \in Nat \cup {Gone}

\* The server has the tasks of a page in the order in which the page has them.
Agree(pos, known) ==
  /\ \A t \in DOMAIN known : pos[t] = Gone <=> known[t] = Gone
  /\ \A s, t \in DOMAIN known :
       known[s] # Gone /\ known[t] # Gone /\ known[s] < known[t] => pos[s] < pos[t]

LEMMA FiniteImage ==
  ASSUME NEW tasks, DOMAIN tasks \subseteq Tasks
  PROVE  IsFiniteSet({tasks[t].swap : t \in DOMAIN tasks})
<1>1. IsFiniteSet(DOMAIN tasks)
  BY KimEditingAssumption, FS_Subset
<1> DEFINE F == [t \in DOMAIN tasks |-> tasks[t].swap]
           S == {tasks[t].swap : t \in DOMAIN tasks}
<1>2. F \in Surjection(DOMAIN tasks, S)
  BY DEF Surjection
<1> HIDE DEF F, S
<1>3. IsFiniteSet(S)
  BY <1>1, <1>2, FS_Surjection
<1> QED
  BY <1>3 DEF S

\* A position is mapped to one of the kim, or after its end.
LEMMA RemapIsPosition ==
  ASSUME NEW k, PositionsOK(k), NEW tasks, DOMAIN tasks \subseteq Tasks, NEW p
  PROVE  Remap(k, tasks, p) \in Nat
<1> DEFINE Had(q) == {t \in DOMAIN tasks : q # Gone /\ tasks[t].curr = q}
           swaps == {tasks[t].swap : t \in DOMAIN tasks}
           introduced == {q \in swaps : q # Gone /\ Had(q) = {}}
           before == {q \in introduced : q < p}
           owner == CHOOSE t \in Had(p) : TRUE
<1>1. Remap(k, tasks, p) =
        IF Had(p) # {} THEN IF k.pos[owner] = Gone THEN 0 ELSE k.pos[owner]
        ELSE k.end + Cardinality(before)
  BY Zenon DEF Remap
<1>2. Cardinality(before) \in Nat
  <2>1. IsFiniteSet(swaps)
    BY FiniteImage
  <2>2. before \subseteq swaps
    OBVIOUS
  <2> HIDE DEF before, swaps
  <2>3. IsFiniteSet(before)
    BY <2>1, <2>2, FS_Subset
  <2> QED
    BY <2>3, FS_CardinalityType
<1>3. Had(p) # {} => owner \in Tasks
  OBVIOUS
<1> HIDE DEF Had, before, owner
<1>4. CASE Had(p) # {}
  <2>1. k.pos[owner] \in Nat \cup {Gone}
    BY <1>3, <1>4 DEF PositionsOK
  <2> QED
    BY <1>1, <1>4, <2>1
<1>5. CASE Had(p) = {}
  <2>1. k.end + Cardinality(before) \in Nat
    BY <1>2 DEF PositionsOK
  <2> QED
    BY <1>1, <1>5, <2>1
<1> QED
  BY <1>4, <1>5

\* A position that one of the named tasks had is where the server has that task.
LEMMA RemapToOwner ==
  ASSUME NEW k, NEW tasks, NEW p, p # Gone, NEW o \in DOMAIN tasks, tasks[o].curr = p,
         \A t \in DOMAIN tasks : tasks[t].curr = p => t = o, k.pos[o] # Gone
  PROVE  Remap(k, tasks, p) = k.pos[o]
<1> DEFINE had == {t \in DOMAIN tasks : p # Gone /\ tasks[t].curr = p}
           owner == CHOOSE t \in had : TRUE
           introduced == {q \in {tasks[t].swap : t \in DOMAIN tasks} :
                            q # Gone /\ {t \in DOMAIN tasks : q # Gone /\ tasks[t].curr = q} = {}}
<1>1. Remap(k, tasks, p) =
        IF had # {} THEN IF k.pos[owner] = Gone THEN 0 ELSE k.pos[owner]
        ELSE k.end + Cardinality({q \in introduced : q < p})
  BY Zenon DEF Remap
<1>2. had = {o}
  OBVIOUS
<1>3. owner = o
  BY <1>2
<1> HIDE DEF had, owner, introduced
<1> QED
  BY <1>1, <1>2, <1>3

\* What handle_kim_update makes of the positions.
After(k, tasks, t) ==
  IF t \notin DOMAIN tasks THEN k.pos[t]
  ELSE IF tasks[t].swap # Gone THEN Remap(k, tasks, tasks[t].swap)
  ELSE IF tasks[t].curr = Gone THEN k.pos[t] ELSE Gone

Introduced(tasks) ==
  {tasks[t].swap : t \in DOMAIN tasks} \ ({tasks[t].curr : t \in DOMAIN tasks} \cup {Gone})

LEMMA MovedFields ==
  ASSUME NEW k, NEW update
  PROVE  /\ Moved(k, update).end = k.end + Cardinality(Introduced(update.tasks))
         /\ DOMAIN Moved(k, update).pos = Tasks
         /\ \A t \in Tasks : Moved(k, update).pos[t] = After(k, update.tasks, t)
         /\ Moved(k, update).row = Merged(k.row, update.group)
<1> DEFINE end == k.end + Cardinality(Introduced(update.tasks))
           pos == [t \in Tasks |-> After(k, update.tasks, t)]
           row == Merged(k.row, update.group)
<1>1. Moved(k, update) = [end |-> end, pos |-> pos, row |-> row]
  BY Zenon DEF Moved, After, Introduced
<1>2. DOMAIN pos = Tasks /\ \A t \in Tasks : pos[t] = After(k, update.tasks, t)
  OBVIOUS
<1> HIDE DEF end, pos, row
<1>3. /\ Moved(k, update).end = end /\ Moved(k, update).pos = pos
      /\ Moved(k, update).row = row
  BY <1>1
<1> QED
  BY <1>2, <1>3 DEF end, row

LEMMA MovedKeepsPositions ==
  ASSUME NEW k, PositionsOK(k), NEW update, DOMAIN update.tasks \subseteq Tasks
  PROVE  PositionsOK(Moved(k, update))
<1> DEFINE tasks == update.tasks
<1>1. Cardinality(Introduced(tasks)) \in Nat
  <2>1. IsFiniteSet({tasks[t].swap : t \in DOMAIN tasks})
    BY FiniteImage
  <2>2. IsFiniteSet(Introduced(tasks))
    BY <2>1, FS_Subset DEF Introduced
  <2> QED
    BY <2>2, FS_CardinalityType
<1>2. ASSUME NEW t \in Tasks PROVE After(k, tasks, t) \in Nat \cup {Gone}
  <2>1. Remap(k, tasks, tasks[t].swap) \in Nat
    BY RemapIsPosition
  <2>2. k.pos[t] \in Nat \cup {Gone}
    BY DEF PositionsOK
  <2> QED
    BY <2>1, <2>2 DEF After
<1> HIDE DEF tasks
<1>3. k.end + Cardinality(Introduced(tasks)) \in Nat
  BY <1>1 DEF PositionsOK
<1> QED
  BY <1>2, <1>3, MovedFields DEF PositionsOK, tasks

\* An update of a page that knows the order of its tasks: every task takes the
\* place of another, or of none.
LEMMA UpdateOfPage ==
  ASSUME NEW k, PositionsOK(k), NEW local, NEW remote, NEW tasks,
         SentOK(local, remote, tasks), DOMAIN local \subseteq Tasks, Agree(k.pos, remote),
         NEW carried, carried = Carried(remote, tasks)
  PROVE  /\ Introduced(tasks) = {}
         /\ \A t \in Tasks \ DOMAIN remote : After(k, tasks, t) = k.pos[t]
         /\ \A t \in DOMAIN remote :
              /\ carried[t] = Gone => After(k, tasks, t) = Gone
              /\ carried[t] # Gone => \E o \in DOMAIN remote :
                   /\ remote[o] = carried[t] /\ k.pos[o] # Gone
                   /\ After(k, tasks, t) = k.pos[o]
<1>1. DOMAIN tasks \subseteq DOMAIN remote /\ DOMAIN remote \subseteq Tasks
  BY DEF SentOK
<1>2. \A t \in DOMAIN remote : carried[t] = IF t \in DOMAIN tasks THEN tasks[t].swap ELSE remote[t]
  BY CarriedValues
<1>3. DOMAIN carried = DOMAIN remote
  BY CarriedValues
<1>4. ASSUME NEW t \in DOMAIN tasks, tasks[t].swap # Gone
      PROVE  \E o \in DOMAIN tasks :
               /\ tasks[o].curr = tasks[t].swap /\ remote[o] = tasks[t].swap
               /\ \A s \in DOMAIN tasks : tasks[s].curr = tasks[t].swap => s = o
               /\ k.pos[o] # Gone
  <2>1. carried[t] = tasks[t].swap /\ t \in DOMAIN carried
    BY <1>1, <1>2, <1>3
  <2>2. PICK o \in DOMAIN remote : remote[o] = tasks[t].swap
    BY <1>4, <2>1 DEF SentOK, Within
  <2>3. o \in DOMAIN tasks
    <3> SUFFICES ASSUME o \notin DOMAIN tasks PROVE FALSE
      OBVIOUS
    <3>1. carried[o] = tasks[t].swap
      BY <1>2, <2>2
    <3>2. o = t
      BY <1>3, <1>4, <2>1, <3>1 DEF SentOK, Distinct
    <3> QED
      BY <3>2
  <2>4. tasks[o].curr = tasks[t].swap
    BY <2>2, <2>3 DEF SentOK
  <2>5. ASSUME NEW s \in DOMAIN tasks, tasks[s].curr = tasks[t].swap PROVE s = o
    <3>1. remote[s] = tasks[t].swap /\ s \in DOMAIN remote
      BY <1>1, <2>5 DEF SentOK
    <3> QED
      BY <1>4, <2>2, <3>1 DEF SentOK, Distinct
  <2>6. k.pos[o] # Gone
    BY <1>4, <2>2 DEF Agree
  <2> QED
    BY <2>2, <2>3, <2>4, <2>5, <2>6
<1>5. Introduced(tasks) = {}
  <2> SUFFICES ASSUME NEW q \in Introduced(tasks) PROVE FALSE
    OBVIOUS
  <2>1. PICK t \in DOMAIN tasks : tasks[t].swap = q
    BY DEF Introduced
  <2>2. q # Gone /\ q \notin {tasks[s].curr : s \in DOMAIN tasks}
    BY DEF Introduced
  <2>3. \E o \in DOMAIN tasks : tasks[o].curr = q
    BY <1>4, <2>1, <2>2
  <2> QED
    BY <2>2, <2>3
<1>6. \A t \in Tasks \ DOMAIN remote : After(k, tasks, t) = k.pos[t]
  BY <1>1 DEF After
<1>7. ASSUME NEW t \in DOMAIN remote
      PROVE  /\ carried[t] = Gone => After(k, tasks, t) = Gone
             /\ carried[t] # Gone => \E o \in DOMAIN remote :
                  /\ remote[o] = carried[t] /\ k.pos[o] # Gone
                  /\ After(k, tasks, t) = k.pos[o]
  <2>1. CASE t \notin DOMAIN tasks
    <3>1. After(k, tasks, t) = k.pos[t] /\ carried[t] = remote[t]
      BY <1>2, <2>1 DEF After
    <3> QED
      BY <3>1 DEF Agree
  <2>2. CASE t \in DOMAIN tasks /\ tasks[t].swap = Gone
    <3>1. tasks[t].curr # Gone /\ carried[t] = Gone
      BY <1>2, <2>2 DEF SentOK
    <3> QED
      BY <2>2, <3>1 DEF After
  <2>3. CASE t \in DOMAIN tasks /\ tasks[t].swap # Gone
    <3>1. carried[t] = tasks[t].swap
      BY <1>2, <2>3
    <3>2. PICK o \in DOMAIN tasks :
               /\ tasks[o].curr = tasks[t].swap /\ remote[o] = tasks[t].swap
               /\ \A s \in DOMAIN tasks : tasks[s].curr = tasks[t].swap => s = o
               /\ k.pos[o] # Gone
      BY <1>4, <2>3
    <3>3. Remap(k, tasks, tasks[t].swap) = k.pos[o]
      <4>1. PICK p : p = tasks[t].swap
        OBVIOUS
      <4>2. Remap(k, tasks, p) = k.pos[o]
        BY <2>3, <3>2, <4>1, RemapToOwner
      <4> QED
        BY <4>1, <4>2
    <3>4. After(k, tasks, t) = k.pos[o]
      BY <2>3, <3>3 DEF After
    <3> QED
      BY <1>1, <2>3, <3>1, <3>2, <3>4
  <2> QED
    BY <2>1, <2>2, <2>3
<1> QED
  BY <1>5, <1>6, <1>7

\* Such an update leaves no two tasks at one place, and is what the page carried.
LEMMA UpdateIsUnique ==
  ASSUME NEW k, PositionsOK(k), Unique(k), NEW local, NEW remote, NEW tasks,
         SentOK(local, remote, tasks), DOMAIN local \subseteq Tasks, Agree(k.pos, remote),
         NEW update, update.tasks = tasks
  PROVE  /\ Unique(Moved(k, update))
         /\ Agree(Moved(k, update).pos, Carried(remote, tasks))
         /\ \A t \in Tasks \ DOMAIN remote : Moved(k, update).pos[t] = k.pos[t]
<1> DEFINE m == Moved(k, update)
           carried == Carried(remote, tasks)
<1>1. /\ m.end = k.end + Cardinality(Introduced(tasks)) /\ DOMAIN m.pos = Tasks
      /\ \A t \in Tasks : m.pos[t] = After(k, tasks, t)
  BY MovedFields
<1>2. DOMAIN carried = DOMAIN remote /\ DOMAIN remote \subseteq Tasks
  BY CarriedValues DEF SentOK
<1> HIDE DEF m, carried
<1>3. /\ Introduced(tasks) = {}
      /\ \A t \in Tasks \ DOMAIN remote : After(k, tasks, t) = k.pos[t]
      /\ \A t \in DOMAIN remote :
              /\ carried[t] = Gone => After(k, tasks, t) = Gone
              /\ carried[t] # Gone => \E o \in DOMAIN remote :
                   /\ remote[o] = carried[t] /\ k.pos[o] # Gone
                   /\ After(k, tasks, t) = k.pos[o]
  <2>1. PICK c : c = carried
    OBVIOUS
  <2>2. c = Carried(remote, tasks)
    BY <2>1 DEF carried
  <2> HIDE DEF carried
  <2>3. /\ Introduced(tasks) = {}
        /\ \A t \in Tasks \ DOMAIN remote : After(k, tasks, t) = k.pos[t]
        /\ \A t \in DOMAIN remote :
              /\ c[t] = Gone => After(k, tasks, t) = Gone
              /\ c[t] # Gone => \E o \in DOMAIN remote :
                   /\ remote[o] = c[t] /\ k.pos[o] # Gone
                   /\ After(k, tasks, t) = k.pos[o]
    BY <2>2, UpdateOfPage
  <2> QED
    BY <2>1, <2>3
<1>4. m.end = k.end
  <2>1. Cardinality(Introduced(tasks)) = 0
    BY <1>3, FS_EmptySet
  <2> QED
    BY <1>1, <2>1 DEF PositionsOK
<1>5. \A t \in Tasks \ DOMAIN remote : m.pos[t] = k.pos[t]
  BY <1>1, <1>3
<1>6. \A t \in DOMAIN remote :
        /\ carried[t] = Gone => m.pos[t] = Gone
        /\ carried[t] # Gone => \E o \in DOMAIN remote :
             remote[o] = carried[t] /\ k.pos[o] # Gone /\ m.pos[t] = k.pos[o]
  BY <1>1, <1>2, <1>3
<1>7. \A t \in Tasks : k.pos[t] # Gone => k.pos[t] # k.end
  BY DEF Unique, Members
<1>8. \A s, t \in Tasks : k.pos[s] # Gone /\ k.pos[s] = k.pos[t] => s = t
  BY DEF Unique, Members
\* Whose place in the kim a task takes.
<1>9. \A t \in Tasks : m.pos[t] # Gone => \E o \in Tasks :
        /\ k.pos[o] # Gone /\ m.pos[t] = k.pos[o]
        /\ t \in DOMAIN remote => o \in DOMAIN remote /\ remote[o] = carried[t] /\ carried[t] # Gone
        /\ t \notin DOMAIN remote => o = t
  <2> SUFFICES ASSUME NEW t \in Tasks, m.pos[t] # Gone
               PROVE  \E o \in Tasks :
                        /\ k.pos[o] # Gone /\ m.pos[t] = k.pos[o]
                        /\ t \in DOMAIN remote => o \in DOMAIN remote /\ remote[o] = carried[t]
                                                    /\ carried[t] # Gone
                        /\ t \notin DOMAIN remote => o = t
    OBVIOUS
  <2>1. CASE t \in DOMAIN remote
    <3>1. carried[t] # Gone
      BY <1>6, <2>1
    <3>2. PICK o \in DOMAIN remote : remote[o] = carried[t] /\ k.pos[o] # Gone /\ m.pos[t] = k.pos[o]
      BY <1>6, <2>1, <3>1
    <3> QED
      BY <1>2, <2>1, <3>1, <3>2
  <2>2. CASE t \notin DOMAIN remote
    BY <1>5, <2>2
  <2> QED
    BY <2>1, <2>2
<1>10. \A s, t \in Tasks : m.pos[s] # Gone /\ m.pos[s] = m.pos[t] => s = t
  <2> SUFFICES ASSUME NEW s \in Tasks, NEW t \in Tasks, m.pos[s] # Gone, m.pos[s] = m.pos[t]
               PROVE  s = t
    OBVIOUS
  <2>1. PICK o \in Tasks :
        /\ k.pos[o] # Gone /\ m.pos[s] = k.pos[o]
        /\ s \in DOMAIN remote => o \in DOMAIN remote /\ remote[o] = carried[s] /\ carried[s] # Gone
        /\ s \notin DOMAIN remote => o = s
    BY <1>9
  <2>2. PICK u \in Tasks :
        /\ k.pos[u] # Gone /\ m.pos[t] = k.pos[u]
        /\ t \in DOMAIN remote => u \in DOMAIN remote /\ remote[u] = carried[t] /\ carried[t] # Gone
        /\ t \notin DOMAIN remote => u = t
    BY <1>9
  <2>3. o = u
    BY <1>8, <2>1, <2>2
  <2>4. s \in DOMAIN remote <=> t \in DOMAIN remote
    BY <2>1, <2>2, <2>3
  <2>5. CASE s \in DOMAIN remote
    BY <1>2, <2>1, <2>2, <2>3, <2>4, <2>5 DEF SentOK, Distinct, carried
  <2>6. CASE s \notin DOMAIN remote
    BY <2>1, <2>2, <2>3, <2>4, <2>6
  <2> QED
    BY <2>5, <2>6
<1>11. Unique(m)
  <2>1. \A t \in Members(m) : t \in Tasks /\ m.pos[t] # Gone
    BY DEF Members
  <2>2. \A t \in Members(m) : m.pos[t] # m.end
    BY <1>4, <1>7, <1>9, <2>1
  <2> QED
    BY <1>10, <2>1, <2>2 DEF Unique
<1>12. \A t \in DOMAIN carried : m.pos[t] = Gone <=> carried[t] = Gone
  BY <1>2, <1>6
<1>13. ASSUME NEW s \in DOMAIN carried, NEW t \in DOMAIN carried,
              carried[s] # Gone, carried[t] # Gone, carried[s] < carried[t]
       PROVE  m.pos[s] < m.pos[t]
  <2>1. PICK o \in DOMAIN remote : remote[o] = carried[s] /\ k.pos[o] # Gone /\ m.pos[s] = k.pos[o]
    BY <1>2, <1>6, <1>13
  <2>2. PICK u \in DOMAIN remote : remote[u] = carried[t] /\ k.pos[u] # Gone /\ m.pos[t] = k.pos[u]
    BY <1>2, <1>6, <1>13
  <2>3. remote[o] < remote[u] /\ remote[o] # Gone /\ remote[u] # Gone
    BY <1>13, <2>1, <2>2
  <2>4. k.pos[o] < k.pos[u]
    BY <2>3 DEF Agree
  <2> QED
    BY <2>1, <2>2, <2>4
<1>14. Agree(m.pos, carried)
  BY <1>12, <1>13 DEF Agree
<1> QED
  BY <1>5, <1>11, <1>14 DEF m, carried

-----------------------------------------------------------------------------
(***************************************************************************)
(* The group                                                               *)
(***************************************************************************)

\* Fields of an entry or of a row, or some of them
TypedFields(new) ==
  /\ DOMAIN new \subseteq Fields /\ new = [f \in DOMAIN new |-> new[f]]
  /\ \A f \in DOMAIN new : IF f \in {"virtual", "deleted"} THEN new[f] \in BOOLEAN
                           ELSE new[f] \in Nat
Typed(entry) == TypedFields(entry) /\ DOMAIN entry = Fields

\* What an entry is: of no group yet, of a group, of one that was removed.  If the
\* group was there when the page was opened, it was born.
Absent(born, entry) == ~born /\ Typed(entry) /\ \A f \in Fields : entry[f] = NoRow[f]
Present(born, entry) ==
  /\ Typed(entry) /\ Sane(entry) /\ entry.deleted = FALSE
  /\ born \/ entry.start # 0
Removed(entry) == Typed(entry) /\ entry.deleted = TRUE

\* A group is added first and removed last.
Leads(born, a, b) ==
  /\ Absent(born, a) \/ Present(born, a) \/ Removed(a)
  /\ Absent(born, b) \/ Present(born, b) \/ Removed(b)
  /\ Absent(born, b) => Absent(born, a)
  /\ Removed(a) => a = b

LEMMA StagesDiffer ==
  ASSUME NEW born \in BOOLEAN, NEW a
  PROVE  /\ Absent(born, a) => ~Present(born, a) /\ ~Removed(a)
         /\ Present(born, a) => ~Removed(a)
<1>1. Absent(born, a) => ~born /\ a.start = 0 /\ a.deleted = FALSE
  BY DEF Absent, NoRow, Fields
<1>2. Present(born, a) => (born \/ a.start # 0) /\ a.deleted = FALSE
  BY DEF Present
<1>3. Removed(a) => a.deleted = TRUE
  BY DEF Removed
<1> QED
  BY <1>1, <1>2, <1>3

LEMMA LeadsIsTransitive ==
  ASSUME NEW born \in BOOLEAN, NEW a, NEW b, NEW c, Leads(born, a, b), Leads(born, b, c)
  PROVE  Leads(born, a, c)
BY Zenon DEF Leads

LEMMA LeadsToItself ==
  ASSUME NEW born \in BOOLEAN, NEW a, NEW b, Leads(born, a, b)
  PROVE  Leads(born, a, a) /\ Leads(born, b, b)
BY DEF Leads

\* The value of a field
Either(new, old, f) == IF f \in DOMAIN new THEN new[f] ELSE old[f]

LEMMA OverridingValues ==
  ASSUME NEW new, NEW old
  PROVE  /\ DOMAIN Overriding(new, old) = DOMAIN new \cup DOMAIN old
         /\ \A f \in DOMAIN new \cup DOMAIN old :
              Overriding(new, old)[f] = Either(new, old, f)
         /\ Overriding(new, old) = [f \in DOMAIN new \cup DOMAIN old |-> Overriding(new, old)[f]]
BY DEF Overriding, Either

LEMMA OverridingNothing ==
  ASSUME NEW old, Typed(old)
  PROVE  Overriding(NoFields, old) = old
<1>1. DOMAIN NoFields = {}
  BY DEF NoFields
<1>2. old = [f \in DOMAIN old |-> old[f]]
  BY DEF Typed, TypedFields
<1>3. Overriding(NoFields, old) = [f \in DOMAIN old |-> old[f]]
  BY <1>1 DEF Overriding
<1> QED
  BY <1>2, <1>3

\* The row of the group, and what it has to do with what a page knows of it
RowOK(row) ==
  /\ DOMAIN row = Fields \cup {"given"} /\ row.given \in BOOLEAN
  /\ row.start \in Nat /\ row.end \in Nat /\ row.duration \in Nat
  /\ row.virtual \in BOOLEAN /\ row.deleted = FALSE
  /\ Sane(row)
  /\ ~row.given => row = NoRow

RowIs(born, row, known) ==
  /\ row.given <=> Present(born, known)
  /\ row.given => \A f \in Fields : row[f] = known[f]

LEMMA NoRowOK == RowOK(NoRow) /\ NoRow.given = FALSE /\ Sane(NoRow)
BY DEF RowOK, NoRow, Sane, Fields

Deleting(new) == "deleted" \in DOMAIN new /\ new["deleted"]

\* What Merged does with fields that do not delete the row
LEMMA MergedValues ==
  ASSUME NEW row, RowOK(row), NEW new, TypedFields(new), new # NoFields,
         ~Deleting(new),
         NEW merged, merged = Merged(row, new)
  PROVE  /\ DOMAIN merged = Fields \cup {"given"}
         /\ merged.given = TRUE /\ merged.deleted = FALSE
         /\ \A f \in Fields \ {"deleted"} : merged[f] = Either(new, row, f)
<1> DEFINE old == IF row.given THEN row ELSE NoRow
           over == Overriding(new, old)
<1>1. merged = [over EXCEPT !.given = TRUE, !.deleted = FALSE]
  BY DEF Merged, Deleting
<1>2. DOMAIN old = Fields \cup {"given"}
  BY NoRowOK DEF RowOK
<1>3. old = row
  BY DEF RowOK
<1> HIDE DEF old
<1>5. /\ DOMAIN over = Fields \cup {"given"}
      /\ \A f \in Fields : over[f] = Either(new, old, f)
  <2>1. PICK base : base = old
    OBVIOUS
  <2>2. /\ DOMAIN Overriding(new, base) = DOMAIN new \cup DOMAIN base
        /\ \A f \in DOMAIN new \cup DOMAIN base :
             Overriding(new, base)[f] = Either(new, base, f)
    BY OverridingValues
  <2>3. DOMAIN new \subseteq Fields
    BY DEF TypedFields
  <2> QED
    BY <1>2, <2>1, <2>2, <2>3
<1> HIDE DEF over
<1>6. DOMAIN merged = Fields \cup {"given"}
  BY <1>1, <1>5
<1>7. merged.given = TRUE /\ merged.deleted = FALSE
  BY <1>1, <1>5 DEF Fields
<1>8. \A f \in Fields \ {"deleted"} : merged[f] = over[f]
  BY <1>1, <1>5 DEF Fields
<1> QED
  BY <1>3, <1>5, <1>6, <1>7, <1>8

\* The server's row is sane whatever the server is sent.
LEMMA MergedIsRow ==
  ASSUME NEW row, RowOK(row), NEW new, TypedFields(new),
         new = NoFields \/ Sane(Merged(row, new))
  PROVE  RowOK(Merged(row, new))
<1>1. CASE new = NoFields
  BY <1>1 DEF Merged
<1>2. CASE new # NoFields /\ Deleting(new)
  BY <1>2, NoRowOK DEF Merged, Deleting
<1>3. CASE new # NoFields /\ ~Deleting(new)
  <2>1. PICK merged : merged = Merged(row, new)
    OBVIOUS
  <2>2. DOMAIN merged = Fields \cup {"given"} /\ merged.given = TRUE /\ merged.deleted = FALSE
    BY <1>3, <2>1, MergedValues
  <2>3. \A f \in Fields \ {"deleted"} : merged[f] = Either(new, row, f)
    BY <1>3, <2>1, MergedValues
  <2>4. merged.start \in Nat /\ merged.end \in Nat /\ merged.duration \in Nat
    BY <2>3 DEF TypedFields, RowOK, Fields, Either
  <2>5. merged.virtual \in BOOLEAN
    BY <2>3 DEF TypedFields, RowOK, Fields, Either
  <2>6. Sane(merged)
    BY <1>3, <2>1
  <2> QED
    BY <2>1, <2>2, <2>4, <2>5, <2>6 DEF RowOK
<1> QED
  BY <1>1, <1>2, <1>3

\* What is in flight for the group, between what the page knows and what it has
SentGroupOK(born, entry, known, sent) ==
  /\ DOMAIN sent \subseteq Fields /\ sent = [f \in DOMAIN sent |-> sent[f]]
  /\ \A f \in DOMAIN sent : sent[f] # known[f]
  /\ Leads(born, known, Overriding(sent, known))
  /\ Leads(born, Overriding(sent, known), entry)

LEMMA StagesAreTyped ==
  ASSUME NEW born, NEW a, NEW b, Leads(born, a, b)
  PROVE  Typed(a) /\ Typed(b)
BY DEF Leads, Absent, Present, Removed

LEMMA SentIsTyped ==
  ASSUME NEW born, NEW entry, NEW known, NEW sent, SentGroupOK(born, entry, known, sent)
  PROVE  /\ TypedFields(sent) /\ Typed(known)
         /\ DOMAIN Overriding(sent, known) = Fields
         /\ \A f \in Fields : Overriding(sent, known)[f] = Either(sent, known, f)
<1>1. Typed(known) /\ Typed(Overriding(sent, known))
  BY StagesAreTyped DEF SentGroupOK
<1>2. DOMAIN sent \subseteq Fields /\ sent = [f \in DOMAIN sent |-> sent[f]]
  BY DEF SentGroupOK
<1>3. /\ DOMAIN Overriding(sent, known) = Fields
      /\ \A f \in Fields : Overriding(sent, known)[f] = Either(sent, known, f)
  <2>1. /\ DOMAIN Overriding(sent, known) = DOMAIN sent \cup DOMAIN known
        /\ \A f \in DOMAIN sent \cup DOMAIN known :
             Overriding(sent, known)[f] = Either(sent, known, f)
    BY OverridingValues
  <2>2. DOMAIN sent \cup DOMAIN known = Fields
    BY <1>1, <1>2 DEF Typed
  <2> QED
    BY <2>1, <2>2
<1>4. ASSUME NEW f \in DOMAIN sent
      PROVE  IF f \in {"virtual", "deleted"} THEN sent[f] \in BOOLEAN ELSE sent[f] \in Nat
  <2>1. f \in Fields /\ Overriding(sent, known)[f] = sent[f]
    BY <1>2, <1>3 DEF Either
  <2> DEFINE over == Overriding(sent, known)
  <2>2. IF f \in {"virtual", "deleted"} THEN over[f] \in BOOLEAN ELSE over[f] \in Nat
    BY <1>1, <2>1 DEF Typed, TypedFields
  <2> QED
    BY <2>1, <2>2
<1> QED
  BY <1>1, <1>2, <1>3, <1>4 DEF TypedFields

\* The update of the group is accepted, and the row is what the page carried.
LEMMA GroupUpdate ==
  ASSUME NEW born \in BOOLEAN, NEW entry, NEW known, NEW sent, NEW row, RowOK(row),
         SentGroupOK(born, entry, known, sent), RowIs(born, row, known),
         NEW carried, carried = Overriding(sent, known)
  PROVE  /\ sent = NoFields \/ Sane(Merged(row, sent))
         /\ RowIs(born, Merged(row, sent), carried)
<1>1. /\ TypedFields(sent) /\ Typed(known)
      /\ DOMAIN carried = Fields
      /\ \A f \in Fields : carried[f] = Either(sent, known, f)
  BY SentIsTyped
<1>2. Leads(born, known, carried) /\ \A f \in DOMAIN sent : sent[f] # known[f]
  BY DEF SentGroupOK
<1>3. CASE sent = NoFields
  <2>1. carried = known
    BY <1>1, <1>3, OverridingNothing
  <2>2. Merged(row, sent) = row
    BY <1>3 DEF Merged
  <2> QED
    BY <1>3, <2>1, <2>2
<1>4. CASE sent # NoFields /\ Deleting(sent)
  <2>1. Merged(row, sent) = NoRow
    BY <1>4 DEF Merged, Deleting
  <2>2. carried.deleted = TRUE
    <3>1. "deleted" \in Fields /\ "deleted" \in DOMAIN sent
      BY <1>4 DEF Fields, Deleting
    <3>2. sent["deleted"] \in BOOLEAN
      BY <1>1, <3>1 DEF TypedFields
    <3>3. sent["deleted"] = TRUE
      BY <1>4, <3>2 DEF Deleting
    <3>4. carried["deleted"] = sent["deleted"]
      BY <1>1, <3>1 DEF Either
    <3> QED
      BY <3>3, <3>4
  <2>3. ~Present(born, carried)
    BY <2>2 DEF Present
  <2> QED
    BY <2>1, <2>3, NoRowOK DEF RowIs
<1>5. CASE sent # NoFields /\ ~Deleting(sent)
  <2>1. DOMAIN sent # {}
    <3> SUFFICES ASSUME DOMAIN sent = {} PROVE sent = NoFields
      BY <1>5
    <3> QED
      BY <1>1 DEF TypedFields, NoFields
  <2>2. PICK f \in Fields : f \in DOMAIN sent /\ carried[f] # known[f]
    BY <1>1, <1>2, <2>1 DEF TypedFields, Either
  <2>3. ~Removed(known)
    BY <1>2, <2>2 DEF Leads
  <2>4. ~Absent(born, carried)
    <3> SUFFICES ASSUME Absent(born, carried) PROVE FALSE
      OBVIOUS
    <3>1. Absent(born, known)
      BY <1>2 DEF Leads
    <3>2. known[f] = NoRow[f] /\ carried[f] = NoRow[f]
      BY <3>1 DEF Absent
    <3> QED
      BY <2>2, <3>2
  <2>5. ~Removed(carried)
    <3> SUFFICES ASSUME Removed(carried) PROVE FALSE
      OBVIOUS
    <3>1. carried.deleted = TRUE /\ "deleted" \in Fields
      BY DEF Removed, Fields
    <3>2. CASE "deleted" \in DOMAIN sent
      <4>1. sent["deleted"] = TRUE
        BY <1>1, <3>1, <3>2 DEF Either
      <4> QED
        BY <1>5, <3>2, <4>1 DEF Deleting
    <3>3. CASE "deleted" \notin DOMAIN sent
      <4>1. known.deleted = TRUE
        BY <1>1, <3>1, <3>3 DEF Either
      <4> QED
        BY <1>1, <2>3, <4>1 DEF Removed
    <3> QED
      BY <3>2, <3>3
  <2>6. Present(born, carried)
    BY <1>2, <2>4, <2>5 DEF Leads
  <2>7. \A g \in Fields : row[g] = known[g]
    <3>1. CASE row.given
      BY <3>1 DEF RowIs
    <3>2. CASE ~row.given
      <4>1. Absent(born, known)
        BY <1>2, <2>3, <3>2 DEF Leads, RowIs
      <4>2. row = NoRow
        BY <3>2 DEF RowOK
      <4> QED
        BY <4>1, <4>2 DEF Absent
    <3> QED
      BY <3>1, <3>2
  <2>8. PICK merged : merged = Merged(row, sent)
    OBVIOUS
  <2>9. DOMAIN merged = Fields \cup {"given"} /\ merged.given = TRUE /\ merged.deleted = FALSE
    BY <1>1, <1>5, <2>8, MergedValues
  <2>10. \A g \in Fields \ {"deleted"} : merged[g] = Either(sent, row, g)
    <3>1. TypedFields(sent) /\ sent # NoFields /\ ~Deleting(sent)
      BY <1>1, <1>5
    <3> QED
      BY <2>8, <3>1, MergedValues
  <2>11. carried.deleted = FALSE
    BY <2>6 DEF Present
  <2>12. \A g \in Fields : merged[g] = carried[g]
    <3> SUFFICES ASSUME NEW g \in Fields PROVE merged[g] = carried[g]
      OBVIOUS
    <3>1. CASE g = "deleted"
      BY <2>9, <2>11, <3>1
    <3>2. CASE g # "deleted"
      BY <1>1, <2>7, <2>10, <3>2 DEF Either
    <3> QED
      BY <3>1, <3>2
  <2>13. Sane(merged)
    <3>1. /\ merged.virtual = carried.virtual /\ merged.start = carried.start
          /\ merged.end = carried.end /\ merged.duration = carried.duration
      BY <2>12 DEF Fields
    <3>2. Sane(carried)
      BY <2>6 DEF Present
    <3> QED
      BY <3>1, <3>2 DEF Sane
  <2>14. RowIs(born, merged, carried)
    BY <2>6, <2>9, <2>12 DEF RowIs
  <2> QED
    BY <2>8, <2>13, <2>14
<1> QED
  BY <1>3, <1>4, <1>5

-----------------------------------------------------------------------------
(***************************************************************************)
(* The dialog                                                              *)
(***************************************************************************)

\* What a time of a group can be: the zero of a row that was given without times
\* shows only where the group was born.
Moment(born) == IF born THEN Nat ELSE Nat \ {0}

DialogOK(born, dialog) ==
  /\ DOMAIN dialog = {"open", "start", "end", "duration", "virtual"} /\ dialog.open = TRUE
  /\ dialog.start \in Moment(born) \cup {Ancient, NotADate}
  /\ dialog.end \in Moment(born) \cup {Ancient, NotADate}
  /\ dialog.duration \in Nat \cup {NotADate}
  /\ dialog.virtual \in BOOLEAN

\* The inputs that updateTimeRelatedSettings agrees on
AgreedOK(born, why, a) ==
  /\ a.start \in Moment(born) /\ a.end \in Moment(born) /\ a.duration \in Nat
  /\ a.virtual \in BOOLEAN
  /\ why = "save" => Sane(a)

LEMMA AgreedTimes ==
  ASSUME NEW born \in BOOLEAN, NEW dialog, DialogOK(born, dialog), NEW why,
         NEW a \in Agreed(why, dialog)
  PROVE  AgreedOK(born, why, a)
<1> DEFINE outOfRange == dialog.start = Ancient \/ dialog.end = Ancient
           start0 == IF outOfRange THEN Year2023(dialog.start) ELSE dialog.start
           end0 == IF outOfRange THEN Year2023(dialog.end) ELSE dialog.end
           start == IF end0 < start0 /\ why = "end" THEN end0 ELSE start0
           end1 == IF end0 < start0 THEN start ELSE end0
           inferred == ((end1 - start) \div Minute) * Minute
           end == start + inferred
           typed == IF dialog.duration = NotADate THEN 0 ELSE dialog.duration * Minute
           clap == Clap(why, dialog.virtual, inferred, typed)
           result == [start |-> start,
                      end |-> IF clap /\ why = "duration" THEN end + typed - inferred ELSE end,
                      duration |-> IF clap /\ why # "duration" THEN inferred ELSE typed,
                      virtual |-> dialog.virtual]
           none == (outOfRange /\ why # "save") \/ NotADate \in {start0, end0}
<1>1. Agreed(why, dialog) = IF none THEN {} ELSE {result}
  BY Zenon DEF Agreed
<1>2. a = result /\ ~none
  BY <1>1
<1>3. start0 \in Moment(born) /\ end0 \in Moment(born)
  <2>1. dialog.start \in Moment(born) \cup {Ancient, NotADate}
    BY DEF DialogOK
  <2>2. dialog.end \in Moment(born) \cup {Ancient, NotADate}
    BY DEF DialogOK
  <2>3. 1 \in Moment(born) /\ 2 \in Moment(born) /\ Ancient = -2 /\ NotADate = -1
    BY DEF Moment, Ancient, NotADate
  <2>4. start0 # NotADate /\ end0 # NotADate
    BY <1>2
  <2>5. CASE outOfRange
    BY <2>1, <2>2, <2>3, <2>5 DEF Year2023
  <2>6. CASE ~outOfRange
    BY <2>1, <2>2, <2>4, <2>6
  <2> QED
    BY <2>5, <2>6
<1> HIDE DEF start0, end0
<1>4. start \in Moment(born) /\ end1 \in Moment(born)
  BY <1>3
<1>5. start \in Nat /\ end1 \in Nat /\ end1 >= start
  BY <1>3 DEF Moment
<1> HIDE DEF start, end1
<1>6. inferred \in Nat
  BY <1>5 DEF Minute
<1>7. typed \in Nat
  BY DEF DialogOK, Minute, NotADate
<1> HIDE DEF inferred, typed
<1>8. \A n \in Nat : start + n \in Moment(born)
  BY <1>4 DEF Moment
<1>9. clap <=> inferred < typed \/ (~dialog.virtual /\ typed < inferred)
  BY DEF Clap
<1>10. dialog.virtual \in BOOLEAN
  BY DEF DialogOK
<1> HIDE DEF clap
<1>11. /\ a.start = start /\ a.virtual = dialog.virtual
       /\ a.end = IF clap /\ why = "duration" THEN end + typed - inferred ELSE end
       /\ a.duration = IF clap /\ why # "duration" THEN inferred ELSE typed
  BY <1>2
<1>12. a.end \in Moment(born)
  <2>1. CASE clap /\ why = "duration"
    <3>1. a.end = start + typed
      BY <1>5, <1>6, <1>7, <1>11, <2>1
    <3> QED
      BY <1>7, <1>8, <3>1
  <2>2. CASE ~(clap /\ why = "duration")
    BY <1>6, <1>8, <1>11, <2>2
  <2> QED
    BY <2>1, <2>2
<1>13. a.duration \in Nat
  BY <1>6, <1>7, <1>11
<1>14. ASSUME why = "save" PROVE Sane(a)
  <2>1. a.end = start + inferred /\ a.duration = IF clap THEN inferred ELSE typed
    BY <1>11, <1>14
  <2>2. a.end - a.start = inferred
    BY <1>5, <1>6, <1>11, <2>1
  <2>3. CASE clap
    <3>1. a.end - a.start = a.duration /\ a.end - a.start >= a.duration
      BY <1>6, <2>1, <2>2, <2>3
    <3> QED
      BY <3>1 DEF Sane
  <2>4. CASE ~clap
    <3>1. typed <= inferred /\ (~dialog.virtual => typed = inferred)
      BY <1>6, <1>7, <1>9, <2>4
    <3> QED
      BY <1>6, <1>7, <1>11, <2>1, <2>2, <2>4, <3>1 DEF Sane
  <2> QED
    BY <2>3, <2>4
<1> QED
  BY <1>4, <1>10, <1>11, <1>12, <1>13, <1>14 DEF AgreedOK

\* The end of a sane group is no zero if its start is none.
LEMMA EndIsMoment ==
  ASSUME NEW born \in BOOLEAN, NEW entry, Present(born, entry)
  PROVE  entry.start \in Moment(born) /\ entry.end \in Moment(born) /\ entry.duration \in Nat
         /\ entry.virtual \in BOOLEAN
<1>1. entry.start \in Nat /\ entry.end \in Nat /\ entry.duration \in Nat /\ entry.virtual \in BOOLEAN
  BY DEF Present, Typed, TypedFields, Fields
<1>2. entry.end - entry.start >= entry.duration
  <2>1. CASE entry.virtual
    BY <2>1 DEF Present, Sane
  <2>2. CASE ~entry.virtual
    BY <1>1, <2>2 DEF Present, Sane
  <2> QED
    BY <2>1, <2>2
<1>3. entry.end >= entry.start
  BY <1>1, <1>2
<1>4. born \/ entry.start # 0
  BY DEF Present
<1>5. CASE born
  BY <1>1, <1>5 DEF Moment
<1>6. CASE ~born
  BY <1>1, <1>3, <1>4, <1>6 DEF Moment
<1> QED
  BY <1>1, <1>5, <1>6

LEMMA OpeningIsDialog ==
  ASSUME NEW born \in BOOLEAN, NEW entry, Present(born, entry)
  PROVE  DialogOK(born, Opening(entry))
<1> DEFINE d == Opening(entry)
<1>1. /\ DOMAIN d = {"open", "start", "end", "duration", "virtual"} /\ d.open = TRUE
      /\ d.start = entry.start /\ d.end = entry.end /\ d.virtual = entry.virtual
      /\ d.duration = (entry.duration + Minute \div 2) \div Minute
  BY DEF Opening
<1> HIDE DEF d
<1>2. d.duration \in Nat
  BY <1>1, EndIsMoment DEF Minute
<1>3. d.start \in Moment(born) /\ d.end \in Moment(born) /\ d.virtual \in BOOLEAN
  BY <1>1, EndIsMoment
<1> QED
  BY <1>1, <1>2, <1>3 DEF DialogOK, d

\* What the dialog becomes when an input is changed
LEMMA ChangedIsDialog ==
  ASSUME NEW born \in BOOLEAN, NEW dialog, DialogOK(born, dialog), NEW why,
         NEW d \in Changed(dialog, why)
  PROVE  DialogOK(born, d)
<1>1. PICK a \in Agreed(why, dialog) :
        d = [dialog EXCEPT !.start = a.start, !.end = a.end, !.duration = a.duration \div Minute]
  BY DEF Changed
<1>2. AgreedOK(born, why, a)
  BY AgreedTimes
<1>3. PICK n : n = a.duration \div Minute
  OBVIOUS
<1>4. n \in Nat
  BY <1>2, <1>3 DEF AgreedOK, Minute
<1>5. d = [dialog EXCEPT !.start = a.start, !.end = a.end, !.duration = n]
  BY <1>1, <1>3
<1>6. DOMAIN d = DOMAIN dialog
  BY <1>5
<1>7. /\ d.start = a.start /\ d.end = a.end /\ d.duration = n /\ d.virtual = dialog.virtual
      /\ d.open = dialog.open
  BY <1>5 DEF DialogOK
<1> QED
  BY <1>2, <1>4, <1>6, <1>7 DEF DialogOK, AgreedOK

\* The save button
LEMMA SavedIsPresent ==
  ASSUME NEW born \in BOOLEAN, NEW dialog, DialogOK(born, dialog),
         NEW entry, Present(born, entry), NEW new, new = SavedEntry(dialog, entry)
  PROVE  Present(born, new)
<1> DEFINE agreed == Agreed("save", dialog)
<1>1. CASE agreed = {}
  BY <1>1 DEF SavedEntry
<1>2. CASE agreed # {}
  <2>1. PICK a \in agreed :
          new = [entry EXCEPT !.start = a.start, !.end = a.end, !.duration = a.duration,
                              !.virtual = a.virtual]
    BY <1>2 DEF SavedEntry
  <2> HIDE DEF agreed
  <2>2. AgreedOK(born, "save", a)
    BY AgreedTimes DEF agreed
  <2>3. DOMAIN entry = Fields /\ DOMAIN new = Fields
    BY <2>1 DEF Present, Typed
  <2>4. /\ new.start = a.start /\ new.end = a.end /\ new.duration = a.duration
        /\ new.virtual = a.virtual /\ new.deleted = entry.deleted
    BY <2>1, <2>3 DEF Fields
  <2>5. new = [f \in DOMAIN new |-> new[f]]
    BY <2>1
  <2>6. /\ new.start \in Nat /\ new.end \in Nat /\ new.duration \in Nat
        /\ new.virtual \in BOOLEAN /\ new.deleted = FALSE /\ (born \/ new.start # 0)
    BY <2>2, <2>4 DEF AgreedOK, Present, Moment
  <2>7. Sane(new)
    <3>1. Sane(a)
      BY <2>2 DEF AgreedOK
    <3> QED
      BY <2>4, <3>1 DEF Sane
  <2>8. Typed(new)
    BY <2>3, <2>5, <2>6 DEF Typed, TypedFields, Fields
  <2> QED
    BY <2>6, <2>7, <2>8 DEF Present
<1> QED
  BY <1>1, <1>2

-----------------------------------------------------------------------------
(***************************************************************************)
(* A page: what holds of it whatever others do, and what holds of the kim  *)
(* while nobody else changes what the page shows                           *)
(***************************************************************************)

PageFields == {"list", "local", "remote", "entry", "entryRemote", "group", "dialog",
               "sent", "outcome", "again"}

TasksOK(p) ==
  /\ ListOK(p.list) /\ LocalOK(p.list.comps, p.local)
  /\ SentOK(p.local, p.remote, p.sent.tasks)

GroupOK(born, p) ==
  /\ p.group \in {"none", "shown", "removed"}
  /\ p.group = "none" => Absent(born, p.entry)
  /\ p.group = "shown" => Present(born, p.entry)
  /\ p.group = "removed" => Removed(p.entry)
  /\ p.dialog = Closed \/ (p.group = "shown" /\ DialogOK(born, p.dialog))
  /\ SentGroupOK(born, p.entry, p.entryRemote, p.sent.group)

PageOK(born, p) ==
  /\ DOMAIN p = PageFields /\ p.outcome \in {"none", "ok", "error"}
  /\ Idle(p) => p.outcome = "none"
  /\ TasksOK(p) /\ GroupOK(born, p)

\* What the server has of the page, if it has only what the page sent.
KnownTasks(p) == IF p.outcome = "ok" THEN Carried(p.remote, p.sent.tasks) ELSE p.remote
KnownEntry(p) ==
  IF p.outcome = "ok" THEN Overriding(p.sent.group, p.entryRemote) ELSE p.entryRemote

Follows(born, k, p) ==
  Agree(k.pos, KnownTasks(p)) /\ RowIs(born, k.row, KnownEntry(p))

LEMMA NoUpdateFields ==
  NoUpdate.tasks = NoTasks /\ NoUpdate.group = NoFields
BY DEF NoUpdate

\* Nothing in flight for the group
LEMMA NothingSentForGroup ==
  ASSUME NEW born \in BOOLEAN, NEW entry, NEW known, Leads(born, known, entry)
  PROVE  SentGroupOK(born, entry, known, NoFields)
<1>1. Typed(known)
  BY StagesAreTyped
<1>2. Overriding(NoFields, known) = known
  BY <1>1, OverridingNothing
<1>3. Leads(born, known, known)
  BY LeadsToItself
<1>4. DOMAIN NoFields = {} /\ NoFields = [f \in DOMAIN NoFields |-> NoFields[f]]
  BY DEF NoFields
<1> QED
  BY <1>2, <1>3, <1>4 DEF SentGroupOK

\* serialize of the group: what is carried is what the page has.
LEMMA SendKeepsGroup ==
  ASSUME NEW born \in BOOLEAN, NEW entry, NEW known, SentGroupOK(born, entry, known, NoFields),
         NEW sent, sent = Restrict(entry, {f \in Fields : entry[f] # known[f]})
  PROVE  SentGroupOK(born, entry, known, sent)
<1> DEFINE S == {f \in Fields : entry[f] # known[f]}
<1>1. sent = [f \in S |-> entry[f]]
  BY DEF Restrict
<1>2. DOMAIN sent = S /\ \A f \in S : sent[f] = entry[f]
  BY <1>1
<1>3. Typed(known)
  BY SentIsTyped
<1>4. Overriding(NoFields, known) = known
  BY <1>3, OverridingNothing
<1>5. Leads(born, known, entry) /\ Leads(born, entry, entry)
  BY <1>4, LeadsToItself DEF SentGroupOK
<1>6. Typed(entry)
  BY <1>5, StagesAreTyped
<1>7. Overriding(sent, known) = entry
  <2>1. S \cup DOMAIN known = Fields
    BY <1>3 DEF Typed
  <2>2. Overriding(sent, known) = [f \in Fields |-> IF f \in S THEN sent[f] ELSE known[f]]
    BY <1>2, <2>1 DEF Overriding
  <2>3. \A f \in Fields : (IF f \in S THEN sent[f] ELSE known[f]) = entry[f]
    BY <1>2
  <2>4. entry = [f \in Fields |-> entry[f]]
    BY <1>6 DEF Typed, TypedFields
  <2> QED
    BY <2>2, <2>3, <2>4
<1>8. sent = [f \in DOMAIN sent |-> sent[f]]
  BY <1>1
<1>9. \A f \in DOMAIN sent : sent[f] # known[f]
  BY <1>2
<1>10. DOMAIN sent \subseteq Fields
  BY <1>2
<1> QED
  BY <1>5, <1>7, <1>8, <1>9, <1>10 DEF SentGroupOK

\* onDeltaChange
LEMMA OnDeltaChangeKeeps ==
  ASSUME NEW born \in BOOLEAN, NEW p, PageOK(born, p), NEW q, q = OnDeltaChange(p)
  PROVE  /\ PageOK(born, q)
         /\ \A k : Follows(born, k, p) => Follows(born, k, q)
<1>1. CASE ~Idle(p)
  <2>1. q = [p EXCEPT !.again = TRUE]
    BY <1>1 DEF OnDeltaChange
  <2>2. /\ DOMAIN q = PageFields
        /\ q.list = p.list /\ q.local = p.local /\ q.remote = p.remote /\ q.entry = p.entry
        /\ q.entryRemote = p.entryRemote /\ q.group = p.group /\ q.dialog = p.dialog
        /\ q.sent = p.sent /\ q.outcome = p.outcome
    BY <2>1 DEF PageOK, PageFields
  <2>3. TasksOK(q)
    BY <2>2 DEF TasksOK, PageOK
  <2>4. GroupOK(born, q)
    BY <2>2, Zenon DEF GroupOK, PageOK
  <2>5. KnownTasks(q) = KnownTasks(p) /\ KnownEntry(q) = KnownEntry(p)
    BY <2>2 DEF KnownTasks, KnownEntry
  <2>6. Idle(q) => q.outcome = "none"
    BY <2>2 DEF PageOK, Idle
  <2>7. q.outcome \in {"none", "ok", "error"}
    BY <2>2 DEF PageOK
  <2> QED
    BY <2>2, <2>3, <2>4, <2>5, <2>6, <2>7 DEF PageOK, Follows
<1>2. CASE Idle(p)
  <2> DEFINE tasks == [t \in {t \in DOMAIN p.local : p.local[t] # p.remote[t]} |->
                         [curr |-> p.remote[t], swap |-> p.local[t]]]
             group == Restrict(p.entry, {f \in Fields : p.entry[f] # p.entryRemote[f]})
             sent == [tasks |-> tasks, group |-> group]
  <2>1. q = [p EXCEPT !.sent = sent]
    BY <1>2 DEF OnDeltaChange, Serialized
  <2>2. sent.tasks = tasks /\ sent.group = group
    OBVIOUS
  <2> HIDE DEF sent
  <2>3. /\ DOMAIN q = PageFields
        /\ q.list = p.list /\ q.local = p.local /\ q.remote = p.remote /\ q.entry = p.entry
        /\ q.entryRemote = p.entryRemote /\ q.group = p.group /\ q.dialog = p.dialog
        /\ q.sent = sent /\ q.outcome = p.outcome
    BY <2>1 DEF PageOK, PageFields
  <2>4. p.outcome = "none" /\ p.sent.tasks = NoTasks /\ p.sent.group = NoFields
    BY <1>2, NoUpdateFields DEF PageOK, Idle
  <2>5. SentOK(p.local, p.remote, tasks)
    <3>1. PICK local, remote, u : local = p.local /\ remote = p.remote /\ u = tasks
      OBVIOUS
    <3>2. SentOK(local, remote, NoTasks)
      BY <2>4, <3>1 DEF PageOK, TasksOK
    <3>3. \A t \in DOMAIN local : local[t] \in Int
      BY <3>1 DEF PageOK, TasksOK, LocalOK
    <3>4. Distinct(local)
      BY <3>1, LocalIsDistinct DEF PageOK, TasksOK, ListOK
    <3>5. u = [t \in {t \in DOMAIN local : local[t] # remote[t]} |->
                         [curr |-> remote[t], swap |-> local[t]]]
      BY <3>1
    <3>6. SentOK(local, remote, u)
      BY <3>2, <3>3, <3>4, <3>5, SendKeepsSent
    <3> QED
      BY <3>1, <3>6
  <2>6. SentGroupOK(born, p.entry, p.entryRemote, group)
    <3>1. SentGroupOK(born, p.entry, p.entryRemote, NoFields)
      BY <2>4 DEF PageOK, GroupOK
    <3> QED
      BY <3>1, SendKeepsGroup
  <2> HIDE DEF tasks, group
  <2>7. TasksOK(q)
    BY <2>2, <2>3, <2>5 DEF TasksOK, PageOK
  <2>8. GroupOK(born, q)
    BY <2>2, <2>3, <2>6, Zenon DEF GroupOK, PageOK
  <2>9. KnownTasks(q) = KnownTasks(p) /\ KnownEntry(q) = KnownEntry(p)
    BY <2>3, <2>4 DEF KnownTasks, KnownEntry
  <2>10. PageOK(born, q)
    BY <2>3, <2>4, <2>7, <2>8 DEF PageOK
  <2> QED
    BY <2>9, <2>10 DEF Follows
<1> QED
  BY <1>1, <1>2

\* An edit leaves alone what the page knows of the server.
LEMMA EditKeeps ==
  ASSUME NEW born \in BOOLEAN, NEW p, PageOK(born, p), NEW q, DOMAIN q = PageFields,
         q.remote = p.remote, q.entryRemote = p.entryRemote, q.sent = p.sent,
         q.outcome = p.outcome, TasksOK(q), GroupOK(born, q)
  PROVE  PageOK(born, q) /\ \A k : Follows(born, k, p) => Follows(born, k, q)
<1>1. KnownTasks(q) = KnownTasks(p) /\ KnownEntry(q) = KnownEntry(p)
  BY DEF KnownTasks, KnownEntry
<1>2. Idle(q) => q.outcome = "none"
  BY DEF Idle, PageOK
<1>3. q.outcome \in {"none", "ok", "error"}
  BY DEF PageOK
<1>4. PageOK(born, q)
  BY <1>2, <1>3 DEF PageOK
<1> QED
  BY <1>1, <1>4 DEF Follows

LEMMA SwapTasksKeeps ==
  ASSUME NEW born \in BOOLEAN, NEW p, PageOK(born, p),
         NEW i \in DOMAIN p.list.comps, NEW j \in DOMAIN p.list.comps,
         j = i - 1 \/ j = i + 1, NEW q, q = SwapTasks(p, i, j)
  PROVE  PageOK(born, q) /\ \A k : Follows(born, k, p) => Follows(born, k, q)
<1> DEFINE a == p.list.comps[i]
           b == p.list.comps[j]
           list == SwapComponents(p.list, i, j)
           local == [p.local EXCEPT ![a] = p.local[b], ![b] = p.local[a]]
           r == [p EXCEPT !.list = SwapComponents(@, i, j),
                          !.local[a] = p.local[b], !.local[b] = p.local[a]]
<1>1. q = OnDeltaChange(r)
  BY DEF SwapTasks
<1>2. DOMAIN p = PageFields
  BY DEF PageOK
<1>3. r = [p EXCEPT !.list = list, !.local = local]
  BY <1>2 DEF PageFields
<1> HIDE DEF r, list, local
<1>4. /\ DOMAIN r = PageFields /\ r.list = list /\ r.local = local /\ r.remote = p.remote
      /\ r.entry = p.entry /\ r.entryRemote = p.entryRemote /\ r.group = p.group
      /\ r.dialog = p.dialog /\ r.sent = p.sent /\ r.outcome = p.outcome
  BY <1>2, <1>3 DEF PageFields
<1>5. ListOK(p.list) /\ LocalOK(p.list.comps, p.local) /\ SentOK(p.local, p.remote, p.sent.tasks)
  BY DEF PageOK, TasksOK
<1>6. ListOK(list) /\ Exchanged(p.list.comps, list.comps, i, j)
  <2>1. PICK l, new : l = p.list /\ new = list
    OBVIOUS
  <2>2. new = SwapComponents(l, i, j)
    BY <2>1 DEF list
  <2>3. ListOK(l) /\ i \in DOMAIN l.comps /\ j \in DOMAIN l.comps
    BY <1>5, <2>1
  <2>4. ListOK(new) /\ Exchanged(l.comps, new.comps, i, j)
    BY <2>2, <2>3, SwapKeepsList
  <2> QED
    BY <2>1, <2>4
<1>7. LocalOK(list.comps, local) /\ Within(local, p.local) /\ DOMAIN local = DOMAIN p.local
  <2>1. PICK comps, old, new, swapped : /\ comps = p.list.comps /\ old = p.local
                                        /\ new = local /\ swapped = list.comps
    OBVIOUS
  <2>2. /\ comps \in Seq(Tasks) /\ IsInjective(comps) /\ LocalOK(comps, old)
        /\ i \in DOMAIN comps /\ j \in DOMAIN comps /\ Exchanged(comps, swapped, i, j)
    BY <1>5, <1>6, <2>1 DEF ListOK
  <2>3. new = [old EXCEPT ![comps[i]] = old[comps[j]], ![comps[j]] = old[comps[i]]]
    BY <2>1 DEF local
  <2>4. DOMAIN comps = 1..Len(comps) /\ Len(comps) \in Nat
    BY <2>2, LenProperties
  <2>5. i # j
    BY <2>2, <2>4
  <2>6. LocalOK(swapped, new) /\ Within(new, old) /\ DOMAIN new = DOMAIN old
    BY <2>2, <2>3, <2>5, SwapKeepsLocal
  <2> QED
    BY <2>1, <2>6
<1>8. SentOK(local, p.remote, p.sent.tasks)
  <2>1. PICK old, new, remote, tasks : /\ old = p.local /\ new = local
                                       /\ remote = p.remote /\ tasks = p.sent.tasks
    OBVIOUS
  <2>2. SentOK(old, remote, tasks) /\ Within(new, old) /\ DOMAIN new = DOMAIN old
    BY <1>5, <1>7, <2>1
  <2>3. SentOK(new, remote, tasks)
    BY <2>2, EditKeepsSent
  <2> QED
    BY <2>1, <2>3
<1>9. TasksOK(r)
  BY <1>4, <1>6, <1>7, <1>8 DEF TasksOK
<1>10. GroupOK(born, r)
  BY <1>4, Zenon DEF GroupOK, PageOK
<1>11. PageOK(born, r) /\ \A k : Follows(born, k, p) => Follows(born, k, r)
  BY <1>4, <1>9, <1>10, EditKeeps
<1>12. PageOK(born, q) /\ \A k : Follows(born, k, r) => Follows(born, k, q)
  BY <1>1, <1>11, OnDeltaChangeKeeps
<1> QED
  BY <1>11, <1>12

LEMMA PopTaskKeeps ==
  ASSUME NEW born \in BOOLEAN, NEW p, PageOK(born, p),
         NEW i \in DOMAIN p.list.comps, NEW q, q = PopTask(p, i)
  PROVE  PageOK(born, q) /\ \A k : Follows(born, k, p) => Follows(born, k, q)
<1> DEFINE a == p.list.comps[i]
           list == PopComponent(p.list, i)
           local == [p.local EXCEPT ![a] = Gone]
           r == [p EXCEPT !.list = PopComponent(@, i), !.local[p.list.comps[i]] = Gone]
<1>1. q = OnDeltaChange(r)
  BY DEF PopTask
<1>2. DOMAIN p = PageFields
  BY DEF PageOK
<1>3. r = [p EXCEPT !.list = list, !.local = local]
  BY <1>2 DEF PageFields
<1> HIDE DEF r, list, local
<1>4. /\ DOMAIN r = PageFields /\ r.list = list /\ r.local = local /\ r.remote = p.remote
      /\ r.entry = p.entry /\ r.entryRemote = p.entryRemote /\ r.group = p.group
      /\ r.dialog = p.dialog /\ r.sent = p.sent /\ r.outcome = p.outcome
  BY <1>2, <1>3 DEF PageFields
<1>5. ListOK(p.list) /\ LocalOK(p.list.comps, p.local) /\ SentOK(p.local, p.remote, p.sent.tasks)
  BY DEF PageOK, TasksOK
<1>6. ListOK(list) /\ list.comps = RemoveAt(p.list.comps, i)
  <2>1. PICK l, new : l = p.list /\ new = list
    OBVIOUS
  <2>2. new = PopComponent(l, i)
    BY <2>1 DEF list
  <2>3. ListOK(l) /\ i \in DOMAIN l.comps
    BY <1>5, <2>1
  <2>4. ListOK(new) /\ new.comps = RemoveAt(l.comps, i)
    BY <2>2, <2>3, PopKeepsList
  <2> QED
    BY <2>1, <2>4
<1>7. LocalOK(list.comps, local) /\ Within(local, p.local) /\ DOMAIN local = DOMAIN p.local
  <2>1. PICK comps, old, new, rest : /\ comps = p.list.comps /\ old = p.local
                                     /\ new = local /\ rest = list.comps
    OBVIOUS
  <2>2. /\ comps \in Seq(Tasks) /\ IsInjective(comps) /\ LocalOK(comps, old)
        /\ i \in DOMAIN comps /\ rest = RemoveAt(comps, i)
    BY <1>5, <1>6, <2>1 DEF ListOK
  <2>3. new = [old EXCEPT ![comps[i]] = Gone]
    BY <2>1 DEF local
  <2>4. LocalOK(rest, new) /\ Within(new, old) /\ DOMAIN new = DOMAIN old
    BY <2>2, <2>3, PopKeepsLocal
  <2> QED
    BY <2>1, <2>4
<1>8. SentOK(local, p.remote, p.sent.tasks)
  <2>1. PICK old, new, remote, tasks : /\ old = p.local /\ new = local
                                       /\ remote = p.remote /\ tasks = p.sent.tasks
    OBVIOUS
  <2>2. SentOK(old, remote, tasks) /\ Within(new, old) /\ DOMAIN new = DOMAIN old
    BY <1>5, <1>7, <2>1
  <2>3. SentOK(new, remote, tasks)
    BY <2>2, EditKeepsSent
  <2> QED
    BY <2>1, <2>3
<1>9. TasksOK(r)
  BY <1>4, <1>6, <1>7, <1>8 DEF TasksOK
<1>10. GroupOK(born, r)
  BY <1>4, Zenon DEF GroupOK, PageOK
<1>11. PageOK(born, r) /\ \A k : Follows(born, k, p) => Follows(born, k, r)
  BY <1>4, <1>9, <1>10, EditKeeps
<1>12. PageOK(born, q) /\ \A k : Follows(born, k, r) => Follows(born, k, q)
  BY <1>1, <1>11, OnDeltaChangeKeeps
<1> QED
  BY <1>11, <1>12

\* An edit of the group
LEMMA EditKeepsGroup ==
  ASSUME NEW born \in BOOLEAN, NEW entry, NEW known, NEW sent,
         SentGroupOK(born, entry, known, sent), ~Removed(entry),
         NEW new, Present(born, new) \/ Removed(new)
  PROVE  SentGroupOK(born, new, known, sent)
<1> DEFINE carried == Overriding(sent, known)
<1>1. Leads(born, carried, entry)
  BY DEF SentGroupOK
<1> HIDE DEF carried
<1>2. ~Removed(carried)
  BY <1>1 DEF Leads
<1>3. ~Absent(born, new)
  BY StagesDiffer
<1>4. Leads(born, carried, new)
  BY <1>1, <1>2, <1>3 DEF Leads
<1> QED
  BY <1>4 DEF SentGroupOK, carried

\* p with another stage of the group, dialog and entry.
WithGroup(p, group, dialog, entry) ==
  [p EXCEPT !.group = group, !.dialog = dialog, !.entry = entry]

LEMMA GroupEditKeeps ==
  ASSUME NEW born \in BOOLEAN, NEW p, PageOK(born, p), NEW group, NEW dialog, NEW entry,
         NEW r, r = WithGroup(p, group, dialog, entry),
         \/ group = "shown" /\ Present(born, entry)
         \/ group = "removed" /\ Removed(entry),
         dialog = Closed \/ (group = "shown" /\ DialogOK(born, dialog)),
         ~Removed(p.entry)
  PROVE  PageOK(born, r) /\ \A k : Follows(born, k, p) => Follows(born, k, r)
<1>1. /\ DOMAIN r = PageFields /\ r.list = p.list /\ r.local = p.local /\ r.remote = p.remote
      /\ r.entry = entry /\ r.entryRemote = p.entryRemote /\ r.group = group
      /\ r.dialog = dialog /\ r.sent = p.sent /\ r.outcome = p.outcome
  BY DEF PageOK, PageFields, WithGroup
<1>2. TasksOK(r)
  BY <1>1 DEF TasksOK, PageOK
<1>3. SentGroupOK(born, entry, p.entryRemote, p.sent.group)
  <2>1. SentGroupOK(born, p.entry, p.entryRemote, p.sent.group)
    BY DEF PageOK, GroupOK
  <2> QED
    BY <2>1, EditKeepsGroup
<1>4. GroupOK(born, r)
  BY <1>1, <1>3 DEF GroupOK
<1> QED
  BY <1>1, <1>2, <1>4, EditKeeps

\* The dialog is opened, changed or closed.
LEMMA DialogKeeps ==
  ASSUME NEW born \in BOOLEAN, NEW p, PageOK(born, p), p.group = "shown",
         NEW dialog, dialog = Closed \/ DialogOK(born, dialog),
         NEW r, r = [p EXCEPT !.dialog = dialog]
  PROVE  PageOK(born, r) /\ \A k : Follows(born, k, p) => Follows(born, k, r)
<1>1. Present(born, p.entry) /\ ~Removed(p.entry)
  BY StagesDiffer DEF PageOK, GroupOK
<1>2. PICK group, entry : group = p.group /\ entry = p.entry
  OBVIOUS
<1>3. r = WithGroup(p, group, dialog, entry)
  <2>1. DOMAIN p = PageFields
    BY DEF PageOK
  <2> QED
    BY <1>2, <2>1 DEF PageFields, WithGroup
<1> QED
  BY <1>1, <1>2, <1>3, GroupEditKeeps

DialogSaved(p, entry) == [p EXCEPT !.dialog = Closed, !.entry = entry]

LEMMA SaveDialogKeeps ==
  ASSUME NEW born \in BOOLEAN, NEW p, PageOK(born, p), p.dialog # Closed,
         NEW entry, entry = SavedEntry(p.dialog, p.entry),
         NEW r, r = DialogSaved(p, entry)
  PROVE  PageOK(born, r) /\ \A k : Follows(born, k, p) => Follows(born, k, r)
<1>2. p.group = "shown" /\ DialogOK(born, p.dialog)
  BY DEF PageOK, GroupOK
<1>3. Present(born, p.entry) /\ ~Removed(p.entry)
  BY <1>2, StagesDiffer DEF PageOK, GroupOK
<1>4. Present(born, entry)
  BY <1>2, <1>3, SavedIsPresent
<1>5. PICK group, dialog : group = p.group /\ dialog = Closed
  OBVIOUS
<1>6. r = WithGroup(p, group, dialog, entry)
  <2>1. DOMAIN p = PageFields
    BY DEF PageOK
  <2> QED
    BY <1>5, <2>1 DEF PageFields, WithGroup, DialogSaved
<1>7. group = "shown" /\ dialog = Closed
  BY <1>2, <1>5
<1> QED
  BY <1>3, <1>4, <1>6, <1>7, GroupEditKeeps

LEMMA AddGroupKeeps ==
  ASSUME NEW born \in BOOLEAN, NEW p, PageOK(born, p), p.group = "none",
         NEW r, r = [p EXCEPT !.group = "shown", !.entry.start = DefaultTime,
                              !.entry.end = DefaultTime]
  PROVE  PageOK(born, r) /\ \A k : Follows(born, k, p) => Follows(born, k, r)
<1>1. Absent(born, p.entry)
  BY DEF PageOK, GroupOK
<1>2. ~Removed(p.entry)
  BY <1>1, StagesDiffer
<1>3. PICK entry : entry = [p.entry EXCEPT !.start = DefaultTime, !.end = DefaultTime]
  OBVIOUS
<1>4. DefaultTime \in Nat \ {0}
  BY TimesAssumption
<1>5. DOMAIN p.entry = Fields
  BY <1>1 DEF Absent, Typed
<1>6. /\ DOMAIN entry = Fields /\ entry = [f \in DOMAIN entry |-> entry[f]]
      /\ entry.start = DefaultTime /\ entry.end = DefaultTime
      /\ entry.duration = p.entry.duration /\ entry.virtual = p.entry.virtual
      /\ entry.deleted = p.entry.deleted
  BY <1>3, <1>5 DEF Fields
<1>7. p.entry.duration = 0 /\ p.entry.virtual = FALSE /\ p.entry.deleted = FALSE
  BY <1>1 DEF Absent, NoRow, Fields
<1>8. Typed(entry)
  <2>1. entry.start \in Nat /\ entry.end \in Nat
    BY <1>4, <1>6
  <2>2. entry.duration \in Nat
    BY <1>6, <1>7
  <2>3. entry.virtual \in BOOLEAN /\ entry.deleted \in BOOLEAN
    BY <1>6, <1>7, Zenon
  <2> QED
    BY <1>6, <2>1, <2>2, <2>3 DEF Typed, TypedFields, Fields
<1>9. Sane(entry)
  BY <1>4, <1>6, <1>7 DEF Sane
<1>10. Present(born, entry)
  BY <1>4, <1>6, <1>7, <1>8, <1>9 DEF Present
<1>11. p.dialog = Closed
  BY DEF PageOK, GroupOK
<1>12. PICK group, dialog : group = "shown" /\ dialog = Closed
  OBVIOUS
<1>13. r = WithGroup(p, group, dialog, entry)
  <2>1. DOMAIN p = PageFields
    BY DEF PageOK
  <2> QED
    BY <1>3, <1>11, <1>12, <2>1 DEF PageFields, WithGroup
<1> QED
  BY <1>2, <1>10, <1>12, <1>13, GroupEditKeeps

LEMMA RemoveGroupKeeps ==
  ASSUME NEW born \in BOOLEAN, NEW p, PageOK(born, p), p.group = "shown", ~p.dialog.open,
         NEW r, r = [p EXCEPT !.group = "removed", !.entry.deleted = TRUE]
  PROVE  PageOK(born, r) /\ \A k : Follows(born, k, p) => Follows(born, k, r)
<1>1. Present(born, p.entry)
  BY DEF PageOK, GroupOK
<1>2. ~Removed(p.entry)
  BY <1>1, StagesDiffer
<1>3. PICK entry : entry = [p.entry EXCEPT !.deleted = TRUE]
  OBVIOUS
<1>4. Typed(p.entry)
  BY <1>1 DEF Present
<1>5. /\ DOMAIN entry = Fields /\ entry = [f \in DOMAIN entry |-> entry[f]]
      /\ entry.deleted = TRUE
      /\ \A f \in Fields \ {"deleted"} : entry[f] = p.entry[f]
  BY <1>3, <1>4 DEF Typed, Fields
<1>6. Typed(entry)
  BY <1>4, <1>5 DEF Typed, TypedFields, Fields
<1>7. Removed(entry)
  BY <1>5, <1>6 DEF Removed
<1>8. p.dialog = Closed
  BY DEF PageOK, GroupOK, DialogOK
<1>9. PICK group, dialog : group = "removed" /\ dialog = Closed
  OBVIOUS
<1>10. r = WithGroup(p, group, dialog, entry)
  <2>1. DOMAIN p = PageFields
    BY DEF PageOK
  <2> QED
    BY <1>3, <1>8, <1>9, <2>1 DEF PageFields, WithGroup
<1> QED
  BY <1>2, <1>7, <1>9, <1>10, GroupEditKeeps

-----------------------------------------------------------------------------
(***************************************************************************)
(* Requests and answers                                                    *)
(***************************************************************************)

KimOK(k) == PositionsOK(k) /\ Unique(k) /\ RowOK(k.row)

\* Whatever is accepted, the kim stays sound.
LEMMA MovedIsKim ==
  ASSUME NEW k, KimOK(k), NEW update, Accepted(k, update), TypedFields(update.group)
  PROVE  KimOK(Moved(k, update))
<1>1. /\ DOMAIN update.tasks \subseteq Tasks /\ Unique(Moved(k, update))
      /\ update.group = NoFields \/ Sane(Merged(k.row, update.group))
  BY DEF Accepted
<1>2. PositionsOK(Moved(k, update))
  BY <1>1, MovedKeepsPositions DEF KimOK
<1>3. RowOK(Merged(k.row, update.group))
  <2>1. RowOK(k.row)
    BY DEF KimOK
  <2> QED
    BY <1>1, <2>1, MergedIsRow
<1>4. Moved(k, update).row = Merged(k.row, update.group)
  BY MovedFields
<1> QED
  BY <1>1, <1>2, <1>3, <1>4 DEF KimOK

\* What a page sends is accepted if the page knows the order of its tasks and the
\* times of the group, and then the kim is as the page has it.
LEMMA PageIsAccepted ==
  ASSUME NEW born \in BOOLEAN, NEW k, KimOK(k), NEW p, PageOK(born, p),
         p.outcome = "none", Follows(born, k, p)
  PROVE  /\ Accepted(k, p.sent)
         /\ Agree(Moved(k, p.sent).pos, Carried(p.remote, p.sent.tasks))
         /\ RowIs(born, Moved(k, p.sent).row, Overriding(p.sent.group, p.entryRemote))
<1>1. PICK local, remote, tasks : local = p.local /\ remote = p.remote /\ tasks = p.sent.tasks
  OBVIOUS
<1>2. SentOK(local, remote, tasks) /\ DOMAIN local \subseteq Tasks
  BY <1>1 DEF PageOK, TasksOK, LocalOK
<1>3. Agree(k.pos, remote) /\ RowIs(born, k.row, p.entryRemote)
  BY <1>1 DEF Follows, KnownTasks, KnownEntry
<1>4. PICK update : update = p.sent
  OBVIOUS
<1>5. /\ Unique(Moved(k, update))
      /\ Agree(Moved(k, update).pos, Carried(remote, tasks))
  <2>1. PositionsOK(k) /\ Unique(k) /\ update.tasks = tasks
    BY <1>1, <1>4 DEF KimOK
  <2> QED
    BY <1>2, <1>3, <2>1, UpdateIsUnique
<1>6. DOMAIN update.tasks \subseteq Tasks
  BY <1>1, <1>2, <1>4 DEF SentOK
<1>7. PICK entry, known, sent, carried :
        /\ entry = p.entry /\ known = p.entryRemote /\ sent = p.sent.group
        /\ carried = Overriding(sent, known)
  OBVIOUS
<1>8. /\ sent = NoFields \/ Sane(Merged(k.row, sent))
      /\ RowIs(born, Merged(k.row, sent), carried)
  <2>1. SentGroupOK(born, entry, known, sent)
    BY <1>7 DEF PageOK, GroupOK
  <2>2. RowOK(k.row) /\ RowIs(born, k.row, known)
    BY <1>3, <1>7 DEF KimOK
  <2> QED
    BY <1>7, <2>1, <2>2, GroupUpdate
<1>9. Moved(k, update).row = Merged(k.row, sent)
  BY <1>4, <1>7, MovedFields
<1>10. Accepted(k, update)
  BY <1>4, <1>5, <1>6, <1>7, <1>8 DEF Accepted
<1> QED
  BY <1>1, <1>4, <1>5, <1>7, <1>8, <1>9, <1>10

\* The outcome of a request
LEMMA OutcomeKeeps ==
  ASSUME NEW born \in BOOLEAN, NEW p, PageOK(born, p), ~Idle(p),
         NEW outcome \in {"ok", "error"}, NEW q, q = [p EXCEPT !.outcome = outcome]
  PROVE  /\ PageOK(born, q)
         /\ q.remote = p.remote /\ q.sent = p.sent /\ q.entryRemote = p.entryRemote
         /\ q.outcome = outcome
<1>1. /\ DOMAIN q = PageFields /\ q.list = p.list /\ q.local = p.local /\ q.remote = p.remote
      /\ q.entry = p.entry /\ q.entryRemote = p.entryRemote /\ q.group = p.group
      /\ q.dialog = p.dialog /\ q.sent = p.sent /\ q.outcome = outcome
  BY DEF PageOK, PageFields
<1>2. TasksOK(q)
  BY <1>1 DEF TasksOK, PageOK
<1>3. GroupOK(born, q)
  BY <1>1, Zenon DEF GroupOK, PageOK
<1>4. ~Idle(q)
  BY <1>1 DEF Idle
<1> QED
  BY <1>1, <1>2, <1>3, <1>4 DEF PageOK

\* The request is over and nothing came of it, as far as the page knows.
LEMMA OverKeeps ==
  ASSUME NEW born \in BOOLEAN, NEW p, PageOK(born, p),
         NEW q, q = [p EXCEPT !.sent = NoUpdate, !.outcome = "none", !.again = FALSE]
  PROVE  /\ PageOK(born, q)
         /\ p.outcome # "ok" => \A k : Follows(born, k, p) => Follows(born, k, q)
<1>1. /\ DOMAIN q = PageFields /\ q.list = p.list /\ q.local = p.local /\ q.remote = p.remote
      /\ q.entry = p.entry /\ q.entryRemote = p.entryRemote /\ q.group = p.group
      /\ q.dialog = p.dialog /\ q.sent.tasks = NoTasks /\ q.sent.group = NoFields
      /\ q.outcome = "none"
  BY NoUpdateFields DEF PageOK, PageFields
<1>2. SentOK(q.local, q.remote, q.sent.tasks)
  <2>1. SentOK(p.local, p.remote, p.sent.tasks)
    BY DEF PageOK, TasksOK
  <2>2. SentOK(p.local, p.remote, NoTasks)
    BY <2>1, FailureKeepsSent
  <2> QED
    BY <1>1, <2>2
<1>3. TasksOK(q)
  BY <1>1, <1>2 DEF TasksOK, PageOK
<1>4. SentGroupOK(born, q.entry, q.entryRemote, q.sent.group)
  <2>1. SentGroupOK(born, p.entry, p.entryRemote, p.sent.group)
    BY DEF PageOK, GroupOK
  <2>2. Leads(born, p.entryRemote, p.entry)
    BY <2>1, LeadsIsTransitive DEF SentGroupOK
  <2>3. SentGroupOK(born, p.entry, p.entryRemote, NoFields)
    BY <2>2, NothingSentForGroup
  <2> QED
    BY <1>1, <2>3
<1>5. GroupOK(born, q)
  BY <1>1, <1>4, Zenon DEF GroupOK, PageOK
<1>6. PageOK(born, q)
  BY <1>1, <1>3, <1>5 DEF PageOK
<1>7. p.outcome # "ok" => KnownTasks(q) = KnownTasks(p) /\ KnownEntry(q) = KnownEntry(p)
  BY <1>1 DEF KnownTasks, KnownEntry
<1> QED
  BY <1>6, <1>7 DEF Follows

\* The request is over and the page commits what it sent.
LEMMA CommitKeeps ==
  ASSUME NEW born \in BOOLEAN, NEW p, PageOK(born, p), p.outcome = "ok",
         NEW q, q = [Committed(p) EXCEPT !.sent = NoUpdate, !.outcome = "none", !.again = FALSE]
  PROVE  PageOK(born, q) /\ \A k : Follows(born, k, p) => Follows(born, k, q)
<1>1. PICK remote, known : /\ remote = Carried(p.remote, p.sent.tasks)
                           /\ known = Overriding(p.sent.group, p.entryRemote)
  OBVIOUS
<1>2. Committed(p) = [p EXCEPT !.remote = remote, !.entryRemote = known]
  BY <1>1 DEF Committed, Carried, PageOK, PageFields
<1>3. /\ DOMAIN q = PageFields /\ q.list = p.list /\ q.local = p.local /\ q.remote = remote
      /\ q.entry = p.entry /\ q.entryRemote = known /\ q.group = p.group
      /\ q.dialog = p.dialog /\ q.sent.tasks = NoTasks /\ q.sent.group = NoFields
      /\ q.outcome = "none"
  BY <1>2, NoUpdateFields DEF PageOK, PageFields
<1>4. SentOK(p.local, remote, NoTasks)
  <2>1. PICK local, old, tasks : local = p.local /\ old = p.remote /\ tasks = p.sent.tasks
    OBVIOUS
  <2>2. SentOK(local, old, tasks) /\ remote = Carried(old, tasks)
    BY <1>1, <2>1 DEF PageOK, TasksOK
  <2>3. SentOK(local, remote, NoTasks)
    BY <2>2, CommitKeepsSent
  <2> QED
    BY <2>1, <2>3
<1>5. TasksOK(q)
  BY <1>3, <1>4 DEF TasksOK, PageOK
<1>6. SentGroupOK(born, p.entry, known, NoFields)
  <2>1. Leads(born, known, p.entry)
    BY <1>1 DEF SentGroupOK, PageOK, GroupOK
  <2> QED
    BY <2>1, NothingSentForGroup
<1>7. GroupOK(born, q)
  BY <1>3, <1>6, Zenon DEF GroupOK, PageOK
<1>8. PageOK(born, q)
  BY <1>3, <1>5, <1>7 DEF PageOK
<1>9. KnownTasks(q) = KnownTasks(p) /\ KnownEntry(q) = KnownEntry(p)
  BY <1>1, <1>3 DEF KnownTasks, KnownEntry
<1> QED
  BY <1>8, <1>9 DEF Follows

\* The next round of the loop
LEMMA RoundKeeps ==
  ASSUME NEW born \in BOOLEAN, NEW p, NEW over,
         over = [p EXCEPT !.sent = NoUpdate, !.outcome = "none", !.again = FALSE],
         PageOK(born, over), NEW q, q = NextRound(p)
  PROVE  PageOK(born, q) /\ \A k : Follows(born, k, over) => Follows(born, k, q)
<1>1. q = over \/ q = OnDeltaChange(over)
  BY DEF NextRound
<1>2. CASE q = over
  BY <1>2
<1>3. CASE q = OnDeltaChange(over)
  BY <1>3, OnDeltaChangeKeeps
<1> QED
  BY <1>1, <1>2, <1>3

-----------------------------------------------------------------------------
(***************************************************************************)
(* The page is opened                                                      *)
(***************************************************************************)

LEMMA LeastExists ==
  ASSUME NEW S \in SUBSET Nat, S # {}
  PROVE  \E n \in S : \A m \in S : n <= m
<1> DEFINE less == OpToRel(<, Nat)
<1>1. \A i, j \in Nat : i < j => <<i, j>> \in less
  BY DEF OpToRel
<1>2. IsWellFoundedOn(less, Nat)
  BY NatLessThanWellFounded
<1> HIDE DEF less
<1>3. PICK n \in S : \A m \in S : <<m, n>> \notin less
  BY <1>2, WFMin, Zenon
<1>4. ASSUME NEW m \in S PROVE n <= m
  <2> SUFFICES ASSUME ~(n <= m) PROVE FALSE
    OBVIOUS
  <2>1. m \in Nat /\ n \in Nat /\ m < n
    OBVIOUS
  <2> QED
    BY <1>1, <1>3, <2>1, Zenon
<1> QED
  BY <1>4

\* s lists the tasks of S by their positions.
Enumerates(s, S, pos) ==
  /\ s \in [1..Cardinality(S) -> S]
  /\ \A i, j \in DOMAIN s : i < j => pos[s[i]] < pos[s[j]]

\* Tasks at different positions can be listed: the first one, and the others after it.
LEMMA OrderExists ==
  ASSUME NEW M, IsFiniteSet(M), NEW pos, \A t \in M : pos[t] \in Nat,
         \A s, t \in M : pos[s] = pos[t] => s = t
  PROVE  \E s : Enumerates(s, M, pos)
<1> SUFFICES ASSUME \A s : ~Enumerates(s, M, pos) PROVE FALSE
  OBVIOUS
<1> DEFINE Bad(n) == \E S \in SUBSET M : Cardinality(S) = n /\ \A s : ~Enumerates(s, S, pos)
           bad == {n \in Nat : Bad(n)}
<1>1. Cardinality(M) \in bad
  <2>1. Cardinality(M) \in Nat
    BY FS_CardinalityType
  <2> QED
    BY <2>1
<1>2. PICK n \in bad : \A m \in bad : n <= m
  BY <1>1, LeastExists
<1>3. PICK S \in SUBSET M : Cardinality(S) = n /\ \A s : ~Enumerates(s, S, pos)
  BY <1>2
<1>4. n \in Nat
  BY <1>2
<1>5. IsFiniteSet(S)
  BY FS_Subset
<1>6. S # {}
  <2> SUFFICES ASSUME S = {} PROVE FALSE
    OBVIOUS
  <2>1. Cardinality(S) = 0
    BY FS_EmptySet
  <2> DEFINE s == [i \in {} |-> 0]
  <2>2. s \in [1..0 -> S] /\ DOMAIN s = {}
    OBVIOUS
  <2>3. Enumerates(s, S, pos)
    BY <2>1, <2>2 DEF Enumerates
  <2> QED
    BY <1>3, <2>3
<1>7. PICK first \in S : \A t \in S : pos[first] <= pos[t]
  <2> DEFINE places == {pos[t] : t \in S}
  <2>1. places \in SUBSET Nat /\ places # {}
    BY <1>6
  <2>2. PICK p \in places : \A q \in places : p <= q
    <3> HIDE DEF places
    <3> QED
      BY <2>1, LeastExists
  <2> QED
    BY <2>2
<1>8. Cardinality(S \ {first}) = n - 1 /\ n >= 1
  <2>1. Cardinality(S \ {first}) = Cardinality(S) - 1
    BY <1>5, FS_RemoveElement
  <2>2. Cardinality(S) # 0
    BY <1>5, <1>6, FS_EmptySet
  <2> QED
    BY <1>3, <1>4, <2>1, <2>2
<1>9. PICK rest : Enumerates(rest, S \ {first}, pos)
  <2>1. n - 1 \in Nat /\ ~(n <= n - 1)
    BY <1>4, <1>8
  <2>2. n - 1 \notin bad
    BY <1>2, <2>1
  <2>3. ~Bad(n - 1)
    BY <2>1, <2>2
  <2>4. S \ {first} \in SUBSET M
    OBVIOUS
  <2> QED
    BY <1>8, <2>3, <2>4
<1>10. /\ rest \in [1..(n - 1) -> S \ {first}]
       /\ \A i, j \in 1..(n - 1) : i < j => pos[rest[i]] < pos[rest[j]]
  BY <1>8, <1>9 DEF Enumerates
<1> DEFINE s == [i \in 1..n |-> IF i = 1 THEN first ELSE rest[i - 1]]
<1>11. \A i \in 1..n : i # 1 => i - 1 \in 1..(n - 1)
  BY <1>4
<1>12. s \in [1..n -> S]
  BY <1>10, <1>11
<1>13. ASSUME NEW i \in 1..n, NEW j \in 1..n, i < j PROVE pos[s[i]] < pos[s[j]]
  <2>1. j # 1 /\ j - 1 \in 1..(n - 1) /\ s[j] = rest[j - 1]
    BY <1>4, <1>13
  <2>2. CASE i = 1
    <3>1. rest[j - 1] \in S \ {first}
      BY <1>10, <2>1
    <3>2. pos[first] # pos[rest[j - 1]] /\ pos[first] <= pos[rest[j - 1]]
      BY <1>7, <3>1
    <3>3. pos[first] \in Nat /\ pos[rest[j - 1]] \in Nat
      BY <3>1
    <3>4. s[i] = first
      BY <2>2
    <3> QED
      BY <2>1, <3>2, <3>3, <3>4
  <2>3. CASE i # 1
    <3>1. i - 1 \in 1..(n - 1) /\ i - 1 < j - 1 /\ s[i] = rest[i - 1]
      BY <1>4, <1>13, <2>3
    <3> QED
      BY <1>10, <2>1, <3>1
  <2> QED
    BY <2>2, <2>3
<1>14. Enumerates(s, S, pos)
  <2>1. DOMAIN s = 1..n
    OBVIOUS
  <2> HIDE DEF s
  <2> QED
    BY <1>3, <1>12, <1>13, <2>1 DEF Enumerates
<1> QED
  BY <1>3, <1>14

LEMMA OrderEnumerates ==
  ASSUME NEW k, KimOK(k)
  PROVE  /\ Order(k) \in Seq(Tasks) /\ IsInjective(Order(k))
         /\ ToSet(Order(k)) \subseteq Members(k)
         /\ \A i, j \in DOMAIN Order(k) : i < j => k.pos[Order(k)[i]] < k.pos[Order(k)[j]]
<1> DEFINE M == Members(k)
           n == Cardinality(M)
<1>1. M \in SUBSET Tasks /\ IsFiniteSet(M) /\ n \in Nat
  <2>1. M \in SUBSET Tasks
    BY DEF Members
  <2> QED
    BY <2>1, KimEditingAssumption, FS_Subset, FS_CardinalityType
<1>2. \A t \in M : k.pos[t] \in Nat
  BY DEF KimOK, PositionsOK, Members
<1>3. \E s : Enumerates(s, M, k.pos)
  <2>1. PICK pos : pos = k.pos
    OBVIOUS
  <2>2. \A s, t \in M : pos[s] = pos[t] => s = t
    BY <2>1 DEF KimOK, Unique
  <2>3. \A t \in M : pos[t] \in Nat
    BY <1>2, <2>1
  <2> HIDE DEF M
  <2>4. \E s : Enumerates(s, M, pos)
    BY <1>1, <2>2, <2>3, OrderExists
  <2> QED
    BY <2>1, <2>4
<1>4. /\ Order(k) \in [1..n -> M]
      /\ \A i, j \in DOMAIN Order(k) : i < j => k.pos[Order(k)[i]] < k.pos[Order(k)[j]]
  <2>1. \E s \in [1..n -> M] : \A i, j \in DOMAIN s : i < j => k.pos[s[i]] < k.pos[s[j]]
    BY <1>3 DEF Enumerates
  <2> QED
    BY <2>1 DEF Order
<1>5. PICK s : s = Order(k)
  OBVIOUS
<1>6. s \in Seq(Tasks) /\ DOMAIN s = 1..n /\ \A i \in 1..n : s[i] \in M
  <2>1. s \in [1..n -> M]
    BY <1>4, <1>5
  <2>2. s \in [1..n -> Tasks]
    BY <1>1, <2>1
  <2> QED
    BY <1>1, <2>1, <2>2
<1>7. IsInjective(s)
  <2> SUFFICES ASSUME NEW i \in DOMAIN s, NEW j \in DOMAIN s, s[i] = s[j] PROVE i = j
    BY DEF IsInjective
  <2>1. k.pos[s[i]] \in Nat /\ k.pos[s[j]] \in Nat
    BY <1>2, <1>6
  <2>2. ~(i < j)
    BY <1>4, <1>5, <2>1
  <2>3. ~(j < i)
    BY <1>4, <1>5, <2>1
  <2>4. i \in Nat /\ j \in Nat
    BY <1>6
  <2> QED
    BY <2>2, <2>3, <2>4
<1>8. ToSet(s) \subseteq M
  BY <1>6 DEF ToSet
<1> QED
  BY <1>4, <1>5, <1>6, <1>7, <1>8

LEMMA FreshIsList ==
  ASSUME NEW s \in Seq(Tasks), IsInjective(s), NEW list, list = FreshList(s)
  PROVE  ListOK(list) /\ list.comps = s
<1> DEFINE place == [x \in ToSet(s) |-> PositionOf(IndexOf(s, x), Len(s))]
<1>1. /\ DOMAIN list = {"rows", "comps", "place"}
      /\ list.rows = s /\ list.comps = s /\ list.place = place
  BY DEF FreshList
<1>2. DOMAIN place = ToSet(s)
  OBVIOUS
<1>3. ASSUME NEW i \in DOMAIN s PROVE place[s[i]] = PositionOf(i, Len(s))
  <2>1. s[i] \in ToSet(s) /\ IndexOf(s, s[i]) = i
    BY IndexOfElement DEF ToSet
  <2> QED
    BY <2>1
<1> HIDE DEF place
<1> QED
  BY <1>1, <1>2, <1>3 DEF ListOK

LEMMA OpenedIsPage ==
  ASSUME NEW k, KimOK(k)
  PROVE  \E born \in BOOLEAN : PageOK(born, Opened(k)) /\ Follows(born, k, Opened(k))
<1> DEFINE index == [t \in ToSet(Order(k)) |-> IndexOf(Order(k), t) - 1]
           entry == [f \in Fields |-> k.row[f]]
           p == Opened(k)
<1>1. PICK order : order = Order(k)
  OBVIOUS
<1>2. /\ order \in Seq(Tasks) /\ IsInjective(order) /\ ToSet(order) \subseteq Members(k)
      /\ \A i, j \in DOMAIN order : i < j => k.pos[order[i]] < k.pos[order[j]]
  BY <1>1, OrderEnumerates
<1>3. DOMAIN order = 1..Len(order) /\ Len(order) \in Nat
  BY <1>2, LenProperties
<1>4. DOMAIN index = ToSet(order) /\ \A i \in DOMAIN order : index[order[i]] = i - 1
  <2>1. \A i \in DOMAIN order : order[i] \in ToSet(order) /\ IndexOf(order, order[i]) = i
    BY <1>2, IndexOfElement DEF ToSet
  <2> QED
    BY <1>1, <2>1
<1>5. /\ DOMAIN p = PageFields
      /\ p.list = FreshList(order) /\ p.local = index /\ p.remote = index
      /\ p.entry = entry /\ p.entryRemote = entry
      /\ p.group = (IF k.row.given THEN "shown" ELSE "none") /\ p.dialog = Closed
      /\ p.sent = NoUpdate /\ p.outcome = "none"
  BY <1>1 DEF Opened, PageFields
<1> HIDE DEF p, index, entry
<1>6. \A t \in DOMAIN index : \E i \in DOMAIN order : t = order[i] /\ index[t] = i - 1
  BY <1>4 DEF ToSet
<1>7. \A t \in DOMAIN index : index[t] \in Nat /\ index[t] # Gone
  BY <1>3, <1>6 DEF Gone
<1>8. LocalOK(order, index)
  <2>1. DOMAIN index \subseteq Tasks
    BY <1>2, <1>4 DEF Members
  <2>2. \A t \in DOMAIN index : index[t] \in Int
    BY <1>7
  <2>3. \A i, j \in DOMAIN order : i < j => index[order[i]] < index[order[j]]
    BY <1>3, <1>4
  <2>4. \A t \in Tasks : t \in ToSet(order) <=> t \in DOMAIN index /\ index[t] # Gone
    BY <1>4, <1>7
  <2> QED
    BY <2>1, <2>2, <2>3, <2>4 DEF LocalOK
<1>9. SentOK(index, index, NoTasks)
  <2>1. Distinct(index)
    BY <1>2, <1>8, LocalIsDistinct
  <2>2. /\ DOMAIN Carried(index, NoTasks) = DOMAIN index
        /\ \A t \in DOMAIN index : Carried(index, NoTasks)[t] = index[t]
        /\ DOMAIN NoTasks = {}
    BY NothingCarried
  <2>3. Distinct(Carried(index, NoTasks))
    BY <2>1, <2>2 DEF Distinct
  <2>4. Within(Carried(index, NoTasks), index) /\ Within(index, Carried(index, NoTasks))
    BY <2>2 DEF Within
  <2>5. \A t \in DOMAIN index : index[t] \in Int
    BY <1>7
  <2> QED
    BY <2>1, <2>2, <2>3, <2>4, <2>5 DEF SentOK
<1>10. TasksOK(p)
  <2>1. ListOK(p.list) /\ p.list.comps = order
    BY <1>2, <1>5, FreshIsList
  <2> QED
    BY <1>5, <1>8, <1>9, <2>1, NoUpdateFields DEF TasksOK
<1>11. Agree(k.pos, index)
  <2>1. \A t \in DOMAIN index : k.pos[t] # Gone
    BY <1>2, <1>4 DEF Members
  <2>2. ASSUME NEW s \in DOMAIN index, NEW t \in DOMAIN index, index[s] < index[t]
        PROVE  k.pos[s] < k.pos[t]
    <3>1. PICK i \in DOMAIN order : s = order[i] /\ index[s] = i - 1
      BY <1>6
    <3>2. PICK j \in DOMAIN order : t = order[j] /\ index[t] = j - 1
      BY <1>6
    <3>3. i < j
      BY <1>3, <2>2, <3>1, <3>2
    <3> QED
      BY <1>2, <3>1, <3>2, <3>3
  <2> QED
    BY <1>7, <2>1, <2>2 DEF Agree
<1>12. RowOK(k.row)
  BY DEF KimOK
<1>13. PICK row, born : row = k.row /\ born = k.row.given
  OBVIOUS
<1>14. born \in BOOLEAN /\ RowOK(row) /\ (row.given <=> born)
  BY <1>12, <1>13 DEF RowOK
<1>15. entry = [f \in Fields |-> row[f]]
  BY <1>13 DEF entry
<1>16. /\ DOMAIN entry = Fields /\ entry = [f \in DOMAIN entry |-> entry[f]]
       /\ \A f \in Fields : entry[f] = row[f]
  BY <1>15
<1>17. /\ entry.start = row.start /\ entry.end = row.end /\ entry.duration = row.duration
       /\ entry.virtual = row.virtual /\ entry.deleted = row.deleted
  BY <1>16 DEF Fields
<1>18. Typed(entry)
  <2>1. entry.start \in Nat /\ entry.end \in Nat /\ entry.duration \in Nat
    BY <1>14, <1>17 DEF RowOK
  <2>2. entry.virtual \in BOOLEAN /\ entry.deleted \in BOOLEAN
    BY <1>14, <1>17, Zenon DEF RowOK
  <2> QED
    BY <1>16, <2>1, <2>2 DEF Typed, TypedFields, Fields
<1>19. CASE row.given
  <2>1. Sane(entry)
    BY <1>14, <1>17 DEF RowOK, Sane
  <2>2. entry.deleted = FALSE
    BY <1>14, <1>17, Zenon DEF RowOK
  <2>3. Present(born, entry)
    BY <1>14, <1>18, <1>19, <2>1, <2>2 DEF Present
  <2>4. Leads(born, entry, entry)
    BY <1>14, <2>3, StagesDiffer DEF Leads
  <2>5. SentGroupOK(born, entry, entry, NoFields)
    BY <1>14, <2>4, NothingSentForGroup
  <2>6. p.group = "shown"
    BY <1>5, <1>13, <1>19
  <2>7. GroupOK(born, p)
    BY <1>5, <2>3, <2>5, <2>6, NoUpdateFields DEF GroupOK
  <2>8. RowIs(born, row, entry)
    BY <1>14, <1>16, <1>19, <2>3 DEF RowIs
  <2>9. PageOK(born, p) /\ Follows(born, k, p)
    BY <1>5, <1>10, <1>11, <1>13, <2>7, <2>8
       DEF PageOK, Follows, KnownTasks, KnownEntry
  <2> QED
    BY <1>14, <2>9 DEF p
<1>20. CASE ~row.given
  <2>1. row = NoRow
    BY <1>14, <1>20 DEF RowOK
  <2>2. Absent(born, entry)
    BY <1>14, <1>16, <1>18, <1>20, <2>1 DEF Absent
  <2>3. ~Present(born, entry)
    BY <1>14, <2>2, StagesDiffer
  <2>4. Leads(born, entry, entry)
    BY <1>14, <2>2, StagesDiffer DEF Leads
  <2>5. SentGroupOK(born, entry, entry, NoFields)
    BY <1>14, <2>4, NothingSentForGroup
  <2>6. p.group = "none"
    BY <1>5, <1>13, <1>20
  <2>7. GroupOK(born, p)
    BY <1>5, <2>2, <2>5, <2>6, NoUpdateFields DEF GroupOK
  <2>8. RowIs(born, row, entry)
    BY <1>20, <2>3 DEF RowIs
  <2>9. PageOK(born, p) /\ Follows(born, k, p)
    BY <1>5, <1>10, <1>11, <1>13, <2>7, <2>8
       DEF PageOK, Follows, KnownTasks, KnownEntry
  <2> QED
    BY <1>14, <2>9 DEF p
<1> QED
  BY <1>19, <1>20

-----------------------------------------------------------------------------
(***************************************************************************)
(* The invariant of the pages and the kim                                  *)
(***************************************************************************)

\* A page that no one disturbed follows the kim.
Sound(e) ==
  \E born \in BOOLEAN :
    /\ PageOK(born, page[e])
    /\ e \notin disturbed \cup unsure => Follows(born, kim, page[e])

EditingInv ==
  /\ KimOK(kim) /\ DOMAIN page = Editors
  /\ \A e \in Editors : Sound(e)

LEMMA SetToSeqEnumerates ==
  ASSUME NEW S \in SUBSET Tasks, NEW s, s = SetToSeq(S)
  PROVE  s \in Seq(Tasks) /\ IsInjective(s)
<1> DEFINE n == Cardinality(S)
<1>1. n \in Nat /\ ExistsBijection(1..n, S)
  BY KimEditingAssumption, FS_Subset, FS_CardinalityType
<1>2. \E f \in [1..n -> S] : IsInjective(f)
  BY <1>1 DEF ExistsBijection, Bijection, Injection
<1>3. s \in [1..n -> S] /\ IsInjective(s)
  BY <1>2 DEF SetToSeq
<1> QED
  BY <1>1, <1>3

LEMMA InitialPositions ==
  ASSUME NEW order \in Seq(Tasks), IsInjective(order), NEW k,
         k.end = 2 * Len(order),
         k.pos = [t \in Tasks |-> IF t \in ToSet(order)
                                  THEN 2 * IndexOf(order, t) - 1 ELSE Gone]
  PROVE  PositionsOK(k) /\ Unique(k)
<1>1. DOMAIN order = 1..Len(order) /\ Len(order) \in Nat
  BY LenProperties
<1>2. \A i \in DOMAIN order : order[i] \in ToSet(order) /\ IndexOf(order, order[i]) = i
  BY IndexOfElement DEF ToSet
<1>3. /\ DOMAIN k.pos = Tasks
      /\ \A t \in Tasks : k.pos[t] = IF t \in ToSet(order) THEN 2 * IndexOf(order, t) - 1 ELSE Gone
  OBVIOUS
<1>4. ASSUME NEW t \in Tasks, t \in ToSet(order)
      PROVE  \E i \in DOMAIN order : t = order[i] /\ k.pos[t] = 2 * i - 1
  <2>1. PICK i \in DOMAIN order : t = order[i]
    BY <1>4 DEF ToSet
  <2> QED
    BY <1>2, <1>3, <1>4, <2>1
<1>5. \A t \in Tasks : t \notin ToSet(order) => k.pos[t] = Gone
  BY <1>3
<1> HIDE DEF IndexOf
<1>6. PositionsOK(k)
  <2>1. \A t \in Tasks : k.pos[t] \in Nat \cup {Gone}
    BY <1>1, <1>4, <1>5 DEF Gone
  <2>2. k.end \in Nat
    BY <1>1
  <2> QED
    BY <1>3, <2>1, <2>2 DEF PositionsOK
<1>7. Unique(k)
  <2>1. \A t \in Members(k) : \E i \in DOMAIN order : t = order[i] /\ k.pos[t] = 2 * i - 1
    BY <1>4, <1>5 DEF Members
  <2>2. ASSUME NEW s \in Members(k), NEW t \in Members(k), k.pos[s] = k.pos[t]
        PROVE  s = t
    <3>1. PICK i \in DOMAIN order : s = order[i] /\ k.pos[s] = 2 * i - 1
      BY <2>1
    <3>2. PICK j \in DOMAIN order : t = order[j] /\ k.pos[t] = 2 * j - 1
      BY <2>1
    <3>3. i = j
      BY <1>1, <2>2, <3>1, <3>2
    <3> QED
      BY <3>1, <3>2, <3>3
  <2>3. ASSUME NEW t \in Members(k) PROVE k.pos[t] # k.end
    <3>1. PICK i \in DOMAIN order : k.pos[t] = 2 * i - 1
      BY <2>1
    <3> QED
      BY <1>1, <3>1
  <2> QED
    BY <2>2, <2>3 DEF Unique
<1> QED
  BY <1>6, <1>7

\* Pages that are opened for a sound kim are sound.
LEMMA InitIsSound ==
  ASSUME Init
  PROVE  EditingInv
<1>1. PICK order \in {SetToSeq(S) : S \in Compiled}, given \in BOOLEAN :
        kim = [end |-> 2 * Len(order),
               pos |-> [t \in Tasks |-> IF t \in ToSet(order)
                                        THEN 2 * IndexOf(order, t) - 1 ELSE Gone],
               row |-> IF given
                       THEN [NoRow EXCEPT !.given = TRUE, !.start = DefaultTime,
                                          !.end = DefaultTime + Minute, !.duration = Minute]
                       ELSE NoRow]
  BY DEF Init
<1>2. order \in Seq(Tasks) /\ IsInjective(order)
  BY KimEditingAssumption, SetToSeqEnumerates
<1>3. PositionsOK(kim) /\ Unique(kim)
  <2>1. /\ kim.end = 2 * Len(order)
        /\ kim.pos = [t \in Tasks |-> IF t \in ToSet(order)
                                      THEN 2 * IndexOf(order, t) - 1 ELSE Gone]
    BY <1>1
  <2> QED
    BY <1>2, <2>1, InitialPositions
<1>4. RowOK(kim.row)
  <2> DEFINE row == [NoRow EXCEPT !.given = TRUE, !.start = DefaultTime,
                                  !.end = DefaultTime + Minute, !.duration = Minute]
  <2>1. kim.row = IF given THEN row ELSE NoRow
    BY <1>1
  <2>2. /\ DOMAIN row = Fields \cup {"given"} /\ row.given = TRUE
        /\ row.start = DefaultTime /\ row.end = DefaultTime + Minute /\ row.duration = Minute
        /\ row.virtual = FALSE /\ row.deleted = FALSE
    BY DEF NoRow, Fields
  <2> HIDE DEF row
  <2>3. DefaultTime \in Nat /\ Minute = 2
    BY TimesAssumption DEF Minute
  <2>4. row.start \in Nat /\ row.end \in Nat /\ row.duration \in Nat
    BY <2>2, <2>3
  <2>5. row.end - row.start = row.duration
    BY <2>2, <2>3
  <2>6. Sane(row)
    BY <2>2, <2>5 DEF Sane
  <2>7. RowOK(row)
    BY <2>2, <2>4, <2>6 DEF RowOK
  <2> QED
    BY <2>1, <2>7, NoRowOK
<1>5. KimOK(kim)
  BY <1>3, <1>4 DEF KimOK
<1>6. page = [e \in Editors |-> Opened(kim)]
  BY DEF Init
<1> HIDE DEF Init
<1>7. PICK born \in BOOLEAN : PageOK(born, Opened(kim)) /\ Follows(born, kim, Opened(kim))
  BY <1>5, OpenedIsPage
<1>8. ASSUME NEW e \in Editors PROVE Sound(e)
  <2>1. page[e] = Opened(kim)
    BY <1>6
  <2> QED
    BY <1>7, <2>1 DEF Sound
<1> QED
  BY <1>5, <1>6, <1>8 DEF EditingInv

-----------------------------------------------------------------------------
(***************************************************************************)
(* The steps at a page                                                     *)
(***************************************************************************)

\* One page changes, and no other one that nobody disturbed is affected.
LEMMA OnePage ==
  ASSUME EditingInv, NEW e \in Editors, NEW q, page' = [page EXCEPT ![e] = q], kim' = kim,
         \A d \in Editors \ {e} : d \in disturbed \cup unsure => d \in (disturbed \cup unsure)',
         \E born \in BOOLEAN :
           PageOK(born, q) /\ (e \notin (disturbed \cup unsure)' => Follows(born, kim, q))
  PROVE  EditingInv'
<1>1. DOMAIN page' = Editors
  BY DEF EditingInv
<1>2. ASSUME NEW d \in Editors PROVE Sound(d)'
  <2>1. CASE d = e
    <3>1. page'[d] = q
      BY <2>1 DEF EditingInv
    <3> QED
      BY <2>1, <3>1 DEF Sound
  <2>2. CASE d # e
    <3>1. page'[d] = page[d]
      BY <2>2 DEF EditingInv
    <3>2. PICK born \in BOOLEAN :
            /\ PageOK(born, page[d])
            /\ d \notin disturbed \cup unsure => Follows(born, kim, page[d])
      BY DEF EditingInv, Sound
    <3> QED
      BY <2>2, <3>1, <3>2 DEF Sound
  <2> QED
    BY <2>1, <2>2
<1>3. KimOK(kim')
  BY DEF EditingInv
<1> QED
  BY <1>1, <1>2, <1>3 DEF EditingInv

\* q is as sound as p, and knows as much.
Keeps(p, q) ==
  \A born \in BOOLEAN :
    PageOK(born, p) => PageOK(born, q) /\ \A k : Follows(born, k, p) => Follows(born, k, q)

LEMMA OnDeltaChangeIsSound ==
  ASSUME NEW p, NEW r, Keeps(p, r), NEW q, q = OnDeltaChange(r)
  PROVE  Keeps(p, q)
<1> SUFFICES ASSUME NEW born \in BOOLEAN, PageOK(born, p)
             PROVE  PageOK(born, q) /\ \A k : Follows(born, k, p) => Follows(born, k, q)
  BY DEF Keeps
<1>1. PageOK(born, r) /\ \A k : Follows(born, k, p) => Follows(born, k, r)
  BY DEF Keeps
<1>2. PageOK(born, q) /\ \A k : Follows(born, k, r) => Follows(born, k, q)
  BY <1>1, OnDeltaChangeKeeps
<1> QED
  BY <1>1, <1>2

LEMMA KeptPage ==
  ASSUME EditingInv, NEW e \in Editors, NEW q, page' = [page EXCEPT ![e] = q],
         UNCHANGED <<kim, disturbed, unsure>>, Keeps(page[e], q)
  PROVE  EditingInv'
<1>1. PICK born \in BOOLEAN :
        PageOK(born, page[e]) /\ (e \notin disturbed \cup unsure => Follows(born, kim, page[e]))
  BY DEF EditingInv, Sound
<1>2. PageOK(born, q) /\ (e \notin disturbed \cup unsure => Follows(born, kim, q))
  BY <1>1 DEF Keeps
<1>3. (disturbed \cup unsure)' = disturbed \cup unsure /\ kim' = kim
  OBVIOUS
<1> QED
  BY <1>2, <1>3, OnePage

\* What a component was told of its place is its place.
LEMMA PlaceOfTask ==
  ASSUME NEW list, ListOK(list), NEW t \in ToSet(list.comps), NEW place, place = list.place[t]
  PROVE  /\ place.i \in DOMAIN list.comps /\ list.comps[place.i] = t
         /\ ~place.isFirst => place.i - 1 \in DOMAIN list.comps
         /\ ~place.isLast => place.i + 1 \in DOMAIN list.comps
<1>1. PICK i \in DOMAIN list.comps : t = list.comps[i]
  BY DEF ToSet
<1>2. place = PositionOf(i, Len(list.comps))
  BY <1>1 DEF ListOK
<1>3. DOMAIN list.comps = 1..Len(list.comps) /\ Len(list.comps) \in Nat
  BY LenProperties DEF ListOK
<1>4. place.i = i /\ place.isFirst = (i = 1) /\ place.isLast = (i = Len(list.comps))
  BY <1>2 DEF PositionOf
<1>5. (~place.isFirst => i # 1) /\ (~place.isLast => i # Len(list.comps))
  BY <1>4, Zenon
<1>6. /\ i # 1 => i - 1 \in DOMAIN list.comps
      /\ i # Len(list.comps) => i + 1 \in DOMAIN list.comps
  BY <1>1, <1>3
<1> QED
  BY <1>1, <1>4, <1>5, <1>6, Zenon

LEMMA PageIsList ==
  ASSUME EditingInv, NEW e \in Editors
  PROVE  ListOK(page[e].list)
BY DEF EditingInv, Sound, PageOK, TasksOK

LEMMA RowsAreEdited ==
  ASSUME EditingInv, NEW e \in Editors, NEW t \in ToSet(page[e].list.comps),
         MoveUp(e, t) \/ MoveDown(e, t) \/ RemoveTask(e, t)
  PROVE  EditingInv'
<1>1. PICK p, list, place : p = page[e] /\ list = p.list /\ place = list.place[t]
  OBVIOUS
<1>2. /\ place.i \in DOMAIN list.comps
      /\ ~place.isFirst => place.i - 1 \in DOMAIN list.comps
      /\ ~place.isLast => place.i + 1 \in DOMAIN list.comps
  <2>1. ListOK(list) /\ t \in ToSet(list.comps)
    BY <1>1, PageIsList
  <2> QED
    BY <1>1, <2>1, PlaceOfTask
<1>3. ASSUME NEW j \in DOMAIN list.comps, j = place.i - 1 \/ j = place.i + 1
      PROVE  Keeps(p, SwapTasks(p, place.i, j))
  BY <1>1, <1>2, <1>3, SwapTasksKeeps DEF Keeps
<1>4. Keeps(p, PopTask(p, place.i))
  BY <1>1, <1>2, PopTaskKeeps DEF Keeps
<1>5. ASSUME NEW q, NEW kind, Keeps(p, q), Edit(e, kind, q) PROVE EditingInv'
  BY <1>1, <1>5, KeptPage DEF Edit
<1>6. CASE MoveUp(e, t)
  BY <1>1, <1>2, <1>3, <1>5, <1>6 DEF MoveUp
<1>7. CASE MoveDown(e, t)
  BY <1>1, <1>2, <1>3, <1>5, <1>7 DEF MoveDown
<1>8. CASE RemoveTask(e, t)
  BY <1>1, <1>4, <1>5, <1>8 DEF RemoveTask
<1> QED
  BY <1>6, <1>7, <1>8

\* An input that is typed is one the dialog may have.
LEMMA TypedIsDialog ==
  ASSUME NEW born \in BOOLEAN, NEW dialog, DialogOK(born, dialog),
         NEW input \in {"start", "end", "duration", "virtual"},
         NEW value \in CASE input = "duration" -> Durations
                         [] input = "virtual" -> BOOLEAN
                         [] OTHER -> Inputs,
         NEW typed, typed = [dialog EXCEPT ![input] = value]
  PROVE  DialogOK(born, typed)
<1>1. Inputs \subseteq Moment(born) \cup {Ancient, NotADate}
  BY TimesAssumption DEF Inputs, Times, Moment
<1>2. Durations \subseteq Nat \cup {NotADate}
  BY DEF Durations
<1>3. /\ DOMAIN dialog = {"open", "start", "end", "duration", "virtual"} /\ dialog.open = TRUE
      /\ dialog.start \in Moment(born) \cup {Ancient, NotADate}
      /\ dialog.end \in Moment(born) \cup {Ancient, NotADate}
      /\ dialog.duration \in Nat \cup {NotADate}
      /\ dialog.virtual \in BOOLEAN
  BY DEF DialogOK
<1>4. CASE input = "duration"
  <2>1. /\ DOMAIN typed = DOMAIN dialog /\ typed.open = dialog.open
        /\ typed.start = dialog.start /\ typed.end = dialog.end
        /\ typed.duration = value /\ typed.virtual = dialog.virtual
    BY <1>3, <1>4
  <2>2. value \in Nat \cup {NotADate}
    BY <1>2, <1>4
  <2> QED
    BY <1>3, <2>1, <2>2, Zenon DEF DialogOK
<1>5. CASE input = "virtual"
  <2>1. /\ DOMAIN typed = DOMAIN dialog /\ typed.open = dialog.open
        /\ typed.start = dialog.start /\ typed.end = dialog.end
        /\ typed.duration = dialog.duration /\ typed.virtual = value
    BY <1>3, <1>5
  <2>2. value \in BOOLEAN
    BY <1>5
  <2> QED
    BY <1>3, <2>1, <2>2, Zenon DEF DialogOK
<1>6. CASE input = "start"
  <2>1. /\ DOMAIN typed = DOMAIN dialog /\ typed.open = dialog.open
        /\ typed.start = value /\ typed.end = dialog.end
        /\ typed.duration = dialog.duration /\ typed.virtual = dialog.virtual
    BY <1>3, <1>6
  <2>2. value \in Moment(born) \cup {Ancient, NotADate}
    BY <1>1, <1>6
  <2> QED
    BY <1>3, <2>1, <2>2, Zenon DEF DialogOK
<1>7. CASE input = "end"
  <2>1. /\ DOMAIN typed = DOMAIN dialog /\ typed.open = dialog.open
        /\ typed.start = dialog.start /\ typed.end = value
        /\ typed.duration = dialog.duration /\ typed.virtual = dialog.virtual
    BY <1>3, <1>7
  <2>2. value \in Moment(born) \cup {Ancient, NotADate}
    BY <1>1, <1>7
  <2> QED
    BY <1>3, <2>1, <2>2, Zenon DEF DialogOK
<1> QED
  BY <1>4, <1>5, <1>6, <1>7

LEMMA OpenDialogIsDialog ==
  ASSUME NEW born \in BOOLEAN, NEW p, PageOK(born, p), p.dialog.open
  PROVE  p.group = "shown" /\ DialogOK(born, p.dialog)
<1>1. ~Closed.open
  BY DEF Closed
<1>2. p.dialog # Closed
  BY <1>1, Zenon
<1> QED
  BY <1>2, Zenon DEF PageOK, GroupOK

LEMMA DialogIsEdited ==
  ASSUME EditingInv, NEW e \in Editors, OpenDialog(e) \/ ChangeInput(e) \/ SaveDialog(e)
  PROVE  EditingInv'
<1>1. PICK p : p = page[e]
  OBVIOUS
<1>2. CASE OpenDialog(e)
  <2> DEFINE r == [p EXCEPT !.dialog = Opening(p.entry)]
  <2>1. p.group = "shown" /\ Edit(e, "dialog", r)
    BY <1>1, <1>2 DEF OpenDialog
  <2>2. ASSUME NEW born \in BOOLEAN, PageOK(born, p)
        PROVE  PageOK(born, r) /\ \A k : Follows(born, k, p) => Follows(born, k, r)
    <3>1. Present(born, p.entry)
      BY <2>1, <2>2 DEF PageOK, GroupOK
    <3>2. DialogOK(born, Opening(p.entry))
      BY <3>1, OpeningIsDialog
    <3> QED
      BY <2>1, <2>2, <3>2, DialogKeeps
  <2> HIDE DEF r
  <2>3. Keeps(p, r)
    BY <2>2 DEF Keeps
  <2> QED
    BY <1>1, <2>1, <2>3, KeptPage DEF Edit
<1>3. CASE ChangeInput(e)
  <2>1. PICK input \in {"start", "end", "duration", "virtual"} :
        \E value \in CASE input = "duration" -> Durations
                       [] input = "virtual" -> BOOLEAN
                       [] OTHER -> Inputs :
          LET typed == [page[e].dialog EXCEPT ![input] = value]
              changed == Changed(typed, input)
          IN Edit(e, "dialog", [page[e] EXCEPT !.dialog =
                       IF changed = {} THEN typed ELSE CHOOSE d \in changed : TRUE])
    BY <1>3 DEF ChangeInput
  <2>2. PICK value \in CASE input = "duration" -> Durations
                         [] input = "virtual" -> BOOLEAN
                         [] OTHER -> Inputs :
          LET typed == [page[e].dialog EXCEPT ![input] = value]
              changed == Changed(typed, input)
          IN Edit(e, "dialog", [page[e] EXCEPT !.dialog =
                       IF changed = {} THEN typed ELSE CHOOSE d \in changed : TRUE])
    BY <2>1
  <2> DEFINE typed == [p.dialog EXCEPT ![input] = value]
             changed == Changed(typed, input)
             dialog == IF changed = {} THEN typed ELSE CHOOSE d \in changed : TRUE
             r == [p EXCEPT !.dialog = dialog]
  <2>3. Edit(e, "dialog", r) /\ p.dialog.open
    BY <1>1, <1>3, <2>2 DEF ChangeInput
  <2>4. ASSUME NEW born \in BOOLEAN, PageOK(born, p)
        PROVE  PageOK(born, r) /\ \A k : Follows(born, k, p) => Follows(born, k, r)
    <3>1. p.group = "shown" /\ DialogOK(born, p.dialog)
      BY <2>3, <2>4, OpenDialogIsDialog
    <3>2. PICK t : t = typed
      OBVIOUS
    <3>3. DialogOK(born, t)
      <4>1. PICK old : old = p.dialog
        OBVIOUS
      <4>2. DialogOK(born, old) /\ t = [old EXCEPT ![input] = value]
        BY <3>1, <3>2, <4>1
      <4> HIDE DEF typed
      <4> QED
        BY <4>2, TypedIsDialog
    <3>4. changed = Changed(t, input)
      BY <3>2
    <3> HIDE DEF typed, changed
    <3>5. \A d \in changed : DialogOK(born, d)
      BY <3>3, <3>4, ChangedIsDialog
    <3>6. DialogOK(born, dialog)
      BY <3>2, <3>3, <3>5
    <3> HIDE DEF dialog
    <3> QED
      BY <2>4, <3>1, <3>6, DialogKeeps
  <2> HIDE DEF r
  <2>5. Keeps(p, r)
    BY <2>4 DEF Keeps
  <2> QED
    BY <1>1, <2>3, <2>5, KeptPage DEF Edit
<1>4. CASE SaveDialog(e)
  <2> DEFINE entry == SavedEntry(p.dialog, p.entry)
             r == DialogSaved(p, entry)
             q == IF entry = p.entry THEN r ELSE OnDeltaChange(r)
  <2>1. /\ p.dialog.open /\ page' = [page EXCEPT ![e] = q]
        /\ UNCHANGED <<kim, disturbed, unsure>>
    BY <1>1, <1>4 DEF SaveDialog, DialogSaved
  <2>2. ASSUME NEW born \in BOOLEAN, PageOK(born, p)
        PROVE  PageOK(born, r) /\ \A k : Follows(born, k, p) => Follows(born, k, r)
    <3>1. PICK s, new : s = r /\ new = entry
      OBVIOUS
    <3>2. s = DialogSaved(p, new) /\ new = SavedEntry(p.dialog, p.entry)
      BY <3>1
    <3> HIDE DEF r, entry
    <3>3. PageOK(born, s) /\ \A k : Follows(born, k, p) => Follows(born, k, s)
      <4>1. ~Closed.open
        BY DEF Closed
      <4>2. p.dialog # Closed
        BY <2>1, <4>1, Zenon
      <4>3. /\ new = SavedEntry(p.dialog, p.entry)
            /\ s = DialogSaved(p, new)
        BY <3>2
      <4> QED
        BY <2>2, <4>2, <4>3, SaveDialogKeeps
    <3> QED
      BY <3>1, <3>3
  <2>3. Keeps(p, r)
    <3> HIDE DEF r
    <3> QED
      BY <2>2 DEF Keeps
  <2>4. Keeps(p, q)
    <3> HIDE DEF r, entry
    <3> QED
      BY <2>3, OnDeltaChangeIsSound
  <2> HIDE DEF q
  <2> QED
    BY <1>1, <2>1, <2>4, KeptPage
<1> QED
  BY <1>2, <1>3, <1>4

LEMMA GroupIsEdited ==
  ASSUME EditingInv, NEW e \in Editors, AddGroup(e) \/ RemoveGroup(e)
  PROVE  EditingInv'
<1>1. PICK p : p = page[e]
  OBVIOUS
<1>2. CASE AddGroup(e)
  <2> DEFINE r == [p EXCEPT !.group = "shown", !.entry.start = DefaultTime,
                            !.entry.end = DefaultTime]
  <2>1. p.group = "none" /\ Edit(e, "dialog", OnDeltaChange(r))
    BY <1>1, <1>2 DEF AddGroup
  <2>2. ASSUME NEW born \in BOOLEAN, PageOK(born, p)
        PROVE  PageOK(born, r) /\ \A k : Follows(born, k, p) => Follows(born, k, r)
    BY <2>1, <2>2, AddGroupKeeps
  <2> HIDE DEF r
  <2>3. Keeps(p, OnDeltaChange(r))
    BY <2>2, OnDeltaChangeIsSound DEF Keeps
  <2> QED
    BY <1>1, <2>1, <2>3, KeptPage DEF Edit
<1>3. CASE RemoveGroup(e)
  <2> DEFINE r == [p EXCEPT !.group = "removed", !.entry.deleted = TRUE]
  <2>1. p.group = "shown" /\ ~p.dialog.open /\ Edit(e, "dialog", OnDeltaChange(r))
    BY <1>1, <1>3 DEF RemoveGroup
  <2>2. ASSUME NEW born \in BOOLEAN, PageOK(born, p)
        PROVE  PageOK(born, r) /\ \A k : Follows(born, k, p) => Follows(born, k, r)
    BY <2>1, <2>2, RemoveGroupKeeps
  <2> HIDE DEF r
  <2>3. Keeps(p, OnDeltaChange(r))
    BY <2>2, OnDeltaChangeIsSound DEF Keeps
  <2> QED
    BY <1>1, <2>1, <2>3, KeptPage DEF Edit
<1> QED
  BY <1>2, <1>3

-----------------------------------------------------------------------------
(***************************************************************************)
(* The steps of requests                                                   *)
(***************************************************************************)

LEMMA ReopenIsSound ==
  ASSUME EditingInv, NEW e \in Editors, Reopen(e)
  PROVE  EditingInv'
<1>1. /\ page' = [page EXCEPT ![e] = Opened(kim)] /\ kim' = kim
      /\ disturbed' = disturbed \ {e} /\ unsure' = unsure \ {e}
  BY DEF Reopen
<1>2. PICK born \in BOOLEAN : PageOK(born, Opened(kim)) /\ Follows(born, kim, Opened(kim))
  BY OpenedIsPage DEF EditingInv
<1>3. \A d \in Editors \ {e} : d \in disturbed \cup unsure => d \in (disturbed \cup unsure)'
  BY <1>1
<1> QED
  BY <1>1, <1>2, <1>3, OnePage

LEMMA FailureIsSound ==
  ASSUME NEW p, p.outcome = "none", ~Idle(p), NEW q, q = [p EXCEPT !.outcome = "error"]
  PROVE  Keeps(p, q)
<1> SUFFICES ASSUME NEW born \in BOOLEAN, PageOK(born, p)
             PROVE  PageOK(born, q) /\ \A k : Follows(born, k, p) => Follows(born, k, q)
  BY DEF Keeps
<1>1. PICK outcome \in {"ok", "error"} : outcome = "error"
  OBVIOUS
<1>2. /\ PageOK(born, q) /\ q.remote = p.remote /\ q.sent = p.sent
      /\ q.entryRemote = p.entryRemote /\ q.outcome = outcome
  BY <1>1, OutcomeKeeps
<1>3. KnownTasks(q) = KnownTasks(p) /\ KnownEntry(q) = KnownEntry(p)
  BY <1>1, <1>2 DEF KnownTasks, KnownEntry
<1> QED
  BY <1>2, <1>3 DEF Follows

\* What the server did for an update, the page knows if it is told so.
LEMMA HandledIsSound ==
  ASSUME EditingInv, NEW e \in Editors, ~Idle(page[e]), page[e].outcome = "none",
         Accepted(kim, page[e].sent), kim' = Moved(kim, page[e].sent),
         page' = [page EXCEPT ![e].outcome = "ok"],
         disturbed' = disturbed \cup (Editors \ {e}), unsure' = unsure
  PROVE  EditingInv'
<1>1. PICK p, q : p = page[e] /\ q = [p EXCEPT !.outcome = "ok"]
  OBVIOUS
<1>2. PICK born \in BOOLEAN :
        PageOK(born, p) /\ (e \notin disturbed \cup unsure => Follows(born, kim, p))
  BY <1>1 DEF EditingInv, Sound
<1>3. KimOK(kim')
  <2>1. TypedFields(p.sent.group)
    <3>1. SentGroupOK(born, p.entry, p.entryRemote, p.sent.group)
      BY <1>2 DEF PageOK, GroupOK
    <3> QED
      BY <3>1, SentIsTyped
  <2> QED
    BY <1>1, <2>1, MovedIsKim DEF EditingInv
<1>4. /\ DOMAIN page' = Editors /\ page'[e] = q
      /\ \A d \in Editors \ {e} : page'[d] = page[d]
  BY <1>1 DEF EditingInv
<1>5. Sound(e)'
  <2>1. PICK outcome \in {"ok", "error"} : outcome = "ok"
    OBVIOUS
  <2>2. /\ PageOK(born, q) /\ q.remote = p.remote /\ q.sent = p.sent
        /\ q.entryRemote = p.entryRemote /\ q.outcome = "ok"
    BY <1>1, <1>2, <2>1, OutcomeKeeps
  <2>3. /\ KnownTasks(q) = Carried(p.remote, p.sent.tasks)
        /\ KnownEntry(q) = Overriding(p.sent.group, p.entryRemote)
    BY <2>2 DEF KnownTasks, KnownEntry
  <2>4. ASSUME e \notin disturbed \cup unsure PROVE Follows(born, kim', q)
    <3>1. /\ Agree(Moved(kim, p.sent).pos, Carried(p.remote, p.sent.tasks))
          /\ RowIs(born, Moved(kim, p.sent).row, Overriding(p.sent.group, p.entryRemote))
      BY <1>1, <1>2, <2>4, PageIsAccepted DEF EditingInv
    <3> QED
      BY <1>1, <2>3, <3>1 DEF Follows
  <2>5. e \notin (disturbed \cup unsure)' => e \notin disturbed \cup unsure
    OBVIOUS
  <2> QED
    BY <1>4, <2>2, <2>4, <2>5 DEF Sound
<1>6. ASSUME NEW d \in Editors \ {e} PROVE Sound(d)'
  <2>1. PICK b \in BOOLEAN : PageOK(b, page[d])
    BY DEF EditingInv, Sound
  <2>2. d \in (disturbed \cup unsure)'
    OBVIOUS
  <2> QED
    BY <1>4, <2>1, <2>2 DEF Sound
<1> QED
  BY <1>3, <1>4, <1>5, <1>6 DEF EditingInv

LEMMA HandleIsSound ==
  ASSUME EditingInv, NEW e \in Editors, Handle(e)
  PROVE  EditingInv'
<1>1. ~Idle(page[e]) /\ page[e].outcome = "none" /\ unsure' = unsure
  BY DEF Handle
<1>2. CASE /\ Accepted(kim, page[e].sent) /\ kim' = Moved(kim, page[e].sent)
           /\ page' = [page EXCEPT ![e].outcome = "ok"]
           /\ disturbed' = disturbed \cup (Editors \ {e})
  BY <1>1, <1>2, HandledIsSound
<1>3. CASE page' = [page EXCEPT ![e].outcome = "error"] /\ UNCHANGED <<kim, disturbed>>
  <2>1. PICK p, q : p = page[e] /\ q = [p EXCEPT !.outcome = "error"]
    OBVIOUS
  <2>2. Keeps(p, q)
    BY <1>1, <2>1, FailureIsSound
  <2>3. page' = [page EXCEPT ![e] = q]
    BY <1>3, <2>1
  <2> QED
    BY <1>1, <1>3, <2>1, <2>2, <2>3, KeptPage
<1> QED
  BY <1>2, <1>3 DEF Handle

LEMMA AnsweredIsSound ==
  ASSUME EditingInv, NEW e \in Editors, Answered(e)
  PROVE  EditingInv'
<1>1. PICK p, c, over, q :
        /\ p = page[e] /\ c = Committed(p) /\ q = NextRound(c)
        /\ over = [c EXCEPT !.sent = NoUpdate, !.outcome = "none", !.again = FALSE]
  OBVIOUS
<1>2. /\ p.outcome = "ok" /\ page' = [page EXCEPT ![e] = q]
      /\ UNCHANGED <<kim, disturbed, unsure>>
  BY <1>1 DEF Answered
<1>3. ASSUME NEW born \in BOOLEAN, PageOK(born, p)
      PROVE  PageOK(born, q) /\ \A k : Follows(born, k, p) => Follows(born, k, q)
  <2>1. PageOK(born, over) /\ \A k : Follows(born, k, p) => Follows(born, k, over)
    <3>1. over = [Committed(p) EXCEPT !.sent = NoUpdate, !.outcome = "none", !.again = FALSE]
      BY <1>1
    <3> QED
      BY <1>2, <1>3, <3>1, CommitKeeps
  <2>2. PageOK(born, q) /\ \A k : Follows(born, k, over) => Follows(born, k, q)
    <3>1. over = [c EXCEPT !.sent = NoUpdate, !.outcome = "none", !.again = FALSE]
      BY <1>1
    <3>2. q = NextRound(c) /\ PageOK(born, over)
      BY <1>1, <2>1
    <3> QED
      BY <3>1, <3>2, RoundKeeps
  <2> QED
    BY <2>1, <2>2
<1>4. Keeps(page[e], q)
  BY <1>1, <1>3 DEF Keeps
<1> QED
  BY <1>2, <1>4, KeptPage

LEMMA NotAnsweredIsSound ==
  ASSUME EditingInv, NEW e \in Editors, NotAnswered(e)
  PROVE  EditingInv'
<1>1. PICK p, over, q :
        /\ p = page[e] /\ q = NextRound(p)
        /\ over = [p EXCEPT !.sent = NoUpdate, !.outcome = "none", !.again = FALSE]
  OBVIOUS
<1>2. /\ page' = [page EXCEPT ![e] = q] /\ kim' = kim /\ disturbed' = disturbed
      /\ unsure' = IF p.outcome = "ok" THEN unsure \cup {e} ELSE unsure
  BY <1>1 DEF NotAnswered
<1>3. PICK born \in BOOLEAN :
        PageOK(born, p) /\ (e \notin disturbed \cup unsure => Follows(born, kim, p))
  BY <1>1 DEF EditingInv, Sound
<1>4. /\ PageOK(born, over)
      /\ p.outcome # "ok" => \A k : Follows(born, k, p) => Follows(born, k, over)
  BY <1>1, <1>3, OverKeeps
<1>5. PageOK(born, q) /\ \A k : Follows(born, k, over) => Follows(born, k, q)
  <2>1. PageOK(born, over) /\ q = NextRound(p)
    BY <1>1, <1>4
  <2>2. over = [p EXCEPT !.sent = NoUpdate, !.outcome = "none", !.again = FALSE]
    BY <1>1
  <2> QED
    BY <2>1, <2>2, RoundKeeps
<1>6. ASSUME e \notin (disturbed \cup unsure)' PROVE Follows(born, kim, q)
  <2>1. p.outcome # "ok" /\ e \notin disturbed \cup unsure
    BY <1>2, <1>6
  <2> QED
    BY <1>3, <1>4, <1>5, <2>1
<1>7. \A d \in Editors \ {e} : d \in disturbed \cup unsure => d \in (disturbed \cup unsure)'
  BY <1>2
<1> QED
  BY <1>2, <1>5, <1>6, <1>7, OnePage

\* Tasks that a page does not know may come and move.
LEMMA OthersMayMove ==
  ASSUME NEW born \in BOOLEAN, NEW k, NEW l, NEW p, PageOK(born, p), Follows(born, k, p),
         \A t \in DOMAIN p.local : l.pos[t] = k.pos[t], l.row = k.row
  PROVE  Follows(born, l, p)
<1>1. PICK known : known = KnownTasks(p)
  OBVIOUS
<1>2. DOMAIN p.remote = DOMAIN p.local
  BY DEF PageOK, TasksOK, SentOK
<1>3. DOMAIN known = DOMAIN p.local
  BY <1>1, <1>2, CarriedValues DEF KnownTasks
<1>4. Agree(k.pos, known) /\ RowIs(born, k.row, KnownEntry(p))
  BY <1>1 DEF Follows
<1>5. Agree(l.pos, known)
  BY <1>3, <1>4 DEF Agree
<1> QED
  BY <1>1, <1>4, <1>5 DEF Follows

LEMMA SelectionIsSound ==
  ASSUME EditingInv, NEW selection, AddSelection(selection)
  PROVE  EditingInv'
<1> DEFINE tasks == [t \in ToSet(selection) |->
                       [curr |-> Gone, swap |-> IndexOf(selection, t) - 1]]
<1>1. PICK update : update = [NoUpdate EXCEPT !.tasks = tasks]
  OBVIOUS
<1>2. /\ Accepted(kim, update) /\ kim' = Moved(kim, update)
      /\ disturbed' = disturbed \cup
           {e \in Editors : ToSet(selection) \cap DOMAIN page[e].local # {}}
      /\ page' = page /\ unsure' = unsure
  BY <1>1 DEF AddSelection
<1>3. update.tasks = tasks /\ update.group = NoFields /\ DOMAIN tasks = ToSet(selection)
  BY <1>1 DEF NoUpdate
<1> HIDE DEF tasks
<1>4. KimOK(kim')
  <2>1. TypedFields(update.group)
    BY <1>3 DEF TypedFields, NoFields
  <2> QED
    BY <1>2, <2>1, MovedIsKim DEF EditingInv
<1>5. kim'.row = kim.row
  BY <1>2, <1>3, MovedFields DEF Merged
<1>6. \A t \in Tasks \ ToSet(selection) : kim'.pos[t] = kim.pos[t]
  <2>1. \A t \in Tasks : kim'.pos[t] = After(kim, tasks, t)
    BY <1>2, <1>3, MovedFields
  <2> QED
    BY <1>3, <2>1 DEF After
<1>7. ASSUME NEW e \in Editors PROVE Sound(e)'
  <2>1. PICK born \in BOOLEAN :
          PageOK(born, page[e]) /\ (e \notin disturbed \cup unsure => Follows(born, kim, page[e]))
    BY DEF EditingInv, Sound
  <2>2. ASSUME e \notin (disturbed \cup unsure)' PROVE Follows(born, kim', page[e])
    <3>1. e \notin disturbed \cup unsure /\ ToSet(selection) \cap DOMAIN page[e].local = {}
      BY <1>2, <2>2
    <3>2. DOMAIN page[e].local \subseteq Tasks
      BY <2>1 DEF PageOK, TasksOK, LocalOK
    <3>3. \A t \in DOMAIN page[e].local : kim'.pos[t] = kim.pos[t]
      BY <1>6, <3>1, <3>2
    <3>4. Follows(born, kim, page[e])
      BY <2>1, <3>1
    <3> QED
      BY <1>5, <2>1, <3>3, <3>4, OthersMayMove
  <2> QED
    BY <1>2, <2>1, <2>2 DEF Sound
<1> QED
  BY <1>2, <1>4, <1>7 DEF EditingInv

LEMMA EditingIsKept ==
  ASSUME EditingInv, [DeskNext]_deskVars
  PROVE  EditingInv'
<1>1. CASE EditorNext
  <2>1. PICK e \in Editors :
          \/ \E t \in ToSet(page[e].list.comps) :
               MoveUp(e, t) \/ MoveDown(e, t) \/ RemoveTask(e, t)
          \/ OpenDialog(e) \/ ChangeInput(e) \/ SaveDialog(e) \/ AddGroup(e) \/ RemoveGroup(e)
          \/ Reopen(e) \/ Handle(e) \/ Answered(e) \/ NotAnswered(e)
    BY <1>1 DEF EditorNext
  <2> QED
    BY <2>1, RowsAreEdited, DialogIsEdited, GroupIsEdited, ReopenIsSound, HandleIsSound,
       AnsweredIsSound, NotAnsweredIsSound
<1>2. CASE AtTheList
  <2>1. CASE UNCHANGED <<kim, page, disturbed, unsure>>
    BY <2>1 DEF EditingInv, Sound
  <2>2. CASE AddToKim
    BY <2>2, SelectionIsSound DEF AddToKim
  <2> QED
    BY <1>2, <2>1, <2>2 DEF AtTheList, vars
<1>3. CASE UNCHANGED deskVars
  BY <1>3 DEF EditingInv, Sound, deskVars, vars
<1> QED
  BY <1>1, <1>2, <1>3 DEF DeskNext

\* Every reachable kim is one its database accepts, and every page that nobody
\* disturbed knows the order of its tasks and the times of the group.
THEOREM PagesStaySound == DeskSpec => []EditingInv
<1>1. DeskInit => EditingInv
  BY InitIsSound DEF DeskInit
<1>2. EditingInv /\ [DeskNext]_deskVars => EditingInv'
  BY EditingIsKept
<1> QED
  BY <1>1, <1>2, PTL DEF DeskSpec

\* What a page sends is refused only if another administrator's update came first,
\* or an update of its own was saved and the answer lost.
THEOREM SavesStayAccepted == DeskSpec => []SaveAccepted
<1>1. EditingInv => SaveAccepted
  <2> SUFFICES ASSUME EditingInv, NEW e \in Editors \ (disturbed \cup unsure),
                      page[e].outcome = "none"
               PROVE  Accepted(kim, page[e].sent)
    BY DEF SaveAccepted
  <2>1. PICK born \in BOOLEAN : PageOK(born, page[e]) /\ Follows(born, kim, page[e])
    BY DEF EditingInv, Sound
  <2> QED
    BY <2>1, PageIsAccepted DEF EditingInv
<1> QED
  BY <1>1, PagesStaySound, PTL

LEMMA SavedPage ==
  ASSUME NEW born \in BOOLEAN, NEW p, PageOK(born, p), AllSaved(p)
  PROVE  /\ KnownTasks(p) = p.remote /\ KnownEntry(p) = p.entryRemote
         /\ \A t \in DOMAIN p.local : p.local[t] = p.remote[t]
         /\ p.entry = p.entryRemote
<1>1. Idle(p) /\ Serialized(p) = NoUpdate
  BY DEF AllSaved
<1>2. p.outcome = "none"
  BY <1>1, Zenon DEF PageOK
<1>3. KnownTasks(p) = p.remote /\ KnownEntry(p) = p.entryRemote
  BY <1>2 DEF KnownTasks, KnownEntry
<1>4. ASSUME NEW t \in DOMAIN p.local PROVE p.local[t] = p.remote[t]
  <2>1. Serialized(p).tasks = NoTasks
    BY <1>1, NoUpdateFields
  <2>2. DOMAIN Serialized(p).tasks = {s \in DOMAIN p.local : p.local[s] # p.remote[s]}
    BY DEF Serialized
  <2> QED
    BY <2>1, <2>2 DEF NoTasks
<1>5. \A f \in Fields : p.entry[f] = p.entryRemote[f]
  <2>1. Serialized(p).group = NoFields
    BY <1>1, NoUpdateFields
  <2>2. DOMAIN Serialized(p).group = {f \in Fields : p.entry[f] # p.entryRemote[f]}
    BY DEF Serialized, Restrict
  <2> QED
    BY <2>1, <2>2 DEF NoFields
<1>6. p.entry = p.entryRemote
  <2>1. Typed(p.entry) /\ Typed(p.entryRemote)
    <3>1. SentGroupOK(born, p.entry, p.entryRemote, p.sent.group)
      BY DEF PageOK, GroupOK
    <3> QED
      BY <3>1, SentIsTyped, StagesAreTyped DEF SentGroupOK
  <2> QED
    BY <1>5, <2>1 DEF Typed, TypedFields
<1> QED
  BY <1>3, <1>4, <1>6

\* When all changes of a page are saved, the tasks of the kim are in the order in
\* which the page shows them, and the group has the times that it shows, unless
\* another administrator changed what the page shows or an answer was lost.
THEOREM SavedStaysShown == DeskSpec => []SavedIsShown
<1>1. EditingInv => SavedIsShown
  <2> SUFFICES ASSUME EditingInv, NEW e \in Editors \ (disturbed \cup unsure), AllSaved(page[e])
               PROVE  LET rows == page[e].list.rows
                      IN /\ ToSet(rows) = Members(kim) \cap DOMAIN page[e].local
                         /\ \A i, j \in DOMAIN rows :
                              i < j => kim.pos[rows[i]] < kim.pos[rows[j]]
                         /\ kim.row.given = (page[e].group = "shown")
                         /\ kim.row.given => \A f \in Fields : kim.row[f] = page[e].entry[f]
    BY DEF SavedIsShown
  <2>1. PICK p, rows, local, pos, row :
          /\ p = page[e] /\ rows = p.list.comps /\ local = p.local /\ pos = kim.pos
          /\ row = kim.row
    OBVIOUS
  <2>2. PICK born \in BOOLEAN : PageOK(born, p) /\ Follows(born, kim, p)
    BY <2>1 DEF EditingInv, Sound
  <2>3. /\ Agree(pos, p.remote) /\ RowIs(born, row, p.entry)
        /\ \A t \in DOMAIN local : local[t] = p.remote[t]
    BY <2>1, <2>2, SavedPage DEF Follows
  <2>4. p.list.rows = rows /\ LocalOK(rows, local) /\ DOMAIN p.remote = DOMAIN local
    BY <2>1, <2>2 DEF PageOK, TasksOK, ListOK, SentOK
  <2>5. Agree(pos, local)
    BY <2>3, <2>4 DEF Agree
  <2>6. ToSet(rows) = Members(kim) \cap DOMAIN local
    <3>1. DOMAIN local \subseteq Tasks /\ ToSet(rows) \subseteq Tasks
      <4>1. rows \in Seq(Tasks)
        BY <2>1, <2>2 DEF PageOK, TasksOK, ListOK
      <4>2. ToSet(rows) \subseteq Tasks
        BY <4>1, LenProperties, ElementOfSeq DEF ToSet
      <4> QED
        BY <2>4, <4>2 DEF LocalOK
    <3>2. \A t \in Tasks : t \in ToSet(rows) <=> t \in DOMAIN local /\ pos[t] # Gone
      BY <2>4, <2>5 DEF LocalOK, Agree
    <3> QED
      BY <2>1, <3>1, <3>2 DEF Members
  <2>7. ASSUME NEW i \in DOMAIN rows, NEW j \in DOMAIN rows, i < j
        PROVE  pos[rows[i]] < pos[rows[j]]
    <3>1. local[rows[i]] < local[rows[j]]
      BY <2>4, <2>7 DEF LocalOK
    <3>2. /\ rows[i] \in ToSet(rows) /\ rows[j] \in ToSet(rows)
      BY DEF ToSet
    <3>3. /\ rows[i] \in DOMAIN local /\ local[rows[i]] # Gone
          /\ rows[j] \in DOMAIN local /\ local[rows[j]] # Gone
      <4>1. rows \in Seq(Tasks)
        BY <2>1, <2>2 DEF PageOK, TasksOK, ListOK
      <4>2. rows[i] \in Tasks /\ rows[j] \in Tasks
        BY <4>1, LenProperties, ElementOfSeq
      <4> QED
        BY <2>4, <3>2, <4>2 DEF LocalOK
    <3> QED
      BY <2>5, <3>1, <3>3 DEF Agree
  <2>8. row.given <=> p.group = "shown"
    <3>1. /\ p.group \in {"none", "shown", "removed"}
          /\ p.group = "none" => Absent(born, p.entry)
          /\ p.group = "shown" => Present(born, p.entry)
          /\ p.group = "removed" => Removed(p.entry)
      BY <2>2 DEF PageOK, GroupOK
    <3>2. Present(born, p.entry) <=> p.group = "shown"
      BY <3>1, StagesDiffer
    <3> QED
      BY <2>3, <3>2 DEF RowIs
  <2>9. row.given \in BOOLEAN
    BY <2>1, Zenon DEF EditingInv, KimOK, RowOK
  <2>10. kim.row.given = (page[e].group = "shown")
    BY <2>1, <2>8, <2>9, Zenon
  <2>11. kim.row.given => \A f \in Fields : kim.row[f] = page[e].entry[f]
    BY <2>1, <2>3 DEF RowIs
  <2> QED
    BY <2>1, <2>4, <2>6, <2>7, <2>10, <2>11
<1> QED
  BY <1>1, PagesStaySound, PTL

-----------------------------------------------------------------------------
(***************************************************************************)
(* The list of tasks                                                       *)
(***************************************************************************)

TableFields == {"epoch", "filter", "of", "body", "list", "ticked", "elements", "selection",
                "removable", "addable", "bulk"}

\* u shows the rows of the same filter, and awaits the same answer, as t.
SameAnswer(t, u) ==
  /\ DOMAIN t = TableFields /\ DOMAIN u = TableFields
  /\ u.epoch = t.epoch /\ u.filter = t.filter /\ u.of = t.of /\ u.body = t.body

RequestOK(r) ==
  /\ DOMAIN r = {"epoch", "filter", "outcome", "tasks"} /\ r.epoch \in Nat \ {0}
  /\ r.outcome \in {"none", "ok", "error"}

\* While a list is awaited no rows are shown; and unless an epoch was given twice,
\* the request that has the epoch is the one for the filter chosen last.
TableInv ==
  /\ DOMAIN table = TableFields /\ table.epoch \in Nat
  /\ table.epoch # 0 => table.body = "loading"
  /\ \A r \in requests : RequestOK(r)
  /\ ~recycled =>
       /\ table.body = "rows" => table.of = table.filter
       /\ \A r \in requests : r.epoch = table.epoch => r.filter = table.filter

LEMMA UpdateKeepsAnswer ==
  ASSUME NEW t, DOMAIN t = TableFields, NEW reflected
  PROVE  SameAnswer(t, TaskList!SendSelectionUpdate(t, reflected))
<1>1. PICK told : told = TaskList!Listeners(t, reflected)
  OBVIOUS
<1>2. SameAnswer(t, told)
  BY <1>1 DEF TaskList!Listeners, SameAnswer, TableFields
<1>3. PICK bulk : bulk = TaskList!BulkBox(told)
  OBVIOUS
<1>4. TaskList!SendSelectionUpdate(t, reflected) = [told EXCEPT !.bulk = bulk]
  BY <1>1, <1>3 DEF TaskList!SendSelectionUpdate
<1> QED
  BY <1>2, <1>4 DEF SameAnswer, TableFields

LEMMA SameAnswerIsTransitive ==
  ASSUME NEW t, NEW u, NEW v, SameAnswer(t, u), SameAnswer(u, v)
  PROVE  SameAnswer(t, v)
BY DEF SameAnswer

\* Nothing that is done to the selection or the elements changes them.
LEMMA SelectionKeepsAnswer ==
  ASSUME NEW t, DOMAIN t = TableFields, NEW x, NEW state, NEW reflected, NEW elements
  PROVE  /\ SameAnswer(t, TaskList!NotifySingle(t, x, state))
         /\ SameAnswer(t, TaskList!ClearSelection(t, reflected))
         /\ SameAnswer(t, TaskList!SelectAll(t))
         /\ SameAnswer(t, TaskList!SetElements(t, elements))
         /\ SameAnswer(t, TaskList!PopElement(t, x))
         /\ SameAnswer(t, TaskList!DeletedSelection(t))
<1>1. ASSUME NEW u, SameAnswer(t, u), NEW r
      PROVE  SameAnswer(t, TaskList!SendSelectionUpdate(u, r))
  <2>1. SameAnswer(u, TaskList!SendSelectionUpdate(u, r))
    BY <1>1, UpdateKeepsAnswer DEF SameAnswer
  <2> QED
    BY <1>1, <2>1, SameAnswerIsTransitive
<1>2. ASSUME NEW s PROVE SameAnswer(t, [t EXCEPT !.selection = s])
  BY DEF SameAnswer, TableFields
<1>3. ASSUME NEW s PROVE SameAnswer(t, [t EXCEPT !.elements = s])
  BY DEF SameAnswer, TableFields
<1>4. ASSUME NEW s, NEW r PROVE SameAnswer(t, [t EXCEPT !.elements = s, !.selection = r])
  BY DEF SameAnswer, TableFields
<1>5. SameAnswer(t, TaskList!NotifySingle(t, x, state))
  BY <1>1, <1>2 DEF TaskList!NotifySingle
<1>6. SameAnswer(t, TaskList!ClearSelection(t, reflected))
  BY <1>1, <1>2 DEF TaskList!ClearSelection
<1>7. SameAnswer(t, TaskList!SelectAll(t))
  BY <1>1, <1>2 DEF TaskList!SelectAll
<1>8. SameAnswer(t, TaskList!SetElements(t, elements))
  BY <1>1, <1>3 DEF TaskList!SetElements
<1>9. SameAnswer(t, TaskList!PopElement(t, x))
  BY <1>1, <1>4 DEF TaskList!PopElement
<1>10. SameAnswer(t, TaskList!DeletedSelection(t))
  <2>1. PICK left : TaskList!DeletedSelection(t) =
                      TaskList!ClearSelection([t EXCEPT !.elements = left], FALSE)
    BY DEF TaskList!DeletedSelection
  <2>2. PICK u : u = [t EXCEPT !.elements = left]
    OBVIOUS
  <2>3. SameAnswer(t, u)
    BY <1>3, <2>2
  <2>4. SameAnswer(u, [u EXCEPT !.selection = <<>>])
    BY <2>3 DEF SameAnswer, TableFields
  <2>5. SameAnswer(t, [u EXCEPT !.selection = <<>>])
    BY <2>3, <2>4, SameAnswerIsTransitive
  <2>6. SameAnswer(t, TaskList!ClearSelection(u, FALSE))
    BY <1>1, <2>5 DEF TaskList!ClearSelection
  <2>7. TaskList!DeletedSelection(t) = TaskList!ClearSelection(u, FALSE)
    BY <2>1, <2>2
  <2> QED
    BY <2>6, <2>7
<1> QED
  BY <1>5, <1>6, <1>7, <1>8, <1>9, <1>10

\* A filter is chosen: its rows are awaited under the next epoch.
LEMMA AskedAwaits ==
  ASSUME NEW t, DOMAIN t = TableFields, t.epoch \in Nat, t.epoch # 0 => t.body = "loading",
         NEW f, NEW u, u = TaskList!Asked(t, f)
  PROVE  /\ DOMAIN u = TableFields /\ u.epoch = t.epoch + 1 /\ u.filter = f
         /\ u.body = "loading"
<1> DEFINE emptied == TaskList!SetElements(TaskList!ClearSelection(t, TRUE), <<>>)
           cleared == IF t.epoch # 0 THEN t
                      ELSE [emptied EXCEPT !.body = "loading", !.list = TaskList!Nowhere,
                                           !.ticked = {}]
<1>1. u = [cleared EXCEPT !.epoch = @ + 1, !.filter = f]
  BY DEF TaskList!Asked
<1>2. SameAnswer(t, emptied)
  <2>1. PICK s : s = TaskList!ClearSelection(t, TRUE)
    OBVIOUS
  <2>2. SameAnswer(t, s)
    BY <2>1, SelectionKeepsAnswer
  <2>3. SameAnswer(s, TaskList!SetElements(s, <<>>))
    <3>1. DOMAIN s = TableFields
      BY <2>2 DEF SameAnswer
    <3> QED
      BY <3>1, SelectionKeepsAnswer
  <2> QED
    BY <2>1, <2>2, <2>3, SameAnswerIsTransitive
<1> HIDE DEF emptied
<1>3. DOMAIN cleared = TableFields /\ cleared.epoch = t.epoch /\ cleared.body = "loading"
  <2>1. DOMAIN emptied = TableFields /\ emptied.epoch = t.epoch
    BY <1>2 DEF SameAnswer
  <2> QED
    BY <2>1 DEF TableFields
<1> HIDE DEF cleared
<1> QED
  BY <1>1, <1>3 DEF TableFields

LEMMA ConstructedTable ==
  /\ DOMAIN TaskList!Constructed = TableFields /\ TaskList!Constructed.epoch = 1
  /\ TaskList!Constructed.body = "loading"
BY DEF TaskList!Constructed, TableFields

LEMMA FirstAsked ==
  ASSUME NEW u, u = TaskList!Asked(TaskList!Constructed, "1")
  PROVE  /\ DOMAIN u = TableFields /\ u.epoch = 2 /\ u.filter = "1" /\ u.body = "loading"
<1>1. PICK t : t = TaskList!Constructed
  OBVIOUS
<1>2. DOMAIN t = TableFields /\ t.epoch = 1 /\ t.body = "loading"
  BY <1>1, ConstructedTable
<1> QED
  BY <1>1, <1>2, AskedAwaits

\* An answer that counts is shown.
LEMMA ReceivedShows ==
  ASSUME NEW t, DOMAIN t = TableFields, NEW filter, NEW tasks,
         NEW u, u = TaskList!Received(t, filter, tasks)
  PROVE  /\ DOMAIN u = TableFields /\ u.epoch = 0 /\ u.filter = t.filter /\ u.of = filter
         /\ u.body = "rows"
<1>1. PICK s : s = [t EXCEPT !.epoch = 0]
  OBVIOUS
<1>2. DOMAIN s = TableFields /\ s.epoch = 0 /\ s.filter = t.filter
  BY <1>1 DEF TableFields
<1>3. PICK v : v = TaskList!SetElements(s, tasks)
  OBVIOUS
<1>4. DOMAIN v = TableFields /\ v.epoch = 0 /\ v.filter = t.filter
  <2>1. SameAnswer(s, v)
    BY <1>2, <1>3, SelectionKeepsAnswer
  <2> QED
    BY <1>2, <2>1 DEF SameAnswer
<1>5. PICK list, ticked :
        /\ list = TaskList!FreshList(tasks)
        /\ ticked = TaskList!ToSet(t.selection) \cap TaskList!ToSet(tasks)
  OBVIOUS
<1>6. u = [v EXCEPT !.list = list, !.body = "rows", !.of = filter, !.ticked = ticked]
  BY <1>1, <1>3, <1>5 DEF TaskList!Received
<1> QED
  BY <1>4, <1>6 DEF TableFields

LEMMA InitTable ==
  ASSUME TaskList!SelectInit
  PROVE  TableInv
<1>1. PICK t, tasks : /\ t = TaskList!Asked(TaskList!Constructed, "1")
                      /\ tasks = TaskList!SetToSeq(Matches["1"])
  OBVIOUS
<1>2. DOMAIN t = TableFields /\ t.filter = "1"
  BY <1>1, FirstAsked
<1>3. table = TaskList!Received(t, "1", tasks) /\ requests = {}
  BY <1>1 DEF TaskList!SelectInit
<1>4. /\ DOMAIN table = TableFields /\ table.epoch = 0 /\ table.filter = "1"
      /\ table.of = "1" /\ table.body = "rows"
  BY <1>2, <1>3, ReceivedShows
<1> QED
  BY <1>3, <1>4 DEF TableInv

\* Steps that neither ask nor show.
LEMMA SameAnswerKeepsTable ==
  ASSUME TableInv, SameAnswer(table, table'), UNCHANGED <<requests, recycled>>
  PROVE  TableInv'
BY DEF TableInv, SameAnswer

LEMMA SetFilterKeepsTable ==
  ASSUME TableInv, NEW f, TaskList!SetFilter(f)
  PROVE  TableInv'
<1>1. PICK u, request : u = TaskList!Asked(table, f) /\ request = TaskList!RequestOf(u)
  OBVIOUS
<1>2. /\ table' = u /\ requests' = requests \cup {request}
      /\ recycled' = (recycled \/ \E r \in requests : r.epoch = u.epoch)
  BY <1>1 DEF TaskList!SetFilter
<1>3. /\ DOMAIN u = TableFields /\ u.epoch = table.epoch + 1 /\ u.filter = f
      /\ u.body = "loading"
  BY <1>1, AskedAwaits DEF TableInv
<1>4. u.epoch \in Nat \ {0}
  BY <1>3 DEF TableInv
<1>5. RequestOK(request) /\ request.epoch = u.epoch /\ request.filter = u.filter
  BY <1>1, <1>4 DEF TaskList!RequestOf, RequestOK
<1>6. \A r \in requests' : RequestOK(r)
  BY <1>2, <1>5 DEF TableInv
<1>7. ~recycled' => \A r \in requests' : r.epoch = u.epoch => r.filter = u.filter
  BY <1>2, <1>5
<1> QED
  BY <1>2, <1>3, <1>4, <1>6, <1>7 DEF TableInv

LEMMA ServeKeepsTable ==
  ASSUME TableInv, NEW r \in requests, TaskList!Serve(r)
  PROVE  TableInv'
<1>1. RequestOK(r)
  BY DEF TableInv
<1>2. PICK s : /\ requests' = (requests \ {r}) \cup {s}
               /\ RequestOK(s) /\ s.epoch = r.epoch /\ s.filter = r.filter
  <2>1. PICK tasks : tasks = TaskList!SetToSeq(Matches[r.filter] \cap live)
    OBVIOUS
  <2>2. \E s \in {[r EXCEPT !.outcome = "ok", !.tasks = tasks], [r EXCEPT !.outcome = "error"]} :
          requests' = (requests \ {r}) \cup {s}
    BY <2>1 DEF TaskList!Serve
  <2>3. \A s \in {[r EXCEPT !.outcome = "ok", !.tasks = tasks], [r EXCEPT !.outcome = "error"]} :
          RequestOK(s) /\ s.epoch = r.epoch /\ s.filter = r.filter
    BY <1>1 DEF RequestOK
  <2> QED
    BY <2>2, <2>3
<1>3. table' = table /\ recycled' = recycled
  BY DEF TaskList!Serve
<1> QED
  BY <1>2, <1>3 DEF TableInv

LEMMA ReceiveKeepsTable ==
  ASSUME TableInv, NEW r \in requests, TaskList!Receive(r)
  PROVE  TableInv'
<1>1. requests' = requests \ {r} /\ recycled' = recycled
  BY DEF TaskList!Receive
<1>2. RequestOK(r) /\ \A s \in requests' : RequestOK(s)
  BY <1>1 DEF TableInv
<1>3. r.outcome # "none"
  BY DEF TaskList!Receive
<1>4. table' = CASE ~TaskList!Current(r) -> table
                 [] TaskList!Current(r) /\ r.outcome = "error" ->
                      [table EXCEPT !.epoch = 0, !.body = "error"]
                 [] TaskList!Current(r) /\ r.outcome = "ok" ->
                      TaskList!Received(table, r.filter, r.tasks)
  BY DEF TaskList!Receive
<1>5. CASE ~TaskList!Current(r)
  <2>1. table' = table
    BY <1>4, <1>5
  <2> QED
    BY <1>1, <1>2, <2>1 DEF TableInv
<1>6. CASE TaskList!Current(r) /\ r.outcome = "error"
  <2>1. table' = [table EXCEPT !.epoch = 0, !.body = "error"]
    BY <1>4, <1>6
  <2>2. /\ DOMAIN table' = TableFields /\ table'.epoch = 0 /\ table'.body = "error"
    BY <2>1 DEF TableInv, TableFields
  <2> QED
    BY <1>1, <1>2, <2>2 DEF TableInv, RequestOK
<1>7. CASE TaskList!Current(r) /\ r.outcome = "ok"
  <2>1. table' = TaskList!Received(table, r.filter, r.tasks)
    BY <1>4, <1>7
  <2>2. /\ DOMAIN table' = TableFields /\ table'.epoch = 0 /\ table'.filter = table.filter
        /\ table'.of = r.filter /\ table'.body = "rows"
    <3>1. PICK t, u, filter, tasks :
            t = table /\ u = table' /\ filter = r.filter /\ tasks = r.tasks
      OBVIOUS
    <3>2. DOMAIN t = TableFields /\ u = TaskList!Received(t, filter, tasks)
      BY <2>1, <3>1 DEF TableInv
    <3> QED
      BY <3>1, <3>2, ReceivedShows
  <2>3. r.epoch = table.epoch
    BY <1>7 DEF TaskList!Current
  <2>4. ~recycled' => table'.of = table'.filter
    BY <1>1, <2>2, <2>3 DEF TableInv
  <2>5. \A s \in requests' : s.epoch # table'.epoch
    BY <1>2, <2>2 DEF RequestOK
  <2> QED
    BY <1>2, <2>2, <2>4, <2>5 DEF TableInv
<1>8. TaskList!Current(r) \/ ~TaskList!Current(r)
  OBVIOUS
<1>9. r.outcome = "ok" \/ r.outcome = "error"
  BY <1>2, <1>3 DEF RequestOK
<1> QED
  BY <1>5, <1>6, <1>7, <1>8, <1>9

\* The boxes and the buttons of the rows, and those of the head.
LEMMA RowsKeepTable ==
  ASSUME TableInv,
         \/ \E x \in Tasks : TaskList!Tick(x) \/ TaskList!DeleteRow(x)
         \/ TaskList!TickAll \/ TaskList!DeleteSelected
  PROVE  TableInv'
<1>1. DOMAIN table = TableFields
  BY DEF TableInv
<1>2. PICK t : t = table
  OBVIOUS
<1>3. ASSUME NEW x \in Tasks, TaskList!Tick(x)
      PROVE  SameAnswer(table, table') /\ UNCHANGED <<requests, recycled>>
  <2>1. PICK state, ticked :
          /\ state = (x \notin table.ticked)
          /\ ticked = IF state THEN table.ticked \cup {x} ELSE table.ticked \ {x}
    OBVIOUS
  <2>2. PICK s : s = [t EXCEPT !.ticked = ticked]
    OBVIOUS
  <2>3. SameAnswer(t, s)
    BY <1>1, <1>2, <2>2 DEF SameAnswer, TableFields
  <2>4. SameAnswer(s, TaskList!NotifySingle(s, x, state))
    BY <2>3, SelectionKeepsAnswer DEF SameAnswer
  <2>5. table' = TaskList!NotifySingle(s, x, state)
    BY <1>2, <1>3, <2>1, <2>2 DEF TaskList!Tick
  <2>6. UNCHANGED <<requests, recycled>>
    BY <1>3 DEF TaskList!Tick
  <2> QED
    BY <1>2, <2>3, <2>4, <2>5, <2>6, SameAnswerIsTransitive
<1>4. ASSUME NEW x \in Tasks, TaskList!DeleteRow(x)
      PROVE  SameAnswer(table, table') /\ UNCHANGED <<requests, recycled>>
  <2>1. PICK list, ticked : /\ list = TaskList!PopComponent(t.list, t.list.place[x].i)
                            /\ ticked = t.ticked \ {x}
    OBVIOUS
  <2>2. PICK s : s = [t EXCEPT !.list = list, !.ticked = ticked]
    OBVIOUS
  <2>3. SameAnswer(t, s)
    BY <1>1, <1>2, <2>2 DEF SameAnswer, TableFields
  <2>4. SameAnswer(s, TaskList!PopElement(s, x))
    BY <2>3, SelectionKeepsAnswer DEF SameAnswer
  <2>5. table' = TaskList!PopElement(s, x)
    <3>1. s = [table EXCEPT !.list = TaskList!PopComponent(@, table.list.place[x].i),
                            !.ticked = @ \ {x}]
      BY <1>1, <1>2, <2>1, <2>2 DEF TableFields
    <3> QED
      BY <1>4, <3>1 DEF TaskList!DeleteRow
  <2>6. UNCHANGED <<requests, recycled>>
    BY <1>4 DEF TaskList!DeleteRow
  <2> QED
    BY <1>2, <2>3, <2>4, <2>5, <2>6, SameAnswerIsTransitive
<1>5. ASSUME TaskList!TickAll
      PROVE  SameAnswer(table, table') /\ UNCHANGED <<requests, recycled>>
  <2>1. /\ table' = IF table.bulk.checked THEN TaskList!ClearSelection(table, FALSE)
                    ELSE TaskList!SelectAll(table)
        /\ UNCHANGED <<requests, recycled>>
    BY <1>5 DEF TaskList!TickAll
  <2>2. /\ SameAnswer(t, TaskList!ClearSelection(t, FALSE))
        /\ SameAnswer(t, TaskList!SelectAll(t))
    BY <1>1, <1>2, SelectionKeepsAnswer
  <2> QED
    BY <1>2, <2>1, <2>2
<1>6. ASSUME TaskList!DeleteSelected
      PROVE  SameAnswer(table, table') /\ UNCHANGED <<requests, recycled>>
  <2>1. table' = TaskList!DeletedSelection(table) /\ UNCHANGED <<requests, recycled>>
    BY <1>6 DEF TaskList!DeleteSelected
  <2>2. SameAnswer(t, TaskList!DeletedSelection(t))
    BY <1>1, <1>2, SelectionKeepsAnswer
  <2> QED
    BY <1>2, <2>1, <2>2
<1> QED
  BY <1>3, <1>4, <1>5, <1>6, SameAnswerKeepsTable

LEMMA AddToKimKeepsTable ==
  ASSUME AddToKim
  PROVE  TableInv'
<1>1. PICK u, request : /\ u = TaskList!Asked(TaskList!Constructed, "1")
                        /\ request = TaskList!RequestOf(u)
  OBVIOUS
<1>2. table' = u /\ requests' = {request}
  BY <1>1 DEF AddToKim
<1>3. DOMAIN u = TableFields /\ u.epoch = 2 /\ u.filter = "1" /\ u.body = "loading"
  BY <1>1, FirstAsked
<1>4. RequestOK(request) /\ request.filter = u.filter
  BY <1>1, <1>3 DEF TaskList!RequestOf, RequestOK
<1> QED
  BY <1>2, <1>3, <1>4 DEF TableInv

LEMMA TableIsKept ==
  ASSUME TableInv, [DeskNext]_deskVars
  PROVE  TableInv'
<1>1. CASE UNCHANGED listVars
  BY <1>1 DEF TableInv, listVars
<1>2. CASE TaskList!UserStep
  BY <1>2, SetFilterKeepsTable, RowsKeepTable DEF TaskList!UserStep
<1>3. CASE TaskList!ServerStep
  <2>1. ASSUME NEW set, TaskList!BulkDelete(set) PROVE TableInv'
    BY <2>1 DEF TaskList!BulkDelete, TableInv
  <2> QED
    BY <1>3, <2>1, ServeKeepsTable, ReceiveKeepsTable DEF TaskList!ServerStep
<1>4. CASE AddToKim
  BY <1>4, AddToKimKeepsTable
<1> QED
  BY <1>1, <1>2, <1>3, <1>4 DEF DeskNext, AtTheList, deskVars

\* Rows that are shown are those of the filter chosen last, whatever is under way,
\* unless an epoch was given to two requests at a time.
THEOREM ShownStaysLastFilter == DeskSpec => []ShownIsLastFilter
<1>1. DeskInit => TableInv
  BY InitTable DEF DeskInit
<1>2. TableInv /\ [DeskNext]_deskVars => TableInv'
  BY TableIsKept
<1>3. TableInv => ShownIsLastFilter
  BY DEF TableInv, ShownIsLastFilter, TaskList!ShownIsLastFilter
<1> QED
  BY <1>1, <1>2, <1>3, PTL DEF DeskSpec

-----------------------------------------------------------------------------
(***************************************************************************)
(* What is selected in the list of tasks                                   *)
(***************************************************************************)

\* The list of tasks is an instance of its own; its lists are those of the page.
LEMMA SameLists ==
  ASSUME NEW s, NEW x, NEW i, NEW list
  PROVE  /\ TaskList!ToSet(s) = ToSet(s)
         /\ TaskList!Contains(s, x) = Contains(s, x)
         /\ TaskList!IndexOf(s, x) = IndexOf(s, x)
         /\ TaskList!RemoveAt(s, i) = RemoveAt(s, i)
         /\ TaskList!FreshList(s) = FreshList(s)
         /\ TaskList!PopComponent(list, i) = PopComponent(list, i)
<1>1. TaskList!ToSet(s) = ToSet(s)
  BY DEF TaskList!ToSet, ToSet
<1>2. TaskList!Contains(s, x) = Contains(s, x)
  BY DEF TaskList!Contains, Contains
<1>3. TaskList!IndexOf(s, x) = IndexOf(s, x)
  BY DEF TaskList!IndexOf, IndexOf
<1>4. TaskList!RemoveAt(s, i) = RemoveAt(s, i)
  BY DEF TaskList!RemoveAt, RemoveAt
<1>5. TaskList!FreshList(s) = FreshList(s)
  BY DEF TaskList!FreshList, FreshList, TaskList!PositionOf, PositionOf, TaskList!IndexOf, IndexOf, TaskList!ToSet, ToSet
<1>6. TaskList!PopComponent(list, i) = PopComponent(list, i)
  BY DEF TaskList!PopComponent, PopComponent, TaskList!Told, Told, TaskList!RemoveAt, RemoveAt,
    TaskList!PositionOf, PositionOf, TaskList!IndexOf, IndexOf, TaskList!ToSet, ToSet
<1> QED
  BY <1>1, <1>2, <1>3, <1>4, <1>5, <1>6

LEMMA ContainsIsIn ==
  ASSUME NEW s, NEW x
  PROVE  TaskList!Contains(s, x) <=> x \in ToSet(s)
BY DEF TaskList!Contains, ToSet

\* What holds at first, and after a step if before it, holds up to the end.
LEMMA StepByStep ==
  ASSUME NEW n \in Nat, NEW S, 0 \in S, \A i \in 1..n : i - 1 \in S => i \in S
  PROVE  \A i \in 0..n : i \in S
<1> SUFFICES ASSUME NEW i \in 0..n, i \notin S PROVE FALSE
  OBVIOUS
<1> DEFINE T == {j \in Nat : j <= n /\ j \notin S}
<1>1. PICK j \in T : \A m \in T : j <= m
  <2>1. T \in SUBSET Nat /\ T # {}
    OBVIOUS
  <2> QED
    BY <2>1, LeastExists
<1>2. j \in 1..n /\ j - 1 \in Nat
  OBVIOUS
<1>3. j - 1 \in S
  BY <1>1, <1>2
<1> QED
  BY <1>1, <1>2, <1>3

\* A loop whose steps are given by a function is a function of the number of steps.
IsStep(step, L) == step \in [L \X Nat -> L]

IsLoop(f, L, m, base, step) ==
  /\ f \in [0..m -> L] /\ f[0] = base
  /\ \A i \in 1..m : f[i] = step[<<f[i - 1], i>>]

LEMMA LoopExists ==
  ASSUME NEW L, NEW n \in Nat, NEW base \in L, NEW step, IsStep(step, L)
  PROVE  \E f : IsLoop(f, L, n, base, step)
<1> USE DEF IsStep
<1> DEFINE Loop(f, m) == /\ f \in [0..m -> L] /\ f[0] = base
                         /\ \A i \in 1..m : f[i] = step[<<f[i - 1], i>>]
           S == {m \in Nat : \E f : Loop(f, m)}
<1>1. 0 \in S
  <2> DEFINE f == [i \in 0..0 |-> base]
  <2>1. Loop(f, 0)
    OBVIOUS
  <2> QED
    BY <2>1
<1>2. ASSUME NEW m \in 1..n, m - 1 \in S PROVE m \in S
  <2>1. PICK f : Loop(f, m - 1)
    BY <1>2
  <2> DEFINE g == [i \in 0..m |-> IF i = m THEN step[<<f[m - 1], m>>] ELSE f[i]]
  <2>2. m \in Nat /\ m - 1 \in 0..(m - 1) /\ f[m - 1] \in L
    BY <2>1
  <2>3. step[<<f[m - 1], m>>] \in L
    BY <2>2
  <2>4. g \in [0..m -> L]
    BY <2>1, <2>2, <2>3
  <2>5. g[0] = base
    BY <2>1
  <2>6. ASSUME NEW i \in 1..m PROVE g[i] = step[<<g[i - 1], i>>]
    <3>1. i - 1 \in 0..m /\ i - 1 # m /\ i \in 0..m
      OBVIOUS
    <3>2. g[i - 1] = f[i - 1]
      BY <3>1
    <3>3. CASE i = m
      BY <3>1, <3>2, <3>3
    <3>4. CASE i # m
      <4>1. i \in 1..(m - 1)
        BY <3>4
      <4> QED
        BY <2>1, <3>1, <3>2, <3>4, <4>1
    <3> QED
      BY <3>3, <3>4
  <2> HIDE DEF g
  <2>7. Loop(g, m)
    BY <2>4, <2>5, <2>6
  <2> QED
    BY <2>2, <2>7
<1> HIDE DEF S
<1>3. n \in S
  BY <1>1, <1>2, StepByStep
<1> QED
  BY <1>3 DEF S, IsLoop

\* A JavaScript set of tasks, in the order of insertion.
Lists == {s \in Seq(Tasks) : IsInjective(s)}

LEMMA DeleteFrom ==
  ASSUME NEW s \in Lists, NEW x
  PROVE  TaskList!Delete(s, x) \in Lists /\ ToSet(TaskList!Delete(s, x)) = ToSet(s) \ {x}
<1>1. PICK t : t = TaskList!Delete(s, x)
  OBVIOUS
<1>2. t = IF Contains(s, x) THEN RemoveAt(s, IndexOf(s, x)) ELSE s
  BY <1>1, SameLists DEF TaskList!Delete
<1>3. CASE Contains(s, x)
  <2>1. PICK i \in DOMAIN s : s[i] = x
    BY <1>3 DEF Contains
  <2>2. t = RemoveAt(s, i)
    BY <1>2, <1>3, <2>1, IndexOfElement DEF Lists
  <2>3. IsInjective(t) /\ ToSet(t) = ToSet(s) \ {x} /\ t \in Seq(Tasks)
    BY <2>1, <2>2, RemoveAtSet, RemoveAtElements DEF Lists
  <2> QED
    BY <1>1, <2>3 DEF Lists
<1>4. CASE ~Contains(s, x)
  <2>1. x \notin ToSet(s)
    BY <1>4 DEF Contains, ToSet
  <2> QED
    BY <1>1, <1>2, <1>4, <2>1
<1> QED
  BY <1>3, <1>4

LEMMA AddTo ==
  ASSUME NEW s \in Lists, NEW x \in Tasks
  PROVE  TaskList!Add(s, x) \in Lists /\ ToSet(TaskList!Add(s, x)) = ToSet(s) \cup {x}
<1>1. PICK t : t = TaskList!Add(s, x)
  OBVIOUS
<1>2. t = IF Contains(s, x) THEN s ELSE Append(s, x)
  BY <1>1, SameLists DEF TaskList!Add
<1>3. CASE Contains(s, x)
  <2>1. x \in ToSet(s)
    BY <1>3 DEF Contains, ToSet
  <2> QED
    BY <1>1, <1>2, <1>3, <2>1
<1>4. CASE ~Contains(s, x)
  <2>1. \A i \in DOMAIN s : s[i] # x
    BY <1>4 DEF Contains
  <2>2. s \in Seq(Tasks) /\ DOMAIN s = 1..Len(s) /\ Len(s) \in Nat
    BY LenProperties DEF Lists
  <2>3. /\ t \in Seq(Tasks) /\ Len(t) = Len(s) + 1 /\ t[Len(s) + 1] = x
        /\ \A i \in 1..Len(s) : t[i] = s[i]
    BY <1>2, <1>4, <2>2, AppendProperties
  <2>4. DOMAIN t = 1..(Len(s) + 1)
    BY <2>3, LenProperties
  <2>5. IsInjective(t)
    BY <2>1, <2>2, <2>3, <2>4 DEF IsInjective, Lists
  <2>6. ToSet(t) = ToSet(s) \cup {x}
    <3>1. ASSUME NEW y \in ToSet(t) PROVE y \in ToSet(s) \cup {x}
      <4>1. PICK i \in DOMAIN t : y = t[i]
        BY <3>1 DEF ToSet
      <4> QED
        BY <2>2, <2>3, <2>4, <4>1 DEF ToSet
    <3>2. ASSUME NEW y \in ToSet(s) PROVE y \in ToSet(t)
      <4>1. PICK i \in DOMAIN s : y = s[i]
        BY <3>2 DEF ToSet
      <4>2. i \in DOMAIN t /\ y = t[i]
        BY <2>2, <2>3, <2>4, <4>1
      <4> QED
        BY <4>2 DEF ToSet
    <3>3. x \in ToSet(t)
      BY <2>2, <2>3, <2>4 DEF ToSet
    <3> QED
      BY <3>1, <3>2, <3>3
  <2> QED
    BY <1>1, <2>3, <2>5, <2>6 DEF Lists
<1> QED
  BY <1>3, <1>4

\* popComponent of a list that is consistent leaves one that is.
LEMMA FreshLists ==
  ASSUME NEW s \in Lists, NEW i \in DOMAIN s
  PROVE  /\ PopComponent(FreshList(s), i) = FreshList(RemoveAt(s, i))
         /\ RemoveAt(s, i) \in Lists
<1>1. PICK list, new, t :
        list = FreshList(s) /\ new = PopComponent(list, i) /\ t = RemoveAt(s, i)
  OBVIOUS
<1>2. ListOK(list) /\ list.comps = s /\ list.rows = s
  BY <1>1, FreshIsList DEF Lists, ListOK
<1>3. ListOK(new) /\ new.comps = t
  BY <1>1, <1>2, PopKeepsList
<1>4. t \in Seq(Tasks) /\ IsInjective(t)
  BY <1>3 DEF ListOK
<1>5. PICK place : new = [rows |-> t, comps |-> t, place |-> place]
                   /\ place = [x \in DOMAIN place |-> place[x]]
  <2> DEFINE old == [y \in ToSet(t) |-> list.place[y]]
             popped == [rows |-> t, comps |-> t, place |-> old]
             set == {j \in DOMAIN t : j >= i - 1}
             place == [x \in DOMAIN old |->
                         IF \E j \in set : t[j] = x THEN PositionOf(IndexOf(t, x), Len(t)) ELSE old[x]]
  <2>1. new = Told(popped, set)
    BY <1>1, <1>2 DEF PopComponent
  <2>2. new = [popped EXCEPT !.place = place]
    BY <2>1 DEF Told
  <2>3. new = [rows |-> t, comps |-> t, place |-> place]
    BY <2>2
  <2> QED
    BY <2>3
<1>6. place = FreshList(t).place
  <2> DEFINE fresh == [x \in ToSet(t) |-> PositionOf(IndexOf(t, x), Len(t))]
  <2>1. DOMAIN place = ToSet(t) /\ \A j \in DOMAIN t : place[t[j]] = PositionOf(j, Len(t))
    BY <1>3, <1>5 DEF ListOK
  <2>2. ASSUME NEW x \in ToSet(t) PROVE place[x] = fresh[x]
    <3>1. PICK j \in DOMAIN t : x = t[j]
      BY DEF ToSet
    <3>2. IndexOf(t, x) = j
      BY <1>4, <3>1, IndexOfElement
    <3> QED
      BY <2>1, <3>1, <3>2
  <2>3. place = fresh
    BY <1>5, <2>1, <2>2
  <2> QED
    BY <2>3 DEF FreshList
<1>7. new = FreshList(t)
  BY <1>5, <1>6 DEF FreshList
<1> QED
  BY <1>1, <1>4, <1>7 DEF Lists

\* The elements that are left when those selected are deleted one by one.
LEMMA DeletedElements ==
  ASSUME NEW t, t.elements \in Lists, t.selection \in Seq(Tasks)
  PROVE  \E left \in Lists :
           /\ ToSet(left) = ToSet(t.elements) \ ToSet(t.selection)
           /\ TaskList!DeletedSelection(t) =
                TaskList!ClearSelection([t EXCEPT !.elements = left], FALSE)
<1> DEFINE n == Len(t.selection)
           Left(f) == f = [i \in 0..n |-> IF i = 0 THEN t.elements
                                          ELSE TaskList!Delete(f[i - 1], t.selection[i])]
           step == [p \in Lists \X Nat |-> TaskList!Delete(p[1], t.selection[p[2]])]
<1>1. n \in Nat /\ DOMAIN t.selection = 1..n
  BY LenProperties
<1>2. \E f : Left(f)
  <2>1. step \in [Lists \X Nat -> Lists]
    BY DeleteFrom
  <2>2. PICK f \in [0..n -> Lists] :
          f[0] = t.elements /\ \A i \in 1..n : f[i] = step[<<f[i - 1], i>>]
    <3>1. IsStep(step, Lists)
      BY <2>1 DEF IsStep
    <3> HIDE DEF step, n
    <3>2. PICK f : IsLoop(f, Lists, n, t.elements, step)
      BY <1>1, <3>1, LoopExists
    <3> QED
      BY <3>2 DEF IsLoop
  <2>3. ASSUME NEW i \in 1..n PROVE f[i] = TaskList!Delete(f[i - 1], t.selection[i])
    <3>1. i \in Nat /\ i - 1 \in 0..n /\ f[i - 1] \in Lists
      BY <1>1, <2>2
    <3> QED
      BY <2>2, <3>1
  <2>4. f = [i \in 0..n |-> f[i]] /\ 0 \in 0..n /\ \A i \in 0..n : i = 0 \/ i \in 1..n
    BY <1>1, <2>2
  <2>5. Left(f)
    BY <2>2, <2>3, <2>4
  <2> QED
    BY <2>5
<1>3. PICK f : Left(f) /\ f = CHOOSE g : Left(g)
  <2> HIDE DEF Left
  <2> QED
    BY <1>2
<1>4. TaskList!DeletedSelection(t) = TaskList!ClearSelection([t EXCEPT !.elements = f[n]], FALSE)
  BY <1>3 DEF TaskList!DeletedSelection
<1>5. f[0] = t.elements /\ \A i \in 1..n : f[i] = TaskList!Delete(f[i - 1], t.selection[i])
  <2>1. PICK g : g = [i \in 0..n |-> IF i = 0 THEN t.elements
                                     ELSE TaskList!Delete(f[i - 1], t.selection[i])]
    OBVIOUS
  <2>2. f = g
    BY <1>3, <2>1
  <2>3. 0 \in 0..n /\ \A i \in 1..n : i \in 0..n /\ i # 0
    BY <1>1
  <2> QED
    BY <2>1, <2>2, <2>3
<1> HIDE DEF step, Left
<1> DEFINE Taken(i) == {t.selection[j] : j \in 1..i}
           S == {i \in 0..n : f[i] \in Lists /\ ToSet(f[i]) = ToSet(t.elements) \ Taken(i)}
<1>6. 0 \in S
  BY <1>1, <1>5
<1>7. ASSUME NEW i \in 1..n, i - 1 \in S PROVE i \in S
  <2>1. f[i - 1] \in Lists /\ ToSet(f[i - 1]) = ToSet(t.elements) \ Taken(i - 1)
    BY <1>7
  <2>2. Taken(i) = Taken(i - 1) \cup {t.selection[i]}
    BY <1>1
  <2>3. f[i] \in Lists /\ ToSet(f[i]) = ToSet(f[i - 1]) \ {t.selection[i]}
    BY <1>5, <2>1, DeleteFrom
  <2> QED
    BY <1>1, <2>1, <2>2, <2>3
<1>8. n \in S
  <2> HIDE DEF S, n
  <2>1. \A i \in 0..n : i \in S
    BY <1>1, <1>6, <1>7, StepByStep
  <2> QED
    BY <1>1, <2>1
<1>9. ToSet(t.selection) = Taken(n)
  BY <1>1 DEF ToSet
<1> QED
  BY <1>4, <1>8, <1>9

\* A list whose rows are those of comps up to i, and after it some of E.
Popped(list, comps, E, i) ==
  \E s \in Lists :
    /\ list = FreshList(s) /\ i <= Len(s)
    /\ \A j \in 1..i : s[j] = comps[j]
    /\ \A j \in DOMAIN s : j > i => s[j] \in E
    /\ ToSet(comps) \cap E \subseteq ToSet(s) /\ ToSet(s) \subseteq ToSet(comps)

\* One turn of the loop that pops rows.
LEMMA PopOne ==
  ASSUME NEW comps \in Lists, NEW E, NEW i \in DOMAIN comps, NEW list,
         Popped(list, comps, E, i)
  PROVE  /\ comps[i] \in E => Popped(list, comps, E, i - 1)
         /\ comps[i] \notin E => Popped(PopComponent(list, i), comps, E, i - 1)
<1>1. PICK s \in Lists :
        /\ list = FreshList(s) /\ i <= Len(s)
        /\ \A j \in 1..i : s[j] = comps[j]
        /\ \A j \in DOMAIN s : j > i => s[j] \in E
        /\ ToSet(comps) \cap E \subseteq ToSet(s) /\ ToSet(s) \subseteq ToSet(comps)
  BY DEF Popped
<1>2. /\ s \in Seq(Tasks) /\ IsInjective(s) /\ DOMAIN s = 1..Len(s) /\ Len(s) \in Nat
      /\ i \in Nat \ {0} /\ i \in DOMAIN s /\ s[i] = comps[i]
  BY <1>1, LenProperties DEF Lists
<1>3. CASE comps[i] \in E
  <2>1. \A j \in DOMAIN s : j > i - 1 => s[j] \in E
    BY <1>1, <1>2, <1>3
  <2>2. i - 1 <= Len(s) /\ \A j \in 1..(i - 1) : s[j] = comps[j]
    BY <1>1, <1>2
  <2> QED
    BY <1>1, <1>3, <2>1, <2>2 DEF Popped
<1>4. CASE comps[i] \notin E
  <2>1. PICK t : t = RemoveAt(s, i)
    OBVIOUS
  <2>2. t \in Lists /\ PopComponent(list, i) = FreshList(t)
    BY <1>1, <1>2, <2>1, FreshLists
  <2>3. /\ t \in Seq(Tasks) /\ Len(t) = Len(s) - 1
        /\ DOMAIN t = 1..Len(t) /\ Len(s) \in Nat \ {0} /\ DOMAIN s = 1..Len(s)
        /\ \A j \in DOMAIN t : Before(i, j) \in DOMAIN s /\ t[j] = s[Before(i, j)]
    <3>1. s \in Seq(Tasks) /\ i \in DOMAIN s
      BY <1>2
    <3> QED
      BY <2>1, <3>1, RemoveAtElements
  <2>4. ToSet(t) = ToSet(s) \ {comps[i]}
    BY <1>2, <2>1, RemoveAtSet
  <2>5. i - 1 <= Len(t)
    BY <1>1, <1>2, <2>3
  <2>6. ASSUME NEW j \in 1..(i - 1) PROVE t[j] = comps[j]
    <3>1. j \in DOMAIN t /\ Before(i, j) = j /\ j \in 1..i
      BY <1>2, <2>3, <2>5 DEF Before
    <3> QED
      BY <1>1, <2>3, <3>1
  <2>7. ASSUME NEW j \in DOMAIN t, j > i - 1 PROVE t[j] \in E
    <3>1. Before(i, j) \in DOMAIN s /\ Before(i, j) > i
      BY <1>2, <2>3, <2>7 DEF Before
    <3> QED
      BY <1>1, <2>3, <3>1
  <2>8. ToSet(comps) \cap E \subseteq ToSet(t) /\ ToSet(t) \subseteq ToSet(comps)
    BY <1>1, <1>4, <2>4
  <2>9. Popped(FreshList(t), comps, E, i - 1)
    BY <2>2, <2>5, <2>6, <2>7, <2>8 DEF Popped
  <2> QED
    BY <1>4, <2>2, <2>9
<1> QED
  BY <1>3, <1>4

\* The rows that are left are those of elements.
LEMMA PoppedRows ==
  ASSUME NEW t, t.list.comps \in Lists, t.list = FreshList(t.list.comps),
         t.elements \in Lists
  PROVE  \E s \in Lists : /\ TaskList!PopRows(t) = FreshList(s)
                          /\ ToSet(s) = ToSet(t.list.comps) \cap ToSet(t.elements)
<1> DEFINE comps == t.list.comps
           n == Len(comps)
           E == ToSet(t.elements)
           Turn(list, k) == IF TaskList!Contains(t.elements, comps[n + 1 - k]) THEN list
                            ELSE TaskList!PopComponent(list, n + 1 - k)
           Seen(f) == f = [k \in 0..n |-> IF k = 0 THEN t.list ELSE Turn(f[k - 1], k)]
           L == {FreshList(s) : s \in Lists}
           step == [p \in L \X Nat |-> IF Turn(p[1], p[2]) \in L THEN Turn(p[1], p[2]) ELSE p[1]]
<1>1. n \in Nat /\ DOMAIN comps = 1..n
  BY LenProperties DEF Lists
<1>2. comps \in Lists /\ t.list = FreshList(comps)
  OBVIOUS
<1>3. PICK f : IsLoop(f, L, n, t.list, step)
  <2>1. IsStep(step, L) /\ t.list \in L
    <3> HIDE DEF Turn
    <3> QED
      BY DEF IsStep
  <2>2. PICK base : base = t.list
    OBVIOUS
  <2> HIDE DEF step, L, n
  <2>3. \E f : IsLoop(f, L, n, base, step)
    BY <1>1, <2>1, <2>2, LoopExists
  <2> QED
    BY <2>2, <2>3
<1>4. /\ f \in [0..n -> L] /\ f[0] = t.list
      /\ \A k \in 1..n : f[k] = step[<<f[k - 1], k>>]
  BY <1>3 DEF IsLoop
<1> DEFINE S == {k \in 0..n : Popped(f[k], comps, E, n - k)}
<1>5. ASSUME NEW k \in 1..n, k - 1 \in S
      PROVE  k \in S /\ f[k] = Turn(f[k - 1], k)
  <2>1. PICK i : i = n + 1 - k
    OBVIOUS
  <2>2. i \in DOMAIN comps /\ i = n - (k - 1) /\ i - 1 = n - k
    BY <1>1, <2>1
  <2>3. Popped(f[k - 1], comps, E, i)
    BY <1>5, <2>2
  <2>4. TaskList!Contains(t.elements, comps[i]) <=> comps[i] \in E
    BY ContainsIsIn
  <2>5. TaskList!PopComponent(f[k - 1], i) = PopComponent(f[k - 1], i)
    BY SameLists
  <2>6. Popped(Turn(f[k - 1], k), comps, E, n - k)
    <3> HIDE DEF E
    <3>1. /\ comps[i] \in E => Popped(f[k - 1], comps, E, i - 1)
          /\ comps[i] \notin E => Popped(PopComponent(f[k - 1], i), comps, E, i - 1)
      BY <2>2, <2>3, PopOne
    <3> QED
      BY <2>1, <2>2, <2>4, <2>5, <3>1
  <2> HIDE DEF Turn, E
  <2>7. Turn(f[k - 1], k) \in L
    BY <2>6 DEF Popped
  <2>8. f[k - 1] \in L /\ k \in Nat
    BY <1>1, <1>4
  <2>9. f[k] = Turn(f[k - 1], k)
    BY <1>4, <2>7, <2>8
  <2> QED
    BY <2>6, <2>9
<1>6. \A k \in 0..n : k \in S
  <2>1. 0 \in S
    <3>1. Popped(t.list, comps, E, n)
      BY <1>1 DEF Popped
    <3> QED
      BY <1>1, <1>4, <3>1
  <2> HIDE DEF S, n
  <2> QED
    BY <1>1, <1>5, <2>1, StepByStep
<1>7. Seen(f)
  <2> HIDE DEF Turn
  <2>1. \A k \in 1..n : f[k] = Turn(f[k - 1], k)
    <3>1. \A k \in 1..n : k - 1 \in 0..n
      BY <1>1
    <3> QED
      BY <1>5, <1>6, <3>1
  <2>2. f = [k \in 0..n |-> f[k]] /\ \A k \in 0..n : k = 0 \/ k \in 1..n
    BY <1>1, <1>4
  <2> QED
    BY <1>4, <2>1, <2>2
<1>8. PICK g : Seen(g) /\ g = CHOOSE h : Seen(h)
  <2> HIDE DEF Seen
  <2> QED
    BY <1>7
<1>9. TaskList!PopRows(t) = g[n]
  BY <1>8 DEF TaskList!PopRows
<1>10. g[0] = t.list /\ \A k \in 1..n : g[k] = Turn(g[k - 1], k)
  <2> HIDE DEF Turn
  <2>1. PICK h : h = [k \in 0..n |-> IF k = 0 THEN t.list ELSE Turn(g[k - 1], k)]
    OBVIOUS
  <2>2. g = h
    BY <1>8, <2>1
  <2>3. 0 \in 0..n /\ \A k \in 1..n : k \in 0..n /\ k # 0
    BY <1>1
  <2> QED
    BY <2>1, <2>2, <2>3
<1>11. g[n] = f[n]
  <2> DEFINE Same == {k \in 0..n : g[k] = f[k]}
  <2>1. 0 \in Same
    BY <1>1, <1>4, <1>10
  <2>2. ASSUME NEW k \in 1..n, k - 1 \in Same PROVE k \in Same
    <3> HIDE DEF Turn, S
    <3>1. f[k] = Turn(f[k - 1], k)
      BY <1>1, <1>5, <1>6
    <3> QED
      BY <1>10, <2>2, <3>1
  <2>3. \A k \in 0..n : k \in Same
    <3> HIDE DEF Same, n
    <3> QED
      BY <1>1, <2>1, <2>2, StepByStep
  <2> QED
    BY <1>1, <2>3
<1>12. Popped(f[n], comps, E, 0)
  BY <1>1, <1>6
<1>13. PICK s \in Lists :
         /\ f[n] = FreshList(s)
         /\ \A j \in DOMAIN s : j > 0 => s[j] \in E
         /\ ToSet(comps) \cap E \subseteq ToSet(s) /\ ToSet(s) \subseteq ToSet(comps)
  <2> HIDE DEF E
  <2> QED
    BY <1>12 DEF Popped
<1>14. ToSet(s) \subseteq E
  <2>1. \A j \in DOMAIN s : j > 0
    BY LenProperties DEF Lists
  <2> QED
    BY <1>13, <2>1 DEF ToSet
<1> QED
  BY <1>9, <1>11, <1>13, <1>14

LEMMA FreshComps ==
  ASSUME NEW s, NEW list, list = FreshList(s)
  PROVE  list.comps = s /\ list.rows = s
BY DEF FreshList

\* The sets and the list of a table are lists without repetitions, and the list is
\* consistent; without rows there are no elements.
Tidy(t) ==
  /\ DOMAIN t = TableFields
  /\ t.elements \in Lists /\ t.selection \in Lists
  /\ \E comps \in Lists : t.list = FreshList(comps)
  /\ ToSet(t.selection) \subseteq ToSet(t.elements)
  /\ t.body # "rows" => t.elements = <<>> /\ t.list.comps = <<>>

Reflected(t) ==
  t.body = "rows" => /\ ToSet(t.list.comps) = ToSet(t.elements)
                     /\ t.ticked = ToSet(t.selection)

Buttons(t) ==
  /\ t.bulk = TaskList!BulkBox(t)
  /\ t.removable = (t.selection # <<>>) /\ t.addable = t.removable

ShownOK(t) == Tidy(t) /\ Reflected(t) /\ Buttons(t)

\* What an update does: the buttons and the box follow the sets, and the rows and
\* their boxes if they are not reflected yet.
LEMMA UpdateEffect ==
  ASSUME NEW t, DOMAIN t = TableFields, NEW reflected \in BOOLEAN,
         NEW u, u = TaskList!SendSelectionUpdate(t, reflected)
  PROVE  /\ DOMAIN u = TableFields /\ Buttons(u)
         /\ u.elements = t.elements /\ u.selection = t.selection /\ u.body = t.body
         /\ reflected \/ t.body # "rows" => u.list = t.list /\ u.ticked = t.ticked
         /\ ~reflected /\ t.body = "rows" =>
              /\ u.list = TaskList!PopRows(t)
              /\ u.ticked = ToSet(t.selection) \cap ToSet(u.list.comps)
<1>1. PICK told : told = TaskList!Listeners(t, reflected)
  OBVIOUS
<1>2. PICK list, ticked :
        /\ list = IF reflected \/ t.body # "rows" THEN t.list ELSE TaskList!PopRows(t)
        /\ ticked = IF reflected \/ t.body # "rows" THEN t.ticked
                    ELSE ToSet(t.selection) \cap ToSet(list.comps)
  OBVIOUS
<1>3. TaskList!ToSet(t.selection) = ToSet(t.selection) /\ TaskList!ToSet(list.comps) = ToSet(list.comps)
  BY SameLists
<1>4. told = [t EXCEPT !.removable = t.selection # <<>>, !.addable = t.selection # <<>>,
                       !.list = list, !.ticked = ticked]
  <2>1. ticked = IF reflected \/ t.body # "rows" THEN t.ticked
                 ELSE TaskList!ToSet(t.selection) \cap TaskList!ToSet(list.comps)
    BY <1>2, <1>3
  <2> QED
    BY <1>1, <1>2, <2>1 DEF TaskList!Listeners
<1>5. /\ DOMAIN told = TableFields /\ told.list = list /\ told.ticked = ticked
      /\ told.removable = (t.selection # <<>>) /\ told.addable = (t.selection # <<>>)
      /\ told.elements = t.elements /\ told.selection = t.selection /\ told.body = t.body
  BY <1>4 DEF TableFields
<1>6. PICK bulk : bulk = TaskList!BulkBox(told)
  OBVIOUS
<1>7. u = [told EXCEPT !.bulk = bulk]
  BY <1>1, <1>6 DEF TaskList!SendSelectionUpdate
<1>8. /\ DOMAIN u = TableFields /\ u.list = list /\ u.ticked = ticked /\ u.bulk = bulk
      /\ u.removable = (t.selection # <<>>) /\ u.addable = (t.selection # <<>>)
      /\ u.elements = t.elements /\ u.selection = t.selection /\ u.body = t.body
  BY <1>5, <1>7 DEF TableFields
<1>9. bulk = TaskList!BulkBox(u)
  BY <1>5, <1>6, <1>8 DEF TaskList!BulkBox
<1>10. Buttons(u)
  BY <1>8, <1>9 DEF Buttons
<1> QED
  BY <1>2, <1>8, <1>10

\* The document already shows the change.
LEMMA ReflectedUpdate ==
  ASSUME NEW t, Tidy(t), Reflected(t)
  PROVE  ShownOK(TaskList!SendSelectionUpdate(t, TRUE))
<1>1. PICK u : u = TaskList!SendSelectionUpdate(t, TRUE)
  OBVIOUS
<1>2. /\ DOMAIN u = TableFields /\ Buttons(u)
      /\ u.elements = t.elements /\ u.selection = t.selection /\ u.body = t.body
      /\ u.list = t.list /\ u.ticked = t.ticked
  BY <1>1, UpdateEffect DEF Tidy
<1> QED
  BY <1>1, <1>2 DEF ShownOK, Tidy, Reflected

\* The document is changed to show it: rows may be popped, but not added.
LEMMA UnreflectedUpdate ==
  ASSUME NEW t, Tidy(t), t.body = "rows" => ToSet(t.elements) \subseteq ToSet(t.list.comps)
  PROVE  ShownOK(TaskList!SendSelectionUpdate(t, FALSE))
<1>1. PICK u : u = TaskList!SendSelectionUpdate(t, FALSE)
  OBVIOUS
<1>2. /\ DOMAIN u = TableFields /\ Buttons(u)
      /\ u.elements = t.elements /\ u.selection = t.selection /\ u.body = t.body
      /\ t.body # "rows" => u.list = t.list /\ u.ticked = t.ticked
      /\ t.body = "rows" => /\ u.list = TaskList!PopRows(t)
                            /\ u.ticked = ToSet(t.selection) \cap ToSet(u.list.comps)
  BY <1>1, UpdateEffect DEF Tidy
<1>3. PICK comps \in Lists : t.list = FreshList(comps) /\ t.list.comps = comps
  BY FreshComps DEF Tidy
<1>4. CASE t.body = "rows"
  <2>1. PICK s \in Lists : u.list = FreshList(s) /\ ToSet(s) = ToSet(comps) \cap ToSet(t.elements)
    BY <1>2, <1>3, <1>4, PoppedRows DEF Tidy
  <2>2. u.list.comps = s
    BY <2>1, FreshComps
  <2>3. ToSet(s) = ToSet(u.elements) /\ u.ticked = ToSet(u.selection)
    BY <1>2, <1>3, <1>4, <2>1, <2>2 DEF Tidy
  <2>4. Tidy(u)
    BY <1>2, <1>4, <2>1 DEF Tidy
  <2> QED
    BY <1>1, <1>2, <2>2, <2>3, <2>4 DEF ShownOK, Reflected
<1>5. CASE t.body # "rows"
  BY <1>1, <1>2, <1>5 DEF ShownOK, Tidy, Reflected
<1> QED
  BY <1>4, <1>5

LEMMA EmptyList ==
  /\ <<>> \in Lists /\ ToSet(<<>>) = {}
  /\ \A s \in Lists : ToSet(s) = {} => s = <<>>
<1>1. <<>> \in Lists /\ ToSet(<<>>) = {}
  BY EmptySeq DEF Lists, IsInjective, ToSet
<1>2. ASSUME NEW s \in Lists, ToSet(s) = {} PROVE s = <<>>
  <2>1. s \in Seq(Tasks) /\ DOMAIN s = 1..Len(s) /\ Len(s) \in Nat
    BY LenProperties DEF Lists
  <2>2. Len(s) = 0
    <3>1. 1 \notin DOMAIN s
      BY <1>2 DEF ToSet
    <3> QED
      BY <2>1, <3>1
  <2> QED
    BY <2>1, <2>2, EmptySeq
<1> QED
  BY <1>1, <1>2

\* The box and the buttons depend on nothing but the sets.
LEMMA SameButtons ==
  ASSUME NEW t, NEW u, Buttons(t), u.elements = t.elements, u.selection = t.selection,
         u.bulk = t.bulk, u.removable = t.removable, u.addable = t.addable
  PROVE  Buttons(u)
BY DEF Buttons, TaskList!BulkBox

LEMMA TickShows ==
  ASSUME NEW t, Tidy(t), NEW x \in ToSet(t.elements), NEW state \in BOOLEAN,
         t.body = "rows", ToSet(t.list.comps) = ToSet(t.elements),
         t.ticked = IF state THEN ToSet(t.selection) \cup {x} ELSE ToSet(t.selection) \ {x}
  PROVE  ShownOK(TaskList!NotifySingle(t, x, state))
<1>1. x \in Tasks
  BY DEF Tidy, Lists, ToSet
<1>2. PICK s : s = IF state THEN TaskList!Add(t.selection, x) ELSE TaskList!Delete(t.selection, x)
  OBVIOUS
<1>3. s \in Lists /\ ToSet(s) = t.ticked
  BY <1>1, <1>2, AddTo, DeleteFrom DEF Tidy
<1>4. PICK u : u = [t EXCEPT !.selection = s]
  OBVIOUS
<1>5. /\ DOMAIN u = TableFields /\ u.selection = s /\ u.elements = t.elements
      /\ u.list = t.list /\ u.body = t.body /\ u.ticked = t.ticked
  BY <1>4 DEF Tidy, TableFields
<1>6. Tidy(u) /\ Reflected(u)
  BY <1>3, <1>5 DEF Tidy, Reflected
<1>7. TaskList!NotifySingle(t, x, state) = TaskList!SendSelectionUpdate(u, TRUE)
  BY <1>2, <1>4 DEF TaskList!NotifySingle
<1> QED
  BY <1>6, <1>7, ReflectedUpdate

LEMMA PopShows ==
  ASSUME NEW t, DOMAIN t = TableFields, t.elements \in Lists, t.selection \in Lists,
         ToSet(t.selection) \subseteq ToSet(t.elements),
         NEW x, NEW comps \in Lists, t.list = FreshList(comps), t.body = "rows",
         ToSet(comps) = ToSet(t.elements) \ {x}, t.ticked = ToSet(t.selection) \ {x}
  PROVE  ShownOK(TaskList!PopElement(t, x))
<1>1. PICK e, s : e = TaskList!Delete(t.elements, x) /\ s = TaskList!Delete(t.selection, x)
  OBVIOUS
<1>2. /\ e \in Lists /\ ToSet(e) = ToSet(t.elements) \ {x}
      /\ s \in Lists /\ ToSet(s) = ToSet(t.selection) \ {x}
  BY <1>1, DeleteFrom
<1>3. PICK u : u = [t EXCEPT !.elements = e, !.selection = s]
  OBVIOUS
<1>4. /\ DOMAIN u = TableFields /\ u.selection = s /\ u.elements = e
      /\ u.list = t.list /\ u.body = t.body /\ u.ticked = t.ticked
  BY <1>3 DEF TableFields
<1>5. u.list.comps = comps
  BY <1>4, FreshComps
<1>6. Tidy(u) /\ Reflected(u)
  BY <1>2, <1>4, <1>5 DEF Tidy, Reflected
<1>7. TaskList!PopElement(t, x) = TaskList!SendSelectionUpdate(u, TRUE)
  BY <1>1, <1>3 DEF TaskList!PopElement
<1> QED
  BY <1>6, <1>7, ReflectedUpdate

\* The box of the head, and the button that deletes what is selected.
LEMMA HeadShows ==
  ASSUME NEW t, ShownOK(t)
  PROVE  /\ ShownOK(TaskList!ClearSelection(t, FALSE))
         /\ ShownOK(TaskList!SelectAll(t))
         /\ ShownOK(TaskList!DeletedSelection(t))
<1>1. /\ DOMAIN t = TableFields /\ t.elements \in Lists /\ t.selection \in Lists
      /\ t.body = "rows" => ToSet(t.list.comps) = ToSet(t.elements)
      /\ t.body # "rows" => t.elements = <<>>
  BY DEF ShownOK, Tidy, Reflected
<1>2. ASSUME NEW e \in Lists, ToSet(e) \subseteq ToSet(t.elements),
             NEW s \in Lists, ToSet(s) \subseteq ToSet(e),
             NEW u, u = [t EXCEPT !.elements = e, !.selection = s]
      PROVE  ShownOK(TaskList!SendSelectionUpdate(u, FALSE))
  <2>1. /\ DOMAIN u = TableFields /\ u.elements = e /\ u.selection = s
        /\ u.list = t.list /\ u.body = t.body
    BY <1>1, <1>2 DEF TableFields
  <2>2. t.body # "rows" => e = <<>>
    BY <1>1, <1>2, EmptyList
  <2>3. Tidy(u)
    BY <1>2, <2>1, <2>2 DEF ShownOK, Tidy
  <2>4. u.body = "rows" => ToSet(u.elements) \subseteq ToSet(u.list.comps)
    BY <1>1, <1>2, <2>1
  <2> QED
    BY <2>3, <2>4, UnreflectedUpdate
<1>3. ShownOK(TaskList!ClearSelection(t, FALSE))
  <2>1. PICK u : u = [t EXCEPT !.selection = <<>>]
    OBVIOUS
  <2>2. u = [t EXCEPT !.elements = t.elements, !.selection = <<>>]
    BY <1>1, <2>1 DEF TableFields
  <2>3. ShownOK(TaskList!SendSelectionUpdate(u, FALSE))
    BY <1>1, <1>2, <2>2, EmptyList
  <2> QED
    BY <2>1, <2>3 DEF TaskList!ClearSelection
<1>4. ShownOK(TaskList!SelectAll(t))
  <2>1. PICK u : u = [t EXCEPT !.selection = t.elements]
    OBVIOUS
  <2>2. u = [t EXCEPT !.elements = t.elements, !.selection = t.elements]
    BY <1>1, <2>1 DEF TableFields
  <2>3. ShownOK(TaskList!SendSelectionUpdate(u, FALSE))
    BY <1>1, <1>2, <2>2
  <2> QED
    BY <2>1, <2>3 DEF TaskList!SelectAll
<1>5. ShownOK(TaskList!DeletedSelection(t))
  <2>1. PICK left \in Lists :
          /\ ToSet(left) = ToSet(t.elements) \ ToSet(t.selection)
          /\ TaskList!DeletedSelection(t) =
               TaskList!ClearSelection([t EXCEPT !.elements = left], FALSE)
    BY <1>1, DeletedElements DEF Lists
  <2>2. PICK v, u : /\ v = [t EXCEPT !.elements = left]
                    /\ u = [v EXCEPT !.selection = <<>>]
    OBVIOUS
  <2>3. u = [t EXCEPT !.elements = left, !.selection = <<>>]
    BY <1>1, <2>2 DEF TableFields
  <2>4. ShownOK(TaskList!SendSelectionUpdate(u, FALSE))
    BY <1>2, <2>1, <2>3, EmptyList
  <2> QED
    BY <2>1, <2>2, <2>4 DEF TaskList!ClearSelection
<1> QED
  BY <1>3, <1>4, <1>5

\* setFilter, up to its request.
LEMMA AskedShows ==
  ASSUME NEW t, ShownOK(t), t.epoch # 0 => t.body = "loading", NEW f
  PROVE  ShownOK(TaskList!Asked(t, f)) /\ TaskList!Asked(t, f).body = "loading"
<1> DEFINE emptied == TaskList!SetElements(TaskList!ClearSelection(t, TRUE), <<>>)
           cleared == IF t.epoch # 0 THEN t
                      ELSE [emptied EXCEPT !.body = "loading", !.list = TaskList!Nowhere,
                                           !.ticked = {}]
<1>1. PICK u : u = TaskList!Asked(t, f)
  OBVIOUS
<1>2. u = [cleared EXCEPT !.epoch = @ + 1, !.filter = f]
  BY <1>1 DEF TaskList!Asked
<1>3. DOMAIN t = TableFields
  BY DEF ShownOK, Tidy
<1>4. DOMAIN emptied = TableFields /\ Buttons(emptied)
      /\ emptied.elements = <<>> /\ emptied.selection = <<>>
  <2>1. PICK a : a = [t EXCEPT !.selection = <<>>]
    OBVIOUS
  <2>2. PICK s : s = TaskList!SendSelectionUpdate(a, TRUE)
    OBVIOUS
  <2>3. PICK b : b = [s EXCEPT !.elements = <<>>]
    OBVIOUS
  <2>4. DOMAIN a = TableFields /\ a.selection = <<>>
    BY <1>3, <2>1 DEF TableFields
  <2>5. DOMAIN s = TableFields /\ s.selection = <<>>
    BY <2>2, <2>4, UpdateEffect
  <2>6. DOMAIN b = TableFields /\ b.selection = <<>> /\ b.elements = <<>>
    BY <2>3, <2>5 DEF TableFields
  <2>7. emptied = TaskList!SendSelectionUpdate(b, TRUE)
    BY <2>1, <2>2, <2>3 DEF TaskList!SetElements, TaskList!ClearSelection
  <2> QED
    BY <2>6, <2>7, UpdateEffect
<1> HIDE DEF emptied
<1>5. CASE t.epoch = 0
  <2>1. PICK list : list = FreshList(<<>>)
    OBVIOUS
  <2>2. TaskList!Nowhere = list
    BY <2>1, SameLists DEF TaskList!Nowhere
  <2>3. u = [emptied EXCEPT !.body = "loading", !.list = list, !.ticked = {},
                            !.epoch = emptied.epoch + 1, !.filter = f]
    BY <1>2, <1>4, <1>5, <2>2 DEF TableFields
  <2>4. /\ DOMAIN u = TableFields /\ u.body = "loading" /\ u.list = list
        /\ u.elements = emptied.elements /\ u.selection = emptied.selection
        /\ u.bulk = emptied.bulk /\ u.removable = emptied.removable
        /\ u.addable = emptied.addable
    BY <1>4, <2>3 DEF TableFields
  <2>5. Buttons(u)
    BY <1>4, <2>4, SameButtons
  <2>6. u.list.comps = <<>>
    BY <2>1, <2>4, FreshComps
  <2>7. Tidy(u) /\ Reflected(u)
    BY <1>4, <2>1, <2>4, <2>6, EmptyList DEF Tidy, Reflected
  <2> QED
    BY <1>1, <2>4, <2>5, <2>7 DEF ShownOK
<1>6. CASE t.epoch # 0
  <2>1. u = [t EXCEPT !.epoch = @ + 1, !.filter = f]
    BY <1>2, <1>6
  <2>2. /\ DOMAIN u = TableFields /\ u.body = t.body /\ u.list = t.list
        /\ u.elements = t.elements /\ u.selection = t.selection
        /\ u.bulk = t.bulk /\ u.removable = t.removable /\ u.addable = t.addable
        /\ u.ticked = t.ticked
    BY <1>3, <2>1 DEF TableFields
  <2>3. Buttons(u)
    BY <2>2, SameButtons DEF ShownOK
  <2>4. Tidy(u) /\ Reflected(u)
    BY <2>2 DEF ShownOK, Tidy, Reflected
  <2> QED
    BY <1>1, <1>6, <2>2, <2>3, <2>4 DEF ShownOK
<1> QED
  BY <1>5, <1>6

LEMMA ConstructedShows == ShownOK(TaskList!Constructed)
<1>1. PICK t, list : t = TaskList!Constructed /\ list = FreshList(<<>>)
  OBVIOUS
<1>2. TaskList!Nowhere = list
  BY <1>1, SameLists DEF TaskList!Nowhere
<1>3. /\ DOMAIN t = TableFields /\ t.body = "loading" /\ t.list = list
      /\ t.elements = <<>> /\ t.selection = <<>> /\ t.removable = FALSE /\ t.addable = FALSE
      /\ t.bulk = [partly |-> FALSE, checked |-> FALSE, disabled |-> TRUE]
  BY <1>1, <1>2 DEF TaskList!Constructed, TableFields
<1>4. Len(<<>>) = 0
  BY EmptySeq
<1>5. Buttons(t)
  BY <1>3, <1>4 DEF Buttons, TaskList!BulkBox
<1>6. list.comps = <<>>
  BY <1>1, FreshComps
<1>7. Tidy(t) /\ Reflected(t)
  BY <1>1, <1>3, <1>6, EmptyList DEF Tidy, Reflected
<1> QED
  BY <1>1, <1>5, <1>7 DEF ShownOK

\* An answer that counts: the sets are empty when it comes.
LEMMA AnswerShows ==
  ASSUME NEW t, ShownOK(t), t.body # "rows", NEW filter, NEW tasks \in Lists
  PROVE  ShownOK(TaskList!Received(t, filter, tasks))
<1>1. PICK a, b, list, ticked :
        /\ a = [t EXCEPT !.epoch = 0] /\ b = [a EXCEPT !.elements = tasks]
        /\ list = FreshList(tasks) /\ ticked = ToSet(t.selection) \cap ToSet(tasks)
  OBVIOUS
<1>2. PICK v : v = TaskList!SendSelectionUpdate(b, TRUE)
  OBVIOUS
<1>3. PICK u : u = [v EXCEPT !.list = list, !.body = "rows", !.of = filter, !.ticked = ticked]
  OBVIOUS
<1>4. t.elements = <<>> /\ t.selection \in Lists /\ ToSet(t.selection) = {}
  BY EmptyList DEF ShownOK, Tidy
<1>5. DOMAIN b = TableFields /\ b.elements = tasks /\ b.selection = t.selection
  BY <1>1 DEF ShownOK, Tidy, TableFields
<1>6. DOMAIN v = TableFields /\ Buttons(v) /\ v.elements = tasks /\ v.selection = t.selection
  BY <1>5, <1>2, UpdateEffect
<1>7. /\ DOMAIN u = TableFields /\ u.body = "rows" /\ u.list = list /\ u.ticked = ticked
      /\ u.elements = v.elements /\ u.selection = v.selection
      /\ u.bulk = v.bulk /\ u.removable = v.removable /\ u.addable = v.addable
  BY <1>6, <1>3 DEF TableFields
<1>8. Buttons(u)
  BY <1>6, <1>7, SameButtons
<1>9. u.list.comps = tasks
  BY <1>1, <1>7, FreshComps
<1>10. Tidy(u)
  BY <1>1, <1>4, <1>6, <1>7 DEF Tidy
<1>11. Reflected(u)
  BY <1>1, <1>4, <1>6, <1>7, <1>9 DEF Reflected
<1>12. TaskList!Received(t, filter, tasks) = u
  <2>1. /\ TaskList!FreshList(tasks) = list
        /\ TaskList!ToSet(t.selection) \cap TaskList!ToSet(tasks) = ticked
    BY <1>1, SameLists
  <2> QED
    BY <1>1, <1>2, <1>3, <2>1 DEF TaskList!Received, TaskList!SetElements
<1> QED
  BY <1>8, <1>10, <1>11, <1>12 DEF ShownOK

LEMMA ErrorShows ==
  ASSUME NEW t, ShownOK(t), t.body # "rows"
  PROVE  ShownOK([t EXCEPT !.epoch = 0, !.body = "error"])
<1>1. PICK u : u = [t EXCEPT !.epoch = 0, !.body = "error"]
  OBVIOUS
<1>2. /\ DOMAIN u = TableFields /\ u.body = "error" /\ u.list = t.list
      /\ u.elements = t.elements /\ u.selection = t.selection
      /\ u.bulk = t.bulk /\ u.removable = t.removable /\ u.addable = t.addable
  BY <1>1 DEF ShownOK, Tidy, TableFields
<1>3. Buttons(u)
  BY <1>2, SameButtons DEF ShownOK
<1> QED
  BY <1>1, <1>2, <1>3 DEF ShownOK, Tidy, Reflected

\* What is selected is shown, and every answer lists tasks once.
SelectionInv ==
  /\ TableInv /\ ShownOK(table)
  /\ live \subseteq Tasks
  /\ \A r \in requests : r.tasks \in Lists

LEMMA ListedOnce ==
  ASSUME NEW S \in SUBSET Tasks
  PROVE  TaskList!SetToSeq(S) \in Lists
<1>1. PICK s : s = SetToSeq(S)
  OBVIOUS
<1>2. TaskList!SetToSeq(S) = s
  <2>1. TaskList!Cardinality(S) = Cardinality(S)
    BY DEF TaskList!Cardinality, Cardinality
  <2>2. \A f : TaskList!IsInjective(f) <=> IsInjective(f)
    BY DEF TaskList!IsInjective, IsInjective
  <2>3. (CHOOSE f \in [1..Cardinality(S) -> S] : TaskList!IsInjective(f)) = SetToSeq(S)
    BY <2>2 DEF SetToSeq, TaskList!IsInjective, IsInjective
  <2> QED
    BY <1>1, <2>1, <2>3 DEF TaskList!SetToSeq
<1>3. s \in Seq(Tasks) /\ IsInjective(s)
  BY <1>1, SetToSeqEnumerates
<1> QED
  BY <1>2, <1>3 DEF Lists

LEMMA InitSelection ==
  ASSUME TaskList!SelectInit
  PROVE  SelectionInv
<1>1. PICK t, tasks : /\ t = TaskList!Asked(TaskList!Constructed, "1")
                      /\ tasks = TaskList!SetToSeq(Matches["1"])
  OBVIOUS
<1>2. ShownOK(t) /\ t.body = "loading"
  BY <1>1, ConstructedShows, ConstructedTable, AskedShows
<1>3. tasks \in Lists
  BY <1>1, ListedOnce, DeskAssumption
<1>4. table = TaskList!Received(t, "1", tasks) /\ requests = {} /\ live = Tasks
  BY <1>1 DEF TaskList!SelectInit
<1>5. ShownOK(table)
  BY <1>2, <1>3, <1>4, AnswerShows
<1> QED
  BY <1>4, <1>5, InitTable DEF SelectionInv

LEMMA SetFilterKeepsSelection ==
  ASSUME SelectionInv, NEW f, TaskList!SetFilter(f)
  PROVE  ShownOK(table') /\ live' \subseteq Tasks /\ \A r \in requests' : r.tasks \in Lists
<1>1. PICK t, u, request : t = table /\ u = TaskList!Asked(t, f) /\ request = TaskList!RequestOf(u)
  OBVIOUS
<1>2. table' = u /\ requests' = requests \cup {request} /\ live' = live
  BY <1>1 DEF TaskList!SetFilter
<1>3. ShownOK(u)
  BY <1>1, AskedShows DEF SelectionInv, TableInv
<1>4. request.tasks = <<>>
  BY <1>1 DEF TaskList!RequestOf
<1> QED
  BY <1>2, <1>3, <1>4, EmptyList DEF SelectionInv

LEMMA ServeKeepsSelection ==
  ASSUME SelectionInv, NEW r \in requests, TaskList!Serve(r)
  PROVE  ShownOK(table') /\ live' \subseteq Tasks /\ \A s \in requests' : s.tasks \in Lists
<1>1. PICK tasks : tasks = TaskList!SetToSeq(Matches[r.filter] \cap live)
  OBVIOUS
<1>2. tasks \in Lists
  BY <1>1, ListedOnce DEF SelectionInv
<1>3. /\ \E s \in {[r EXCEPT !.outcome = "ok", !.tasks = tasks], [r EXCEPT !.outcome = "error"]} :
           requests' = (requests \ {r}) \cup {s}
      /\ table' = table /\ live' = live
  BY <1>1 DEF TaskList!Serve
<1>4. \A s \in {[r EXCEPT !.outcome = "ok", !.tasks = tasks], [r EXCEPT !.outcome = "error"]} :
        s.tasks \in Lists
  BY <1>2 DEF SelectionInv, TableInv, RequestOK
<1> QED
  BY <1>3, <1>4 DEF SelectionInv

LEMMA ReceiveKeepsSelection ==
  ASSUME SelectionInv, NEW r \in requests, TaskList!Receive(r)
  PROVE  ShownOK(table') /\ live' \subseteq Tasks /\ \A s \in requests' : s.tasks \in Lists
<1>1. requests' = requests \ {r} /\ live' = live /\ r.outcome # "none"
  BY DEF TaskList!Receive
<1>2. RequestOK(r) /\ r.tasks \in Lists
  BY DEF SelectionInv, TableInv
<1>3. PICK t, filter, tasks : t = table /\ filter = r.filter /\ tasks = r.tasks
  OBVIOUS
<1>4. table' = CASE ~TaskList!Current(r) -> t
                 [] TaskList!Current(r) /\ r.outcome = "error" ->
                      [t EXCEPT !.epoch = 0, !.body = "error"]
                 [] TaskList!Current(r) /\ r.outcome = "ok" -> TaskList!Received(t, filter, tasks)
  BY <1>3 DEF TaskList!Receive
<1>5. ShownOK(t) /\ tasks \in Lists
  BY <1>2, <1>3 DEF SelectionInv
<1>6. TaskList!Current(r) => t.body # "rows"
  <2>1. TaskList!Current(r) => t.epoch # 0
    BY <1>2, <1>3 DEF TaskList!Current, RequestOK
  <2> QED
    BY <1>3, <2>1 DEF SelectionInv, TableInv
<1>7. ShownOK(table')
  <2>1. CASE ~TaskList!Current(r)
    BY <1>4, <1>5, <2>1
  <2>2. CASE TaskList!Current(r) /\ r.outcome = "error"
    <3>1. table' = [t EXCEPT !.epoch = 0, !.body = "error"]
      BY <1>4, <2>2
    <3> QED
      BY <1>5, <1>6, <2>2, <3>1, ErrorShows
  <2>3. CASE TaskList!Current(r) /\ r.outcome = "ok"
    <3>1. table' = TaskList!Received(t, filter, tasks)
      BY <1>4, <2>3
    <3> QED
      BY <1>5, <1>6, <2>3, <3>1, AnswerShows
  <2> QED
    BY <1>1, <1>2, <2>1, <2>2, <2>3 DEF RequestOK
<1> QED
  BY <1>1, <1>7 DEF SelectionInv

\* A row stands for an element, and knows its place.
LEMMA RowOfElement ==
  ASSUME NEW t, ShownOK(t), NEW x, TaskList!Contains(t.list.rows, x)
  PROVE  /\ t.body = "rows" /\ x \in ToSet(t.elements)
         /\ \E comps \in Lists :
              /\ TaskList!PopComponent(t.list, t.list.place[x].i) = FreshList(comps)
              /\ ToSet(comps) = ToSet(t.elements) \ {x}
<1>1. PICK comps \in Lists : t.list = FreshList(comps)
  BY DEF ShownOK, Tidy
<1>2. t.list.comps = comps /\ t.list.rows = comps /\ comps \in Seq(Tasks) /\ IsInjective(comps)
  BY <1>1, FreshComps DEF Lists
<1>3. x \in ToSet(comps)
  BY <1>2, ContainsIsIn
<1>4. t.body = "rows" /\ ToSet(t.elements) = ToSet(comps)
  BY <1>2, <1>3, EmptyList DEF ShownOK, Tidy, Reflected
<1>5. PICK i \in DOMAIN comps : comps[i] = x
  BY <1>3 DEF ToSet
<1>6. t.list.place[x].i = i
  <2>1. ListOK(t.list)
    BY <1>1, <1>2, FreshIsList
  <2>2. t.list.place[comps[i]] = PositionOf(i, Len(comps))
    BY <1>2, <2>1 DEF ListOK
  <2> QED
    BY <1>5, <2>2 DEF PositionOf
<1>7. PICK rest : rest = RemoveAt(comps, i)
  OBVIOUS
<1>8. rest \in Lists /\ PopComponent(t.list, i) = FreshList(rest)
  BY <1>1, <1>7, FreshLists
<1>9. ToSet(rest) = ToSet(t.elements) \ {x}
  BY <1>2, <1>4, <1>5, <1>7, RemoveAtSet
<1>10. TaskList!PopComponent(t.list, i) = FreshList(rest)
  BY <1>8, SameLists
<1> QED
  BY <1>3, <1>4, <1>6, <1>8, <1>9, <1>10

LEMMA TickKeepsSelection ==
  ASSUME ShownOK(table), NEW x \in Tasks, TaskList!Tick(x)
  PROVE  ShownOK(table')
<1>1. PICK t, state : t = table /\ state = (x \notin t.ticked)
  OBVIOUS
<1>2. PICK ticked : ticked = IF state THEN t.ticked \cup {x} ELSE t.ticked \ {x}
  OBVIOUS
<1>3. PICK u : u = [t EXCEPT !.ticked = ticked]
  OBVIOUS
<1>4. TaskList!Contains(t.list.rows, x) /\ table' = TaskList!NotifySingle(u, x, state)
  BY <1>1, <1>2, <1>3 DEF TaskList!Tick
<1>5. ShownOK(t) /\ t.body = "rows" /\ x \in ToSet(t.elements)
  BY <1>1, <1>4, RowOfElement
<1>6. /\ DOMAIN u = TableFields /\ u.elements = t.elements /\ u.selection = t.selection
      /\ u.list = t.list /\ u.body = t.body /\ u.ticked = ticked
  BY <1>3, <1>5 DEF ShownOK, Tidy, TableFields
<1>7. Tidy(u) /\ ToSet(u.list.comps) = ToSet(u.elements)
  BY <1>5, <1>6 DEF ShownOK, Tidy, Reflected
<1>8. u.ticked = IF state THEN ToSet(u.selection) \cup {x} ELSE ToSet(u.selection) \ {x}
  BY <1>2, <1>5, <1>6 DEF ShownOK, Reflected
<1>9. state \in BOOLEAN /\ x \in ToSet(u.elements) /\ u.body = "rows"
  BY <1>1, <1>5, <1>6
<1> QED
  BY <1>4, <1>7, <1>8, <1>9, TickShows

LEMMA DeleteRowKeepsSelection ==
  ASSUME ShownOK(table), NEW x \in Tasks, TaskList!DeleteRow(x)
  PROVE  ShownOK(table')
<1>1. PICK t : t = table
  OBVIOUS
<1>2. PICK list, ticked : /\ list = TaskList!PopComponent(t.list, t.list.place[x].i)
                          /\ ticked = t.ticked \ {x}
  OBVIOUS
<1>3. PICK u : u = [t EXCEPT !.list = list, !.ticked = ticked]
  OBVIOUS
<1>4. TaskList!Contains(t.list.rows, x) /\ table' = TaskList!PopElement(u, x)
  <2>1. u = [table EXCEPT !.list = TaskList!PopComponent(@, table.list.place[x].i),
                          !.ticked = @ \ {x}]
    BY <1>1, <1>2, <1>3 DEF ShownOK, Tidy, TableFields
  <2> QED
    BY <1>1, <2>1 DEF TaskList!DeleteRow
<1>5. ShownOK(t) /\ t.body = "rows"
  BY <1>1, <1>4, RowOfElement
<1>6. PICK comps \in Lists : list = FreshList(comps) /\ ToSet(comps) = ToSet(t.elements) \ {x}
  BY <1>1, <1>2, <1>4, RowOfElement
<1>7. /\ DOMAIN u = TableFields /\ u.elements = t.elements /\ u.selection = t.selection
      /\ u.list = list /\ u.body = t.body /\ u.ticked = ticked
  BY <1>3, <1>5 DEF ShownOK, Tidy, TableFields
<1>8. /\ u.elements \in Lists /\ u.selection \in Lists
      /\ ToSet(u.selection) \subseteq ToSet(u.elements)
  BY <1>5, <1>7 DEF ShownOK, Tidy
<1>9. u.ticked = ToSet(u.selection) \ {x}
  BY <1>2, <1>5, <1>7 DEF ShownOK, Reflected
<1>10. u.list = FreshList(comps) /\ u.body = "rows" /\ ToSet(comps) = ToSet(u.elements) \ {x}
  BY <1>5, <1>6, <1>7
<1> QED
  BY <1>4, <1>7, <1>8, <1>9, <1>10, PopShows

LEMMA RowsKeepSelection ==
  ASSUME SelectionInv,
         \/ \E x \in Tasks : TaskList!Tick(x) \/ TaskList!DeleteRow(x)
         \/ TaskList!TickAll \/ TaskList!DeleteSelected
  PROVE  ShownOK(table') /\ live' \subseteq Tasks /\ \A r \in requests' : r.tasks \in Lists
<1>1. live' = live /\ requests' = requests
  BY DEF TaskList!Tick, TaskList!DeleteRow, TaskList!TickAll, TaskList!DeleteSelected
<1>2. PICK t : t = table
  OBVIOUS
<1>3. ShownOK(t) /\ ShownOK(table)
  BY <1>2 DEF SelectionInv
<1>4. ASSUME NEW x \in Tasks, TaskList!Tick(x) \/ TaskList!DeleteRow(x) PROVE ShownOK(table')
  BY <1>3, <1>4, TickKeepsSelection, DeleteRowKeepsSelection
<1>5. CASE TaskList!TickAll
  <2>1. table' \in {TaskList!ClearSelection(t, FALSE), TaskList!SelectAll(t)}
    BY <1>2, <1>5 DEF TaskList!TickAll
  <2> QED
    BY <1>1, <1>3, <2>1, HeadShows DEF SelectionInv
<1>6. CASE TaskList!DeleteSelected
  <2>1. table' = TaskList!DeletedSelection(t)
    BY <1>2, <1>6 DEF TaskList!DeleteSelected
  <2> QED
    BY <1>1, <1>3, <2>1, HeadShows DEF SelectionInv
<1> QED
  BY <1>1, <1>4, <1>5, <1>6 DEF SelectionInv

LEMMA AddToKimKeepsSelection ==
  ASSUME SelectionInv, AddToKim
  PROVE  ShownOK(table') /\ live' \subseteq Tasks /\ \A r \in requests' : r.tasks \in Lists
<1>1. PICK u, request : /\ u = TaskList!Asked(TaskList!Constructed, "1")
                        /\ request = TaskList!RequestOf(u)
  OBVIOUS
<1>2. table' = u /\ requests' = {request} /\ live' = live
  BY <1>1 DEF AddToKim
<1>3. ShownOK(u)
  BY <1>1, ConstructedShows, ConstructedTable, AskedShows
<1>4. request.tasks = <<>>
  BY <1>1 DEF TaskList!RequestOf
<1> QED
  BY <1>2, <1>3, <1>4, EmptyList DEF SelectionInv

LEMMA SelectionIsKept ==
  ASSUME SelectionInv, [DeskNext]_deskVars
  PROVE  SelectionInv'
<1>1. TableInv'
  BY TableIsKept DEF SelectionInv
<1>2. CASE UNCHANGED listVars
  BY <1>1, <1>2 DEF SelectionInv, listVars
<1>3. CASE TaskList!UserStep
  BY <1>1, <1>3, SetFilterKeepsSelection, RowsKeepSelection DEF TaskList!UserStep, SelectionInv
<1>4. CASE TaskList!ServerStep
  <2>1. ASSUME NEW set, TaskList!BulkDelete(set) PROVE SelectionInv'
    BY <1>1, <2>1 DEF TaskList!BulkDelete, SelectionInv
  <2> QED
    BY <1>1, <1>4, <2>1, ServeKeepsSelection, ReceiveKeepsSelection
       DEF TaskList!ServerStep, SelectionInv
<1>5. CASE AddToKim
  BY <1>1, <1>5, AddToKimKeepsSelection DEF SelectionInv
<1> QED
  BY <1>2, <1>3, <1>4, <1>5 DEF DeskNext, AtTheList, deskVars

LEMMA InvShowsSelection ==
  ASSUME SelectionInv
  PROVE  SelectionIsShown
<1>1. PICK t : t = table
  OBVIOUS
<1>2. ShownOK(t)
  BY <1>1 DEF SelectionInv
<1>3. PICK comps \in Lists :
        t.list = FreshList(comps) /\ t.list.comps = comps /\ t.list.rows = comps
  BY <1>2, FreshComps DEF ShownOK, Tidy
<1>4. /\ TaskList!ToSet(t.selection) \subseteq TaskList!ToSet(t.elements)
      /\ TaskList!IsInjective(t.selection)
  <2>1. ToSet(t.selection) \subseteq ToSet(t.elements) /\ IsInjective(t.selection)
    BY <1>2 DEF ShownOK, Tidy, Lists
  <2>2. TaskList!IsInjective(t.selection)
    BY <2>1 DEF TaskList!IsInjective, IsInjective
  <2>3. /\ TaskList!ToSet(t.selection) = ToSet(t.selection)
        /\ TaskList!ToSet(t.elements) = ToSet(t.elements)
    BY SameLists
  <2> QED
    BY <2>1, <2>2, <2>3
<1>5. TaskList!Consistent(t.list)
  BY <1>3, SameLists DEF TaskList!Consistent
<1>6. t.body = "rows" => /\ TaskList!ToSet(t.list.rows) = TaskList!ToSet(t.elements)
                         /\ t.ticked = TaskList!ToSet(t.selection)
  BY <1>2, <1>3, SameLists DEF ShownOK, Reflected
<1>7. t.body # "rows" => t.elements = <<>>
  BY <1>2 DEF ShownOK, Tidy
<1>8. Buttons(t)
  BY <1>2 DEF ShownOK
<1> QED
  BY <1>1, <1>4, <1>5, <1>6, <1>7, <1>8
     DEF SelectionIsShown, TaskList!SelectionIsShown, Buttons

\* The boxes, the rows, the buttons and the box of the head show the selection,
\* whatever is ticked, deleted and asked for while answers are under way.
THEOREM SelectionStaysShown == DeskSpec => []SelectionIsShown
<1>1. DeskInit => SelectionInv
  BY InitSelection DEF DeskInit
<1>2. SelectionInv /\ [DeskNext]_deskVars => SelectionInv'
  BY SelectionIsKept
<1>3. SelectionInv => SelectionIsShown
  BY InvShowsSelection
<1> QED
  BY <1>1, <1>2, <1>3, PTL DEF DeskSpec
=============================================================================
