--------------------------- MODULE SequenceFacts ---------------------------
(***************************************************************************)
(* What leaving a line does to the others in it: lemmas about Tail and     *)
(* RemoveAt that the library does not state.                               *)
(***************************************************************************)
EXTENDS Integers, SequencesExt, Subsequences, SequenceTheorems, FunctionTheorems,
        FiniteSetTheorems, WellFoundedInduction, TLAPS

(* The first leaves: everybody else is still there. *)
LEMMA TailKeepsOthers ==
  ASSUME NEW S, NEW w \in Seq(S), w # << >>
  PROVE  /\ Tail(w) \in Seq(S)
         /\ \A i \in DOMAIN w : i # 1 =>
              \E j \in DOMAIN Tail(w) : Tail(w)[j] = w[i]
<1>1. /\ Tail(w) \in Seq(S) /\ Len(Tail(w)) = Len(w) - 1
      /\ \A j \in 1 .. Len(Tail(w)) : Tail(w)[j] = w[j + 1]
  BY HeadTailProperties
<1>2. DOMAIN w = 1 .. Len(w) /\ Len(w) \in Nat /\ DOMAIN Tail(w) = 1 .. Len(Tail(w))
  BY <1>1, LenProperties
<1>3. ASSUME NEW i \in DOMAIN w, i # 1
      PROVE  \E j \in DOMAIN Tail(w) : Tail(w)[j] = w[i]
  <2>1. i - 1 \in DOMAIN Tail(w) /\ Tail(w)[i - 1] = w[i]
    BY <1>1, <1>2, <1>3
  <2>. QED
    BY <2>1
<1>. QED
  BY <1>1, <1>3

(* The first k leave: element by element, the others. *)
LEMMA RestElements ==
  ASSUME NEW S, NEW w \in Seq(S), NEW k \in 0 .. Len(w)
  PROVE  /\ SubSeq(w, k + 1, Len(w)) \in Seq(S)
         /\ Len(SubSeq(w, k + 1, Len(w))) = Len(w) - k
         /\ \A j \in 1 .. Len(w) - k : SubSeq(w, k + 1, Len(w))[j] = w[j + k]
<1> DEFINE rest == SubSeq(w, k + 1, Len(w))
<1>1. Len(w) \in Nat /\ DOMAIN w = 1 .. Len(w) /\ k \in Nat /\ k <= Len(w)
  BY LenProperties
<1>2. \A j \in k + 1 .. Len(w) : w[j] \in S
  BY <1>1, ElementOfSeq
<1>3. /\ rest \in Seq(S)
      /\ Len(rest) = IF k + 1 <= Len(w) THEN Len(w) - (k + 1) + 1 ELSE 0
      /\ \A j \in 1 .. Len(w) - (k + 1) + 1 : rest[j] = w[(k + 1) + j - 1]
  BY <1>1, <1>2, SubSeqProperties
<1> HIDE DEF rest
<1>4. Len(w) - (k + 1) + 1 = Len(w) - k
  BY <1>1
<1>5. Len(rest) = Len(w) - k
  <2>1. Len(rest) = IF k + 1 <= Len(w) THEN Len(w) - (k + 1) + 1 ELSE 0
    BY <1>3
  <2>2. CASE k + 1 <= Len(w)
    <3>1. Len(rest) = Len(w) - (k + 1) + 1
      BY <2>1, <2>2
    <3>. QED
      BY <1>4, <3>1
  <2>3. CASE ~ (k + 1 <= Len(w))
    <3>1. Len(rest) = 0
      BY <2>1, <2>3
    <3>2. \A m, n \in Nat : m <= n /\ ~ (m + 1 <= n) => n - m = 0
      OBVIOUS
    <3>. QED
      BY <1>1, <2>3, <3>1, <3>2
  <2>. QED
    BY <2>2, <2>3
<1>6. ASSUME NEW j \in 1 .. Len(w) - k
      PROVE  rest[j] = w[j + k]
  <2>1. j \in 1 .. Len(w) - (k + 1) + 1
    BY <1>4
  <2>2. rest[j] = w[(k + 1) + j - 1]
    BY <1>3, <2>1
  <2>3. (k + 1) + j - 1 = j + k
    BY <1>1
  <2>. QED
    BY <2>2, <2>3
<1>. QED
  BY <1>3, <1>5, <1>6 DEF rest

(* RemoveAt, element by element. *)
LEMMA RemoveAtElements ==
  ASSUME NEW S, NEW w \in Seq(S), NEW i \in DOMAIN w
  PROVE  /\ RemoveAt(w, i) \in Seq(S)
         /\ Len(RemoveAt(w, i)) = Len(w) - 1
         /\ \A j \in 1 .. Len(w) - 1 :
              RemoveAt(w, i)[j] = IF j < i THEN w[j] ELSE w[j + 1]
<1> DEFINE left == SubSeq(w, 1, i - 1)
           right == SubSeq(w, i + 1, Len(w))
<1>1. i \in 1 .. Len(w) /\ Len(w) \in Nat /\ DOMAIN w = 1 .. Len(w)
  BY LenProperties
<1>2. \A j \in 1 .. Len(w) : w[j] \in S
  BY ElementOfSeq
<1>3. /\ left \in Seq(S) /\ Len(left) = i - 1
      /\ \A j \in 1 .. i - 1 : left[j] = w[j]
  <2>1. \A j \in 1 .. i - 1 : w[j] \in S
    BY <1>1, <1>2
  <2>2. /\ left \in Seq(S) /\ Len(left) = IF 1 <= i - 1 THEN (i - 1) - 1 + 1 ELSE 0
        /\ \A j \in 1 .. (i - 1) - 1 + 1 : left[j] = w[1 + j - 1]
    BY <1>1, <2>1, SubSeqProperties
  <2>. QED
    BY <1>1, <2>2
<1>4. /\ right \in Seq(S) /\ Len(right) = Len(w) - i
      /\ \A j \in 1 .. Len(w) - i : right[j] = w[i + j]
  <2>1. \A j \in i + 1 .. Len(w) : w[j] \in S
    BY <1>1, <1>2
  <2>2. /\ right \in Seq(S) /\ Len(right) = IF i + 1 <= Len(w) THEN Len(w) - (i + 1) + 1 ELSE 0
        /\ \A j \in 1 .. Len(w) - (i + 1) + 1 : right[j] = w[(i + 1) + j - 1]
    BY <1>1, <2>1, SubSeqProperties
  <2>. QED
    BY <1>1, <2>2, SMTT(30)
<1> HIDE DEF left, right
<1>5. /\ left \o right \in Seq(S)
      /\ Len(left \o right) = Len(left) + Len(right)
      /\ \A j \in 1 .. Len(left) + Len(right) :
           (left \o right)[j] = IF j <= Len(left) THEN left[j] ELSE right[j - Len(left)]
  BY <1>3, <1>4, ConcatProperties
<1>6. ASSUME NEW j \in 1 .. Len(w) - 1
      PROVE  (left \o right)[j] = IF j < i THEN w[j] ELSE w[j + 1]
  <2>1. CASE j < i
    <3>1. j \in 1 .. i - 1 /\ j \in 1 .. Len(left) + Len(right)
      BY <1>1, <1>3, <1>4, <2>1
    <3>2. (left \o right)[j] = left[j] /\ left[j] = w[j]
      BY <1>1, <1>3, <1>5, <3>1
    <3>. QED
      BY <2>1, <3>2
  <2>2. CASE ~ (j < i)
    <3>0. j \in 1 .. Len(left) + Len(right) /\ ~ (j <= Len(left)) /\ Len(left) = i - 1
      BY <1>1, <1>3, <1>4, <2>2
    <3>1. (left \o right)[j] = right[j - (i - 1)]
      BY <1>5, <3>0
    <3>2. j - (i - 1) \in 1 .. Len(w) - i /\ i + (j - (i - 1)) = j + 1
      BY <1>1, <2>2
    <3>3. right[j - (i - 1)] = w[i + (j - (i - 1))]
      BY <1>4, <3>2
    <3>4. w[i + (j - (i - 1))] = w[j + 1]
      BY <3>2
    <3>. QED
      BY <2>2, <3>1, <3>3, <3>4
  <2>. QED
    BY <2>1, <2>2
<1>7. RemoveAt(w, i) = left \o right
  BY DEF RemoveAt, left, right
<1>8. Len(left \o right) = Len(w) - 1
  BY <1>1, <1>3, <1>4, <1>5
<1>. QED
  BY <1>5, <1>6, <1>7, <1>8

(* Somebody leaves: everybody else is still there, and the first is first. *)
LEMMA RemoveAtKeepsOthers ==
  ASSUME NEW S, NEW w \in Seq(S), NEW i \in DOMAIN w
  PROVE  /\ RemoveAt(w, i) \in Seq(S)
         /\ \A k \in DOMAIN w : k # i =>
              \E j \in DOMAIN RemoveAt(w, i) : RemoveAt(w, i)[j] = w[k]
         /\ i # 1 => RemoveAt(w, i) # << >> /\ Head(RemoveAt(w, i)) = Head(w)
<1> DEFINE r == RemoveAt(w, i)
<1>1. /\ r \in Seq(S) /\ Len(r) = Len(w) - 1
      /\ \A j \in 1 .. Len(w) - 1 : r[j] = IF j < i THEN w[j] ELSE w[j + 1]
  BY RemoveAtElements
<1> HIDE DEF r
<1>2. DOMAIN w = 1 .. Len(w) /\ Len(w) \in Nat /\ i \in 1 .. Len(w) /\ DOMAIN r = 1 .. Len(r)
  BY <1>1, LenProperties
<1>3. ASSUME NEW k \in DOMAIN w, k # i
      PROVE  \E j \in DOMAIN r : r[j] = w[k]
  <2>1. CASE k < i
    BY <1>1, <1>2, <2>1
  <2>2. CASE k > i
    <3>1. k - 1 \in DOMAIN r /\ r[k - 1] = w[k]
      BY <1>1, <1>2, <2>2
    <3>. QED
      BY <3>1
  <2>. QED
    BY <1>2, <1>3, <2>1, <2>2
<1>4. ASSUME i # 1
      PROVE  r # << >> /\ Head(r) = Head(w)
  <2>1. 1 \in 1 .. Len(w) - 1 /\ 1 < i
    BY <1>2, <1>4
  <2>2. r[1] = w[1]
    BY <1>1, <2>1
  <2>3. r # << >> /\ w # << >>
    BY <1>1, <2>1, EmptySeq
  <2>. QED
    BY <1>1, <2>2, <2>3 DEF r
<1>. QED
  BY <1>1, <1>3, <1>4 DEF r


(* A line with somebody in front of it. *)
LEMMA FrontElements ==
  ASSUME NEW S, NEW w \in Seq(S), NEW d \in S
  PROVE  /\ << d >> \o w \in Seq(S)
         /\ Len(<< d >> \o w) = Len(w) + 1
         /\ (<< d >> \o w)[1] = d
         /\ \A i \in 1 .. Len(w) : (<< d >> \o w)[i + 1] = w[i]
<1>1. << d >> \in Seq(S) /\ Len(<< d >>) = 1 /\ << d >>[1] = d
  OBVIOUS
<1>2. Len(w) \in Nat
  BY LenProperties
<1> DEFINE f == << d >>
<1>3. f \in Seq(S) /\ Len(f) = 1 /\ f[1] = d
  BY <1>1
<1> HIDE DEF f
<1>4. /\ f \o w \in Seq(S)
      /\ Len(f \o w) = 1 + Len(w)
      /\ \A i \in 1 .. 1 + Len(w) : (f \o w)[i] = IF i <= 1 THEN f[i] ELSE w[i - 1]
  <2>1. /\ f \o w \in Seq(S)
        /\ Len(f \o w) = Len(f) + Len(w)
        /\ \A i \in 1 .. Len(f) + Len(w) :
             (f \o w)[i] = IF i <= Len(f) THEN f[i] ELSE w[i - Len(f)]
    BY <1>3, ConcatProperties
  <2>. QED
    BY <1>3, <2>1
<1>5. (f \o w)[1] = d
  BY <1>2, <1>3, <1>4
<1>6. \A i \in 1 .. Len(w) : (f \o w)[i + 1] = w[i]
  BY <1>2, <1>4
<1>. QED
  BY <1>2, <1>4, <1>5, <1>6 DEF f

(* The one in front goes: the line as it was. *)
LEMMA FrontLeaves ==
  ASSUME NEW S, NEW w \in Seq(S), NEW d \in S
  PROVE  /\ << d >> \o w # << >>
         /\ Head(<< d >> \o w) = d
         /\ Tail(<< d >> \o w) = w
<1> DEFINE v == << d >> \o w
<1>1. /\ v \in Seq(S) /\ Len(v) = Len(w) + 1 /\ v[1] = d
      /\ \A i \in 1 .. Len(w) : v[i + 1] = w[i]
  BY FrontElements
<1> HIDE DEF v
<1>2. Len(w) \in Nat
  BY LenProperties
<1>3. v # << >>
  BY <1>1, <1>2, EmptySeq
<1>4. /\ Tail(v) \in Seq(S) /\ Len(Tail(v)) = Len(v) - 1
      /\ \A i \in 1 .. Len(Tail(v)) : Tail(v)[i] = v[i + 1]
  BY <1>1, <1>3, HeadTailProperties
<1>5. Len(Tail(v)) = Len(w)
  BY <1>1, <1>2, <1>4
<1>6. \A i \in 1 .. Len(Tail(v)) : Tail(v)[i] = w[i]
  BY <1>1, <1>4, <1>5
<1>7. Tail(v) = w
  BY <1>4, <1>5, <1>6, SeqEqual
<1>8. Head(v) = d
  BY <1>1, <1>3
<1>. QED
  BY <1>3, <1>7, <1>8 DEF v

(* The first of a line steps in front of the rest: the line as it was. *)
LEMMA HeadInFront ==
  ASSUME NEW S, NEW w \in Seq(S), w # << >>
  PROVE  << Head(w) >> \o Tail(w) = w
<1> DEFINE d == Head(w)
           t == Tail(w)
<1>1. /\ d \in S /\ t \in Seq(S) /\ Len(t) = Len(w) - 1
      /\ \A i \in 1 .. Len(t) : t[i] = w[i + 1]
      /\ d = w[1]
  BY HeadTailProperties
<1> HIDE DEF d, t
<1>2. Len(w) \in Nat
  BY LenProperties
<1> DEFINE v == << d >> \o t
<1>3. /\ v \in Seq(S) /\ Len(v) = Len(t) + 1 /\ v[1] = d
      /\ \A i \in 1 .. Len(t) : v[i + 1] = t[i]
  BY <1>1, FrontElements
<1> HIDE DEF v
<1>4. Len(v) = Len(w)
  BY <1>1, <1>2, <1>3
<1>5. ASSUME NEW i \in 1 .. Len(v)
      PROVE  v[i] = w[i]
  <2>1. CASE i = 1
    BY <1>1, <1>3, <2>1
  <2>2. CASE i # 1
    <3>1. i - 1 \in 1 .. Len(t) /\ (i - 1) + 1 = i
      BY <1>1, <1>2, <1>4, <2>2
    <3>2. v[(i - 1) + 1] = t[i - 1] /\ t[i - 1] = w[(i - 1) + 1]
      BY <1>1, <1>3, <3>1
    <3>. QED
      BY <3>1, <3>2
  <2>. QED
    BY <2>1, <2>2
<1>6. v = w
  BY <1>3, <1>4, <1>5, SeqEqual
<1>. QED
  BY <1>6 DEF v, d, t

(* Joining a line does not depend on who is in front of it. *)
LEMMA FrontAppend ==
  ASSUME NEW S, NEW w \in Seq(S), NEW d \in S, NEW e \in S
  PROVE  Append(<< d >> \o w, e) = << d >> \o Append(w, e)
<1> DEFINE v == << d >> \o w
           x == Append(w, e)
           y == << d >> \o x
<1>1. /\ v \in Seq(S) /\ Len(v) = Len(w) + 1 /\ v[1] = d
      /\ \A i \in 1 .. Len(w) : v[i + 1] = w[i]
  BY FrontElements
<1>2. /\ x \in Seq(S) /\ Len(x) = Len(w) + 1 /\ x[Len(w) + 1] = e
      /\ \A i \in 1 .. Len(w) : x[i] = w[i]
  BY AppendProperties
<1>3. /\ y \in Seq(S) /\ Len(y) = Len(x) + 1 /\ y[1] = d
      /\ \A i \in 1 .. Len(x) : y[i + 1] = x[i]
  BY <1>2, FrontElements
<1>4. Len(w) \in Nat
  BY LenProperties
<1> HIDE DEF v, x, y
<1>5. /\ Append(v, e) \in Seq(S) /\ Len(Append(v, e)) = Len(v) + 1
      /\ Append(v, e)[Len(v) + 1] = e
      /\ \A i \in 1 .. Len(v) : Append(v, e)[i] = v[i]
  BY <1>1, AppendProperties
<1>6. Len(Append(v, e)) = Len(y)
  BY <1>1, <1>2, <1>3, <1>5
<1>7. ASSUME NEW i \in 1 .. Len(y)
      PROVE  Append(v, e)[i] = y[i]
  <2>1. Len(y) = Len(w) + 2 /\ Len(v) = Len(w) + 1 /\ Len(x) = Len(w) + 1
    BY <1>1, <1>2, <1>3, <1>4
  <2>2. CASE i = 1
    BY <1>1, <1>3, <1>4, <1>5, <2>1, <2>2
  <2>3. CASE i \in 2 .. Len(w) + 1
    <3>1. i - 1 \in 1 .. Len(w) /\ i - 1 \in 1 .. Len(x) /\ i \in 1 .. Len(v) /\ (i - 1) + 1 = i
      BY <1>4, <2>1, <2>3
    <3>2. Append(v, e)[i] = v[i] /\ v[(i - 1) + 1] = w[i - 1]
      BY <1>1, <1>5, <3>1
    <3>3. y[(i - 1) + 1] = x[i - 1] /\ x[i - 1] = w[i - 1]
      BY <1>2, <1>3, <3>1
    <3>. QED
      BY <3>1, <3>2, <3>3
  <2>4. CASE i = Len(w) + 2
    <3>1. Len(w) + 1 \in 1 .. Len(x) /\ i = Len(v) + 1 /\ i = (Len(w) + 1) + 1
      BY <1>4, <2>1, <2>4
    <3>2. y[(Len(w) + 1) + 1] = x[Len(w) + 1]
      BY <1>3, <3>1
    <3>3. Append(v, e)[i] = e
      BY <1>5, <3>1
    <3>4. y[i] = e
      BY <1>2, <3>1, <3>2
    <3>. QED
      BY <3>3, <3>4
  <2>. QED
    BY <1>4, <2>1, <2>2, <2>3, <2>4
<1>8. Append(v, e) = y
  BY <1>3, <1>5, <1>6, <1>7, SeqEqual
<1>. QED
  BY <1>8 DEF v, x, y

(* Leaving a line does not depend on who is in front of it. *)
LEMMA FrontRemoveAt ==
  ASSUME NEW S, NEW w \in Seq(S), NEW d \in S, NEW i \in DOMAIN w
  PROVE  /\ i + 1 \in DOMAIN (<< d >> \o w)
         /\ (<< d >> \o w)[i + 1] = w[i]
         /\ RemoveAt(<< d >> \o w, i + 1) = << d >> \o RemoveAt(w, i)
<1> DEFINE v == << d >> \o w
           r == RemoveAt(w, i)
           y == << d >> \o r
           q == RemoveAt(v, i + 1)
<1>1. /\ v \in Seq(S) /\ Len(v) = Len(w) + 1 /\ v[1] = d
      /\ \A j \in 1 .. Len(w) : v[j + 1] = w[j]
  BY FrontElements
<1>2. /\ r \in Seq(S) /\ Len(r) = Len(w) - 1
      /\ \A j \in 1 .. Len(w) - 1 : r[j] = IF j < i THEN w[j] ELSE w[j + 1]
  BY RemoveAtElements
<1>3. /\ y \in Seq(S) /\ Len(y) = Len(r) + 1 /\ y[1] = d
      /\ \A j \in 1 .. Len(r) : y[j + 1] = r[j]
  BY <1>2, FrontElements
<1>4. Len(w) \in Nat /\ i \in 1 .. Len(w)
  BY LenProperties
<1> HIDE DEF v, r, y
<1>5. i + 1 \in DOMAIN v /\ DOMAIN v = 1 .. Len(v)
  BY <1>1, <1>4, LenProperties
<1>6. /\ q \in Seq(S) /\ Len(q) = Len(v) - 1
      /\ \A j \in 1 .. Len(v) - 1 : q[j] = IF j < i + 1 THEN v[j] ELSE v[j + 1]
  BY <1>1, <1>5, RemoveAtElements
<1> HIDE DEF q
<1>7. Len(q) = Len(y) /\ Len(y) = Len(w)
  BY <1>1, <1>2, <1>3, <1>4, <1>6
<1>8. ASSUME NEW j \in 1 .. Len(y)
      PROVE  q[j] = y[j]
  <2>0. Len(v) - 1 = Len(w) /\ j \in 1 .. Len(v) - 1 /\ Len(r) = Len(w) - 1
    BY <1>1, <1>2, <1>4, <1>7
  <2>1. CASE j = 1
    <3>1. j < i + 1
      BY <1>4, <2>1
    <3>. QED
      BY <1>1, <1>3, <1>6, <2>0, <2>1, <3>1
  <2>2. CASE j # 1
    <3>1. /\ j - 1 \in 1 .. Len(w) /\ j - 1 \in 1 .. Len(r) /\ (j - 1) + 1 = j
          /\ j - 1 \in 1 .. Len(w) - 1 /\ j \in 1 .. Len(w)
      BY <1>4, <1>7, <2>0, <2>2
    <3>2. y[j] = r[j - 1] /\ v[j] = w[j - 1] /\ v[j + 1] = w[j]
      <4>1. y[(j - 1) + 1] = r[j - 1] /\ v[(j - 1) + 1] = w[j - 1]
        BY <1>1, <1>3, <3>1
      <4>. QED
        BY <1>1, <3>1, <4>1
    <3>3. r[j - 1] = IF j - 1 < i THEN w[j - 1] ELSE w[(j - 1) + 1]
      BY <1>2, <3>1
    <3>4. j - 1 < i <=> j < i + 1
      BY <1>4
    <3>. QED
      BY <1>6, <2>0, <3>1, <3>2, <3>3, <3>4
  <2>. QED
    BY <2>1, <2>2
<1>9. q = y
  BY <1>3, <1>6, <1>7, <1>8, SeqEqual
<1>. QED
  BY <1>1, <1>4, <1>5, <1>9 DEF v, r, y, q

(* To leave from the first place is to take the tail. *)
LEMMA RemoveHead ==
  ASSUME NEW S, NEW w \in Seq(S), w # << >>
  PROVE  RemoveAt(w, 1) = Tail(w) /\ 1 \in DOMAIN w
<1>1. Len(w) \in Nat /\ Len(w) # 0 /\ DOMAIN w = 1 .. Len(w)
  BY LenProperties, EmptySeq
<1>2. 1 \in DOMAIN w
  BY <1>1
<1>3. /\ RemoveAt(w, 1) \in Seq(S) /\ Len(RemoveAt(w, 1)) = Len(w) - 1
      /\ \A j \in 1 .. Len(w) - 1 : RemoveAt(w, 1)[j] = IF j < 1 THEN w[j] ELSE w[j + 1]
  BY <1>2, RemoveAtElements
<1>4. /\ Tail(w) \in Seq(S) /\ Len(Tail(w)) = Len(w) - 1
      /\ \A j \in 1 .. Len(Tail(w)) : Tail(w)[j] = w[j + 1]
  BY HeadTailProperties
<1>. QED
  BY <1>1, <1>3, <1>4, SeqEqual

(* Nobody occurs twice in a line, and nobody will by leaving it. *)
LEMMA RemoveAtOnce ==
  ASSUME NEW S, NEW w \in Seq(S), NEW i \in DOMAIN w,
         \A j, k \in DOMAIN w : w[j] = w[k] => j = k
  PROVE  /\ \A j, k \in DOMAIN RemoveAt(w, i) :
              RemoveAt(w, i)[j] = RemoveAt(w, i)[k] => j = k
         /\ \A j \in DOMAIN RemoveAt(w, i) :
              /\ RemoveAt(w, i)[j] # w[i]
              /\ \E k \in DOMAIN w : RemoveAt(w, i)[j] = w[k]
<1> DEFINE r == RemoveAt(w, i)
<1>1. /\ r \in Seq(S) /\ Len(r) = Len(w) - 1
      /\ \A j \in 1 .. Len(w) - 1 : r[j] = IF j < i THEN w[j] ELSE w[j + 1]
  BY RemoveAtElements
<1> HIDE DEF r
<1>2. /\ DOMAIN w = 1 .. Len(w) /\ Len(w) \in Nat /\ i \in 1 .. Len(w)
      /\ DOMAIN r = 1 .. Len(w) - 1
  BY <1>1, LenProperties
<1> DEFINE old(j) == IF j < i THEN j ELSE j + 1
<1>3. \A j \in DOMAIN r : old(j) \in DOMAIN w /\ old(j) # i /\ r[j] = w[old(j)]
  BY <1>1, <1>2
<1>4. \A j, k \in DOMAIN r : old(j) = old(k) => j = k
  BY <1>2
<1> HIDE DEF old
<1>. QED
  BY <1>2, <1>3, <1>4 DEF r

(* The same when the first of the line leaves. *)
LEMMA TailOnce ==
  ASSUME NEW S, NEW w \in Seq(S), w # << >>,
         \A j, k \in DOMAIN w : w[j] = w[k] => j = k
  PROVE  /\ \A j, k \in DOMAIN Tail(w) : Tail(w)[j] = Tail(w)[k] => j = k
         /\ \A j \in DOMAIN Tail(w) :
              /\ Tail(w)[j] # Head(w)
              /\ \E k \in DOMAIN w : Tail(w)[j] = w[k]
<1> DEFINE t == Tail(w)
<1>1. /\ t \in Seq(S) /\ Len(t) = Len(w) - 1
      /\ \A j \in 1 .. Len(t) : t[j] = w[j + 1]
      /\ Head(w) = w[1]
  BY HeadTailProperties
<1> HIDE DEF t
<1>2. DOMAIN w = 1 .. Len(w) /\ Len(w) \in Nat /\ DOMAIN t = 1 .. Len(w) - 1 /\ Len(w) # 0
  BY <1>1, LenProperties, EmptySeq
<1>3. \A j \in DOMAIN t : j + 1 \in DOMAIN w /\ j + 1 # 1 /\ t[j] = w[j + 1]
  BY <1>1, <1>2
<1>4. 1 \in DOMAIN w
  BY <1>2
<1>5. \A j, k \in DOMAIN t : j + 1 = k + 1 => j = k
  BY <1>2
<1>. QED
  BY <1>1, <1>3, <1>4, <1>5 DEF t

(* Joining a line one is not in. *)
LEMMA AppendOnce ==
  ASSUME NEW S, NEW w \in Seq(S), NEW e \in S,
         \A j, k \in DOMAIN w : w[j] = w[k] => j = k,
         \A j \in DOMAIN w : w[j] # e
  PROVE  /\ Append(w, e) \in Seq(S)
         /\ \A j, k \in DOMAIN Append(w, e) : Append(w, e)[j] = Append(w, e)[k] => j = k
         /\ \A j \in DOMAIN Append(w, e) :
              Append(w, e)[j] = e \/ \E k \in DOMAIN w : Append(w, e)[j] = w[k]
<1> DEFINE x == Append(w, e)
<1>1. /\ x \in Seq(S) /\ Len(x) = Len(w) + 1 /\ x[Len(w) + 1] = e
      /\ \A i \in 1 .. Len(w) : x[i] = w[i]
  BY AppendProperties
<1> HIDE DEF x
<1>2. DOMAIN w = 1 .. Len(w) /\ Len(w) \in Nat /\ DOMAIN x = 1 .. Len(w) + 1
  BY <1>1, LenProperties
<1>3. \A j \in DOMAIN x :
        (j = Len(w) + 1 /\ x[j] = e) \/ (j \in DOMAIN w /\ x[j] = w[j])
  BY <1>1, <1>2
<1>. QED
  BY <1>1, <1>3 DEF x

(* Who is in a line after somebody joined it or left it. *)
LEMMA LineSets ==
  ASSUME NEW S, NEW w \in Seq(S)
  PROVE  /\ ToSet(w) \subseteq S
         /\ \A e \in S : ToSet(Append(w, e)) = ToSet(w) \cup {e}
         /\ w # << >> => Tail(w) \in Seq(S) /\ ToSet(Tail(w)) \subseteq ToSet(w) /\ Head(w) \in ToSet(w)
         /\ \A i \in DOMAIN w : RemoveAt(w, i) \in Seq(S) /\ ToSet(RemoveAt(w, i)) \subseteq ToSet(w)
<1>1. DOMAIN w = 1 .. Len(w) /\ Len(w) \in Nat
  BY LenProperties
<1>2. ToSet(w) \subseteq S
  BY <1>1, ElementOfSeq DEF ToSet
<1>3. ASSUME NEW e \in S
      PROVE  ToSet(Append(w, e)) = ToSet(w) \cup {e}
  <2> DEFINE x == Append(w, e)
  <2>1. /\ x \in Seq(S) /\ Len(x) = Len(w) + 1 /\ x[Len(w) + 1] = e
        /\ \A i \in 1 .. Len(w) : x[i] = w[i]
    BY AppendProperties
  <2> HIDE DEF x
  <2>2. DOMAIN x = 1 .. Len(w) + 1
    BY <2>1, LenProperties
  <2>3. \A i \in DOMAIN x : i = Len(w) + 1 \/ i \in DOMAIN w
    BY <1>1, <2>2
  <2>4. Len(w) + 1 \in DOMAIN x /\ \A i \in DOMAIN w : i \in DOMAIN x
    BY <1>1, <2>2
  <2>. QED
    BY <1>1, <2>1, <2>3, <2>4 DEF ToSet, x
<1>4. ASSUME w # << >>
      PROVE  Tail(w) \in Seq(S) /\ ToSet(Tail(w)) \subseteq ToSet(w) /\ Head(w) \in ToSet(w)
  <2> DEFINE t == Tail(w)
  <2>1. /\ t \in Seq(S) /\ Len(t) = Len(w) - 1 /\ \A i \in 1 .. Len(t) : t[i] = w[i + 1]
        /\ Head(w) = w[1]
    BY <1>4, HeadTailProperties
  <2> HIDE DEF t
  <2>2. DOMAIN t = 1 .. Len(w) - 1 /\ Len(w) # 0
    BY <1>4, <2>1, LenProperties, EmptySeq
  <2>3. 1 \in DOMAIN w /\ \A i \in DOMAIN t : i + 1 \in DOMAIN w /\ t[i] = w[i + 1]
    BY <1>1, <2>1, <2>2
  <2>. QED
    BY <2>1, <2>3 DEF ToSet, t
<1>5. ASSUME NEW i \in DOMAIN w
      PROVE  RemoveAt(w, i) \in Seq(S) /\ ToSet(RemoveAt(w, i)) \subseteq ToSet(w)
  <2> DEFINE r == RemoveAt(w, i)
  <2>1. /\ r \in Seq(S) /\ Len(r) = Len(w) - 1
        /\ \A j \in 1 .. Len(w) - 1 : r[j] = IF j < i THEN w[j] ELSE w[j + 1]
    BY RemoveAtElements
  <2> HIDE DEF r
  <2>2. DOMAIN r = 1 .. Len(w) - 1
    BY <1>1, <2>1, LenProperties
  <2>3. \A j \in DOMAIN r : \E k \in DOMAIN w : r[j] = w[k]
    <3> SUFFICES ASSUME NEW j \in DOMAIN r PROVE \E k \in DOMAIN w : r[j] = w[k]
      OBVIOUS
    <3>1. j \in DOMAIN w /\ j + 1 \in DOMAIN w
      BY <1>1, <2>2
    <3>. QED
      BY <2>1, <2>2, <3>1
  <2>. QED
    BY <2>1, <2>3 DEF ToSet, r
<1>. QED
  BY <1>2, <1>3, <1>4, <1>5

-----------------------------------------------------------------------------
(* Subsequences *)

(* Induction over numbers, without an operator for what is shown: a set of *)
(* numbers has a least one, as a family of finite sets has a smallest.     *)
LEMMA LeastNumber ==
  ASSUME NEW T \in SUBSET Nat, T # {}
  PROVE  \E m \in T : \A k \in T : m <= k
<1> DEFINE below == {0 .. t : t \in T}
<1>1. below \subseteq FiniteSubsetsOf(Nat) /\ below # {}
  <2>1. ASSUME NEW t \in T PROVE 0 .. t \in FiniteSubsetsOf(Nat)
    <3>1. t \in Int /\ 0 .. t \subseteq Nat
      OBVIOUS
    <3> QED  BY <3>1, FS_Interval DEF FiniteSubsetsOf
  <2> QED  BY <2>1
<1>2. \E x \in below : \A y \in below : << y, x >> \notin StrictSubsetOrdering(Nat)
  <2>1. IsWellFoundedOn(StrictSubsetOrdering(Nat), FiniteSubsetsOf(Nat))
    BY FS_StrictSubsetOrderingWellFounded
  <2> HIDE DEF below
  <2> QED  BY <1>1, <2>1, WFMin
<1>3. PICK m \in T : \A k \in T : << 0 .. k, 0 .. m >> \notin StrictSubsetOrdering(Nat)
  BY <1>2
<1>4. ASSUME NEW k \in T, ~ (m <= k) PROVE FALSE
  <2>1. m \in Nat /\ k \in Nat /\ k < m
    BY <1>4
  <2>2. 0 .. k \subseteq 0 .. m /\ m \in 0 .. m /\ m \notin 0 .. k
    BY <2>1
  <2>3. 0 .. k \in SUBSET Nat /\ 0 .. m \in SUBSET Nat
    BY <2>1
  <2>4. 0 .. k # 0 .. m
    BY <2>2
  <2>5. << 0 .. k, 0 .. m >> \in StrictSubsetOrdering(Nat)
    BY <2>2, <2>3, <2>4 DEF StrictSubsetOrdering
  <2> QED  BY <1>3, <2>5
<1> QED  BY <1>4

(* Ranks grow with places, by one at most.                                 *)
LEMMA Ranks ==
  ASSUME NEW N \in Nat, NEW I \in SUBSET (1 .. N)
  PROVE  /\ IsFiniteSet(I) /\ Cardinality(I) \in Nat
         /\ \A i \in Nat : Rank(i, I) \in Nat /\ Rank(i, I) <= Cardinality(I)
         /\ Rank(0, I) = 0 /\ Rank(N, I) = Cardinality(I)
         /\ \A i \in Nat : Rank(i + 1, I) = IF i + 1 \in I THEN Rank(i, I) + 1 ELSE Rank(i, I)
         /\ \A i, j \in I : i < j => Rank(i, I) < Rank(j, I)
         /\ \A i \in I : Rank(i, I) \in 1 .. Cardinality(I)
<1> DEFINE upto(i) == {j \in I : j <= i}
<1>0. \A j \in I : j \in Nat /\ 1 <= j /\ j <= N
  OBVIOUS
<1>1. IsFiniteSet(I) /\ Cardinality(I) \in Nat
  <2>1. IsFiniteSet(1 .. N)
    BY FS_Interval
  <2>2. IsFiniteSet(I)
    BY <2>1, FS_Subset
  <2> QED  BY <2>2, FS_CardinalityType
<1>2. \A i : /\ IsFiniteSet(upto(i)) /\ Cardinality(upto(i)) \in Nat
             /\ Cardinality(upto(i)) <= Cardinality(I)
  <2> TAKE i
  <2>1. upto(i) \subseteq I
    OBVIOUS
  <2> HIDE DEF upto
  <2>2. IsFiniteSet(upto(i)) /\ Cardinality(upto(i)) <= Cardinality(I)
    BY <1>1, <2>1, FS_Subset
  <2> QED  BY <2>2, FS_CardinalityType
<1>3. upto(0) = {} /\ upto(N) = I
  <2>1. \A j \in I : ~ (j <= 0) /\ j <= N
    BY <1>0
  <2> QED  BY <2>1
<1>4. ASSUME NEW i \in Nat
      PROVE  Cardinality(upto(i + 1)) = IF i + 1 \in I THEN Cardinality(upto(i)) + 1
                                                       ELSE Cardinality(upto(i))
  <2>1. CASE i + 1 \in I
    <3>0. (\A j \in I : j <= i + 1 <=> j <= i \/ j = i + 1) /\ ~ (i + 1 <= i)
      BY <1>0
    <3>1. upto(i + 1) = upto(i) \cup {i + 1} /\ i + 1 \notin upto(i)
      BY <2>1, <3>0
    <3> DEFINE a == upto(i)
               x == i + 1
    <3>2. IsFiniteSet(a) /\ x \notin a /\ upto(i + 1) = a \cup {x}
      BY <1>2, <3>1
    <3> HIDE DEF a, x
    <3>3. Cardinality(a \cup {x}) = Cardinality(a) + 1
      BY <3>2, FS_AddElement
    <3> QED  BY <2>1, <3>2, <3>3 DEF a
  <2>2. CASE i + 1 \notin I
    <3>0. \A j \in I : j <= i + 1 <=> j <= i
      BY <1>0, <2>2
    <3>1. upto(i + 1) = upto(i)
      BY <3>0
    <3> QED  BY <2>2, <3>1
  <2> QED  BY <2>1, <2>2
<1>5. ASSUME NEW i \in I, NEW j \in I, i < j
      PROVE  Cardinality(upto(i)) < Cardinality(upto(j))
  <2>0. (\A x \in I : x <= i => x <= j) /\ j <= j /\ ~ (j <= i)
    BY <1>0, <1>5
  <2>1. upto(i) \subseteq upto(j) /\ j \in upto(j) /\ j \notin upto(i)
    BY <2>0
  <2> DEFINE a == upto(i)
             b == upto(j)
  <2>2. a \subseteq b /\ b # a /\ IsFiniteSet(b)
    BY <1>2, <2>1
  <2>3. Cardinality(a) \in Nat /\ Cardinality(b) \in Nat
    BY <1>2
  <2> HIDE DEF a, b
  <2>4. Cardinality(a) <= Cardinality(b) /\ Cardinality(a) # Cardinality(b)
    BY <2>2, <2>3, FS_Subset
  <2>5. Cardinality(a) < Cardinality(b)
    BY <2>3, <2>4
  <2> QED  BY <2>5 DEF a, b
<1>6. ASSUME NEW i \in I PROVE Cardinality(upto(i)) \in 1 .. Cardinality(I)
  <2>1. i \in upto(i)
    OBVIOUS
  <2>2. Cardinality(upto(i)) # 0
    <3> DEFINE a == upto(i)
    <3>1. IsFiniteSet(a) /\ a # {}
      BY <1>2, <2>1
    <3> HIDE DEF a
    <3>2. Cardinality(a) # 0
      BY <3>1, FS_EmptySet
    <3> QED  BY <3>2 DEF a
  <2> HIDE DEF upto
  <2>3. Cardinality(upto(i)) \in Nat /\ Cardinality(upto(i)) <= Cardinality(I)
    BY <1>2
  <2> QED  BY <1>1, <2>2, <2>3
<1>7. Cardinality({}) = 0
  BY FS_EmptySet
<1>8. \A i : Rank(i, I) = Cardinality(upto(i))
  BY DEF Rank
<1> HIDE DEF upto
<1>9. /\ \A i \in Nat : Rank(i + 1, I) = IF i + 1 \in I THEN Rank(i, I) + 1 ELSE Rank(i, I)
      /\ \A i, j \in I : i < j => Rank(i, I) < Rank(j, I)
      /\ \A i \in I : Rank(i, I) \in 1 .. Cardinality(I)
  BY <1>4, <1>5, <1>6, <1>8
<1>10. \A i \in Nat : Rank(i, I) \in Nat /\ Rank(i, I) <= Cardinality(I)
  BY <1>2, <1>8
<1>11. Rank(0, I) = 0 /\ Rank(N, I) = Cardinality(I)
  BY <1>3, <1>7, <1>8
<1> QED  BY <1>1, <1>9, <1>10, <1>11

(* Every rank is some place's: the first at which that many are counted.   *)
LEMMA RankTaken ==
  ASSUME NEW N \in Nat, NEW I \in SUBSET (1 .. N), NEW n \in 1 .. Cardinality(I)
  PROVE  \E i \in I : Rank(i, I) = n
<1> DEFINE T == {i \in Nat : Rank(i, I) >= n}
<1>0. n \in Nat /\ n >= 1 /\ n <= Cardinality(I)
  BY Ranks
<1>1. N \in T
  BY <1>0, Ranks
<1>2. PICK m \in T : \A k \in T : m <= k
  <2>1. T \in SUBSET Nat /\ T # {}
    BY <1>1
  <2> HIDE DEF T
  <2> QED  BY <2>1, LeastNumber
<1>3. m \in Nat /\ Rank(m, I) \in Nat /\ Rank(m, I) >= n
  BY <1>2, Ranks
<1>4. m # 0
  BY <1>0, <1>3, Ranks
<1>5. m - 1 \in Nat /\ (m - 1) + 1 = m
  BY <1>3, <1>4
<1>6. Rank(m - 1, I) \in Nat
  BY <1>5, Ranks
<1>7. Rank(m - 1, I) < n
  <2>1. m - 1 \notin T
    BY <1>2, <1>3, <1>5
  <2> QED  BY <1>0, <1>5, <1>6, <2>1
<1>8. Rank(m, I) = IF m \in I THEN Rank(m - 1, I) + 1 ELSE Rank(m - 1, I)
  <2>1. Rank((m - 1) + 1, I) = IF (m - 1) + 1 \in I THEN Rank(m - 1, I) + 1 ELSE Rank(m - 1, I)
    BY <1>5, Ranks
  <2> QED  BY <1>5, <2>1
<1>9. m \in I /\ Rank(m, I) = n
  BY <1>0, <1>3, <1>6, <1>7, <1>8
<1> QED  BY <1>9

(* What is kept is what was there at the places kept, and it is all kept.  *)
LEMMA KeptElements ==
  ASSUME NEW S, NEW w \in Seq(S), NEW I \in SUBSET (DOMAIN w)
  PROVE  /\ Kept(w, I) \in Seq(S) /\ Len(Kept(w, I)) = Cardinality(I)
         /\ ToSet(Kept(w, I)) = {w[i] : i \in I}
<1> DEFINE place(n) == CHOOSE i \in I : Rank(i, I) = n
           k == Kept(w, I)
<1>1. Len(w) \in Nat /\ DOMAIN w = 1 .. Len(w) /\ I \in SUBSET (1 .. Len(w))
  BY LenProperties
<1>2. Cardinality(I) \in Nat
  BY <1>1, Ranks
<1>3. \A n \in 1 .. Cardinality(I) : place(n) \in I
  BY <1>1, RankTaken
<1>4. ASSUME NEW i \in I
      PROVE  Rank(i, I) \in 1 .. Cardinality(I) /\ place(Rank(i, I)) = i
  <2>1. Rank(i, I) \in 1 .. Cardinality(I)
    BY <1>1, Ranks
  <2>2. place(Rank(i, I)) \in I /\ Rank(place(Rank(i, I)), I) = Rank(i, I)
    OBVIOUS
  <2> DEFINE j == place(Rank(i, I))
  <2>3. j \in I /\ i \in I /\ Rank(j, I) = Rank(i, I)
    BY <2>2
  <2> HIDE DEF j
  <2>4. i \in Nat /\ j \in Nat
    BY <1>1, <2>3
  <2>n. /\ Rank(i, I) \in Nat
        /\ \A x, y \in I : x < y => Rank(x, I) < Rank(y, I)
    BY <1>1, <2>4, Ranks
  <2>5. ~ (i < j) /\ ~ (j < i)
    BY <2>3, <2>n
  <2>6. i = j
    BY <2>4, <2>5
  <2> QED  BY <2>1, <2>6 DEF j
<1>5. k = [n \in 1 .. Cardinality(I) |-> w[place(n)]]
  BY DEF Kept
<1> HIDE DEF place, k
<1>6. \A i \in I : w[i] \in S
  BY <1>1, ElementOfSeq
<1>7. k \in Seq(S) /\ Len(k) = Cardinality(I) /\ DOMAIN k = 1 .. Cardinality(I)
  <2>1. \A n \in 1 .. Cardinality(I) : w[place(n)] \in S
    BY <1>3, <1>6
  <2>2. k \in Seq(S)
    BY <1>2, <1>5, <2>1, IsASeq
  <2> QED  BY <1>2, <1>5, <2>2, LenProperties
<1>8. \A x : x \in ToSet(k) <=> \E i \in I : x = w[i]
  <2>1. \A x : x \in ToSet(k) <=> \E n \in 1 .. Cardinality(I) : x = w[place(n)]
    BY <1>5, <1>7 DEF ToSet
  <2> QED  BY <1>3, <1>4, <2>1
<1>9. ToSet(k) = {w[i] : i \in I}
  BY <1>8
<1> QED  BY <1>7, <1>9 DEF k

(* Different places of what is kept are different places of the whole.     *)
LEMMA KeptPlaces ==
  ASSUME NEW S, NEW w \in Seq(S), NEW I \in SUBSET (DOMAIN w),
         NEW a \in 1 .. Cardinality(I), NEW b \in 1 .. Cardinality(I), a # b
  PROVE  \E i, j \in I : i # j /\ Kept(w, I)[a] = w[i] /\ Kept(w, I)[b] = w[j]
<1> DEFINE place(n) == CHOOSE i \in I : Rank(i, I) = n
<1>1. Len(w) \in Nat /\ I \in SUBSET (1 .. Len(w))
  BY LenProperties
<1>2. \A n \in 1 .. Cardinality(I) : place(n) \in I /\ Rank(place(n), I) = n
  <2> TAKE n \in 1 .. Cardinality(I)
  <2>1. \E i \in I : Rank(i, I) = n
    BY <1>1, RankTaken
  <2> QED  BY <2>1
<1>3. Kept(w, I) = [n \in 1 .. Cardinality(I) |-> w[place(n)]]
  BY DEF Kept
<1> HIDE DEF place
<1>4. place(a) # place(b)
  BY <1>2
<1> QED  BY <1>2, <1>3, <1>4

(* With nothing dropped the sequence is as it was. *)
LEMMA KeptAll ==
  ASSUME NEW S, NEW w \in Seq(S)
  PROVE  Kept(w, DOMAIN w) = w
<1> DEFINE N == Len(w)
           I == 1 .. N
<1>1. N \in Nat /\ DOMAIN w = I
  BY LenProperties
<1>2. Cardinality(I) = N
  BY <1>1, FS_Interval
<1>3. \A i \in I : Rank(i, I) = i
  <2> TAKE i \in I
  <2>1. {j \in I : j <= i} = 1 .. i /\ i \in Nat /\ i >= 1
    BY <1>1
  <2>2. Cardinality(1 .. i) = i
    BY <2>1, FS_Interval
  <2> QED  BY <2>1, <2>2 DEF Rank
<1> HIDE DEF I
<1>4. \A n \in I : (CHOOSE i \in I : Rank(i, I) = n) = n
  BY <1>3
<1>5. Kept(w, I) = [n \in I |-> w[n]]
  <2>1. 1 .. Cardinality(I) = I
    BY <1>2 DEF I
  <2>2. Kept(w, I) = [n \in I |-> w[CHOOSE i \in I : Rank(i, I) = n]]
    BY <2>1 DEF Kept
  <2> QED  BY <1>4, <2>2
<1>6. w = [n \in I |-> w[n]]
  <2>1. w \in [1 .. Len(w) -> S]
    BY LenProperties
  <2> QED  BY <2>1 DEF I
<1> QED  BY <1>1, <1>5, <1>6

(* As many values as places, if no two are the same. *)
LEMMA CountOnce ==
  ASSUME NEW n \in Nat, NEW f, f = [i \in 1 .. n |-> f[i]],
         \A i, j \in 1 .. n : f[i] = f[j] => i = j
  PROVE  Cardinality({f[i] : i \in 1 .. n}) = n
<1> DEFINE T == {f[i] : i \in 1 .. n}
<1>1. f \in [1 .. n -> T]
  OBVIOUS
<1>2. \A t \in T : \E i \in 1 .. n : f[i] = t
  OBVIOUS
<1> HIDE DEF T
<1>3. f \in Bijection(1 .. n, T)
  BY <1>1, <1>2, Fun_IsBij
<1>4. ExistsBijection(1 .. n, T)
  BY <1>3, Fun_ExistsBij
<1>5. Cardinality(T) = n
  BY <1>4, FS_CountingElements
<1> QED  BY <1>5 DEF T

-----------------------------------------------------------------------------
(* Concatenation *)

(* The parts of a sequence put together are found where they were put.     *)
LEMMA PartsOfConcat ==
  ASSUME NEW S, NEW u \in Seq(S), NEW v \in Seq(S), u # << >>, v # << >>
  PROVE  /\ u \o v \in Seq(S) /\ Len(u \o v) = Len(u) + Len(v)
         /\ SubSeq(u \o v, 1, Len(u)) = u
         /\ SubSeq(u \o v, Len(u) + 1, Len(u) + Len(v)) = v
<1>1. Len(u) \in Nat /\ Len(v) \in Nat /\ Len(u) >= 1 /\ Len(v) >= 1
  BY LenProperties, EmptySeq
<1>2. u \o v \in Seq(S) /\ Len(u \o v) = Len(u) + Len(v)
  BY ConcatProperties
<1>3. SubSeq(u \o v, 1, Len(u)) = SubSeq(u, 1, Len(u))
  BY <1>1, SubSeqOfConcat1
<1>4. SubSeq(u \o v, Len(u) + 1, Len(u) + Len(v)) = SubSeq(v, 1, Len(v))
  <2> DEFINE m == Len(u) + 1
             n == Len(u) + Len(v)
  <2>1. m \in Len(u)+1 .. Len(u)+Len(v) /\ n \in Len(u)+1 .. Len(u)+Len(v)
    BY <1>1
  <2>2. SubSeq(u \o v, m, n) = SubSeq(v, m - Len(u), n - Len(u))
    <3> HIDE DEF m, n
    <3> QED  BY <2>1, SubSeqOfConcat2
  <2>3. m - Len(u) = 1 /\ n - Len(u) = Len(v)
    BY <1>1
  <2> QED  BY <2>2, <2>3
<1> QED  BY <1>2, <1>3, <1>4, SubSeqFull

(* The same of three. *)
LEMMA ThreeParts ==
  ASSUME NEW S, NEW a \in Seq(S), NEW b \in Seq(S), NEW c \in Seq(S),
         a # << >>, b # << >>, c # << >>
  PROVE  /\ a \o b \o c \in Seq(S) /\ Len(a \o b \o c) = Len(a) + Len(b) + Len(c)
         /\ SubSeq(a \o b \o c, 1, Len(a)) = a
         /\ SubSeq(a \o b \o c, Len(a) + 1, Len(a) + Len(b)) = b
         /\ SubSeq(a \o b \o c, Len(a) + Len(b) + 1, Len(a) + Len(b) + Len(c)) = c
<1> DEFINE ab == a \o b
<1>1. /\ ab \in Seq(S) /\ Len(ab) = Len(a) + Len(b) /\ SubSeq(ab, 1, Len(a)) = a
      /\ SubSeq(ab, Len(a) + 1, Len(a) + Len(b)) = b
  BY PartsOfConcat
<1>2. Len(a) \in Nat /\ Len(b) \in Nat /\ Len(a) >= 1 /\ Len(b) >= 1
  BY LenProperties, EmptySeq
<1> HIDE DEF ab
<1>3. ab \in Seq(S) /\ ab # << >>
  BY <1>1, <1>2, EmptySeq
<1>4. /\ ab \o c \in Seq(S) /\ Len(ab \o c) = Len(ab) + Len(c)
      /\ SubSeq(ab \o c, Len(ab) + 1, Len(ab) + Len(c)) = c
  BY <1>3, PartsOfConcat
<1>5. SubSeq(ab \o c, 1, Len(a)) = SubSeq(ab, 1, Len(a))
  <2>1. 1 \in 1 .. Len(ab) /\ Len(a) \in 1 .. Len(ab)
    BY <1>1, <1>2
  <2> QED  BY <1>1, <2>1, SubSeqOfConcat1
<1>6. SubSeq(ab \o c, Len(a) + 1, Len(a) + Len(b)) = SubSeq(ab, Len(a) + 1, Len(a) + Len(b))
  <2> DEFINE m == Len(a) + 1
             n == Len(a) + Len(b)
  <2>1. m \in 1 .. Len(ab) /\ n \in 1 .. Len(ab)
    BY <1>1, <1>2
  <2> HIDE DEF m, n
  <2>2. SubSeq(ab \o c, m, n) = SubSeq(ab, m, n)
    BY <1>1, <2>1, SubSeqOfConcat1
  <2> QED  BY <2>2 DEF m, n
<1>7. a \o b \o c = ab \o c
  BY DEF ab
<1> QED  BY <1>1, <1>4, <1>5, <1>6, <1>7

(* A concatenation has the elements of both. *)
LEMMA ConcatSets ==
  ASSUME NEW S, NEW u \in Seq(S), NEW v \in Seq(S)
  PROVE  u \o v \in Seq(S) /\ ToSet(u \o v) = ToSet(u) \cup ToSet(v)
<1> DEFINE w == u \o v
           m == Len(u)
           n == Len(v)
<1>1. /\ m \in Nat /\ n \in Nat /\ DOMAIN u = 1 .. m /\ DOMAIN v = 1 .. n
      /\ w \in Seq(S) /\ DOMAIN w = 1 .. m + n
      /\ \A i \in 1 .. m + n : w[i] = IF i <= m THEN u[i] ELSE v[i - m]
  BY LenProperties, ConcatProperties
<1> HIDE DEF w, m, n
<1>2. \A i \in 1 .. m : i \in 1 .. m + n /\ w[i] = u[i]
  BY <1>1
<1>3. \A i \in 1 .. n : m + i \in 1 .. m + n /\ w[m + i] = v[i]
  <2> TAKE i \in 1 .. n
  <2> DEFINE j == m + i
  <2>1. j \in 1 .. m + n /\ ~ (j <= m) /\ j - m = i
    BY <1>1
  <2> HIDE DEF j
  <2>2. w[j] = v[i]
    BY <1>1, <2>1
  <2> QED  BY <2>1, <2>2 DEF j
<1>4. \A i \in 1 .. m + n : i \in 1 .. m \/ i - m \in 1 .. n
  BY <1>1
<1>5. ToSet(w) = ToSet(u) \cup ToSet(v)
  <2>1. \A i \in DOMAIN w : w[i] \in ToSet(u) \cup ToSet(v)
    <3> TAKE i \in DOMAIN w
    <3>1. CASE i <= m
      BY <1>1, <3>1 DEF ToSet
    <3>2. CASE ~ (i <= m)
      BY <1>1, <1>4, <3>2 DEF ToSet
    <3> QED  BY <3>1, <3>2
  <2>2. \A i \in DOMAIN u : u[i] \in ToSet(w)
    BY <1>1, <1>2 DEF ToSet
  <2>3. \A i \in DOMAIN v : v[i] \in ToSet(w)
    BY <1>1, <1>3 DEF ToSet
  <2> QED  BY <2>1, <2>2, <2>3 DEF ToSet
<1> QED  BY <1>1, <1>5 DEF w

(* Two elements before a sequence *)
LEMMA TwoBefore ==
  ASSUME NEW S, NEW a \in S, NEW b \in S, NEW d \in Seq(S)
  PROVE  << a, b >> \o d \in Seq(S)
<1>1. << a, b >> \in Seq(S)
  OBVIOUS
<1> QED  BY <1>1, ConcatProperties

(* What is read from an octet on is that octet, the next, and the rest. *)
LEMMA OctetsRead ==
  ASSUME NEW S, NEW p \in Seq(S), NEW a \in 1 .. Len(p), NEW n \in a + 1 .. Len(p)
  PROVE  /\ p[a] \in S /\ p[a + 1] \in S
         /\ SubSeq(p, a + 2, n) \in Seq(S) /\ Len(SubSeq(p, a + 2, n)) = n - a - 1
         /\ SubSeq(p, a, n) = << p[a], p[a + 1] >> \o SubSeq(p, a + 2, n)
<1> DEFINE b == a + 1
           c == a + 2
           d == SubSeq(p, c, n)
<1>1. /\ Len(p) \in Nat /\ a \in Int /\ n \in Int /\ c \in Int
      /\ b \in 1 .. Len(p) /\ n \in a .. Len(p) /\ n \in b .. Len(p)
      /\ a + 1 = b /\ b + 1 = c
  BY LenProperties
<1>2. /\ \A i \in c .. n : i \in 1 .. Len(p)
      /\ n - a - 1 = IF c <= n THEN n - c + 1 ELSE 0
  BY <1>1
<1> HIDE DEF b, c
<1>3. p[a] \in S /\ p[b] \in S /\ \A i \in c .. n : p[i] \in S
  BY <1>1, <1>2, ElementOfSeq
<1>4. d \in Seq(S) /\ Len(d) = n - a - 1
  BY <1>1, <1>2, <1>3, SubSeqProperties
<1>5. SubSeq(p, a, n) = << p[a] >> \o SubSeq(p, b, n)
  BY <1>1, SubSeqRecursiveFirst
<1>6. SubSeq(p, b, n) = << p[b] >> \o d
  BY <1>1, SubSeqRecursiveFirst
<1> HIDE DEF d
<1>7. << p[a] >> \o (<< p[b] >> \o d) = << p[a], p[b] >> \o d
  <2> DEFINE x == p[a]
             y == p[b]
  <2>1. x \in S /\ y \in S /\ d \in Seq(S)
    BY <1>3, <1>4
  <2> HIDE DEF x, y
  <2>3. << x >> \in Seq(S) /\ << y >> \in Seq(S)
    BY <2>1
  <2>4. << x >> \o << y >> = << x, y >>
    <3>1. << x, y >> = Append(<< x >>, y)
      BY <2>1
    <3>2. Append(<< x >>, y) = << x >> \o << y >>
      BY <2>1, <2>3, AppendIsConcat
    <3> QED  BY <3>1, <3>2, Zenon
  <2>5. << x >> \o (<< y >> \o d) = (<< x >> \o << y >>) \o d
    BY <2>1, <2>3, ConcatAssociative
  <2>2. << x >> \o (<< y >> \o d) = << x, y >> \o d
    BY <2>4, <2>5
  <2> QED  BY <2>2 DEF x, y
<1> QED  BY <1>3, <1>4, <1>7 DEF b, c, d

(* A set of numbers up to n has a greatest one, and Max is it. *)
LEMMA GreatestNumber ==
  ASSUME NEW n \in Nat, NEW I \in SUBSET (0 .. n), I # {}
  PROVE  Max(I) \in I /\ \A i \in I : i <= Max(I)
<1> DEFINE T == {n - i : i \in I}
<1>1. \A i \in I : i \in Nat /\ i <= n
  OBVIOUS
<1>2. T \in SUBSET Nat /\ T # {}
  BY <1>1
<1> HIDE DEF T
<1>3. PICK m \in T : \A k \in T : m <= k
  BY <1>2, LeastNumber
<1>4. PICK g \in I : m = n - g
  BY <1>3 DEF T
<1>5. \A i \in I : n - i \in T
  BY DEF T
<1>6. \A i \in I : g >= i
  BY <1>1, <1>3, <1>4, <1>5
<1>7. Max(I) \in I /\ \A i \in I : Max(I) >= i
  BY <1>6 DEF Max
<1> QED  BY <1>1, <1>7

(* The recursion of FlattenSeq *)
Flattens(f, w, n) == f = [i \in 1 .. n |-> IF i = 1 THEN w[i] ELSE f[i - 1] \o w[i]]

LEMMA FlattenExists ==
  ASSUME NEW w, NEW n \in Nat
  PROVE  \E f : Flattens(f, w, n)
<1> DEFINE T == {k \in Nat : ~ \E f : Flattens(f, w, k)}
<1>1. SUFFICES T = {}
  OBVIOUS
<1>2. SUFFICES ASSUME T # {} PROVE FALSE
  OBVIOUS
<1>3. PICK m \in T : \A k \in T : m <= k
  <2>1. T \in SUBSET Nat
    OBVIOUS
  <2> HIDE DEF T
  <2> QED  BY <1>2, <2>1, LeastNumber
<1>4. m # 0
  <2>1. ~ \E f : Flattens(f, w, m)
    BY <1>3
  <2>2. Flattens([i \in 1 .. 0 |-> << >>], w, 0)
    BY DEF Flattens
  <2> QED  BY <2>1, <2>2
<1>5. m \in Nat /\ m - 1 \in Nat /\ m - 1 \notin T
  BY <1>3, <1>4
<1>6. PICK g : Flattens(g, w, m - 1)
  BY <1>5
<1> DEFINE f == [i \in 1 .. m |-> IF i = m THEN (IF i = 1 THEN w[i] ELSE g[i - 1] \o w[i]) ELSE g[i]]
<1>7. \A i \in 1 .. m : f[i] = IF i = 1 THEN w[i] ELSE f[i - 1] \o w[i]
  <2> TAKE i \in 1 .. m
  <2>1. CASE i = m
    BY <1>5, <2>1
  <2>2. CASE i # m
    <3>1. i \in 1 .. m - 1
      BY <1>5, <2>2
    <3>2. g[i] = IF i = 1 THEN w[i] ELSE g[i - 1] \o w[i]
      BY <1>6, <3>1 DEF Flattens
    <3>3. f[i] = g[i]
      BY <2>2
    <3>4. i # 1 => f[i - 1] = g[i - 1]
      BY <1>5, <3>1
    <3> QED  BY <3>2, <3>3, <3>4
  <2> QED  BY <2>1, <2>2
<1>8. f = [i \in 1 .. m |-> f[i]]
  OBVIOUS
<1> HIDE DEF f
<1>9. Flattens(f, w, m)
  BY <1>7, <1>8 DEF Flattens
<1> QED  BY <1>3, <1>9

Alike(v, w, n) == \A i \in 1 .. n : v[i] = w[i]

(* Sequences that begin alike flatten alike. *)
LEMMA FlattenAlike ==
  ASSUME NEW n \in Nat, NEW m \in Nat, n <= m, NEW v, NEW w, Alike(v, w, n),
         NEW f, Flattens(f, v, n), NEW g, Flattens(g, w, m)
  PROVE  Alike(f, g, n)
<1> DEFINE T == {i \in 1 .. n : f[i] # g[i]}
<1>1. SUFFICES ASSUME T # {} PROVE FALSE
  BY DEF Alike
<1>2. PICK k \in T : \A i \in T : k <= i
  <2>1. T \in SUBSET Nat
    OBVIOUS
  <2> HIDE DEF T
  <2> QED  BY <1>1, <2>1, LeastNumber
<1>3. k \in 1 .. n /\ k \in 1 .. m /\ f[k] # g[k]
  BY <1>2
<1>4. f[k] = IF k = 1 THEN v[k] ELSE f[k - 1] \o v[k]
  BY <1>3 DEF Flattens
<1>5. g[k] = IF k = 1 THEN w[k] ELSE g[k - 1] \o w[k]
  BY <1>3 DEF Flattens
<1>6. k # 1 => f[k - 1] = g[k - 1]
  <2> HAVE k # 1
  <2>1. k - 1 \in 1 .. n /\ ~ (k <= k - 1)
    BY <1>3
  <2> QED  BY <1>2, <2>1
<1> QED  BY <1>3, <1>4, <1>5, <1>6 DEF Alike

LEMMA FlattenLast ==
  ASSUME NEW S, NEW w \in Seq(S), w # << >>
  PROVE  \E f : Flattens(f, w, Len(w)) /\ FlattenSeq(w) = f[Len(w)]
<1> DEFINE f == CHOOSE f : f = [i \in 1 .. Len(w) |-> IF i = 1 THEN w[i] ELSE f[i - 1] \o w[i]]
<1>1. Len(w) \in Nat /\ Len(w) # 0
  BY LenProperties, EmptySeq
<1>2. \E g : g = [i \in 1 .. Len(w) |-> IF i = 1 THEN w[i] ELSE g[i - 1] \o w[i]]
  BY <1>1, FlattenExists DEF Flattens
<1>3. f = [i \in 1 .. Len(w) |-> IF i = 1 THEN w[i] ELSE f[i - 1] \o w[i]]
  BY <1>2
<1>4. FlattenSeq(w) = f[Len(w)]
  BY <1>1 DEF FlattenSeq
<1> HIDE DEF f
<1> QED  BY <1>3, <1>4 DEF Flattens

LEMMA FlattenAppend ==
  ASSUME NEW S, NEW w \in Seq(Seq(S)), NEW e \in Seq(S)
  PROVE  FlattenSeq(Append(w, e)) = IF w = << >> THEN e ELSE FlattenSeq(w) \o e
<1> DEFINE v == Append(w, e)
           n == Len(w)
<1>1. /\ v \in Seq(Seq(S)) /\ v # << >> /\ Len(v) = n + 1 /\ n \in Nat
      /\ \A i \in 1 .. n : w[i] = v[i]
      /\ v[n + 1] = e
  BY AppendProperties, LenProperties
<1> HIDE DEF v
<1>2. PICK g : Flattens(g, v, n + 1) /\ FlattenSeq(v) = g[n + 1]
  BY <1>1, FlattenLast
<1>3. g[n + 1] = IF n + 1 = 1 THEN v[n + 1] ELSE g[n + 1 - 1] \o v[n + 1]
  <2> DEFINE m == n + 1
  <2>1. m \in 1 .. m /\ Flattens(g, v, m)
    BY <1>1, <1>2
  <2> HIDE DEF m
  <2>2. g = [i \in 1 .. m |-> IF i = 1 THEN v[i] ELSE g[i - 1] \o v[i]]
    BY <2>1 DEF Flattens
  <2>3. g[m] = IF m = 1 THEN v[m] ELSE g[m - 1] \o v[m]
    BY <2>1, <2>2
  <2> QED  BY <2>3 DEF m
<1>4. CASE w = << >>
  <2>1. n = 0
    BY <1>4
  <2> QED  BY <1>1, <1>2, <1>3, <1>4, <2>1 DEF v
<1>5. CASE w # << >>
  <2>1. n # 0 /\ n + 1 - 1 = n /\ n + 1 # 1 /\ n \in 1 .. n
    BY <1>1, <1>5, EmptySeq
  <2>2. PICK f : Flattens(f, w, n) /\ FlattenSeq(w) = f[n]
    BY <1>5, FlattenLast
  <2>3. f[n] = g[n]
    <3> DEFINE m == n + 1
    <3>1. n \in Nat /\ m \in Nat /\ n <= m /\ Flattens(g, v, m) /\ Flattens(f, w, n)
      BY <1>1, <1>2, <2>2
    <3>2. Alike(w, v, n)
      BY <1>1 DEF Alike
    <3> HIDE DEF m, n
    <3>3. Alike(f, g, n)
      BY <3>1, <3>2, FlattenAlike
    <3> QED  BY <2>1, <3>3 DEF Alike
  <2> QED  BY <1>1, <1>2, <1>3, <1>5, <2>1, <2>2, <2>3 DEF v
<1> QED  BY <1>4, <1>5

=============================================================================
