----------------------------- MODULE DataLemmas ----------------------------
(***************************************************************************)
(* Facts about sequences and numbers that the proofs share: what RemoveAt  *)
(* and InsertAt of the community modules return, element by element; that  *)
(* a fold is the end of a run over its elements, which turns it into a     *)
(* function that first-order proofs can follow; induction up to a bound;   *)
(* and how products and remainders grow.                                   *)
(***************************************************************************)
EXTENDS Integers, Sequences, SequencesExt, SequenceTheorems,
        WellFoundedInduction, TLAPS

(* RemoveAt(s, i) closes the gap at i and keeps the order, as remove() of  *)
(* src/src/c/list.c does.                                                  *)
LEMMA RemoveAtProperties ==
    ASSUME NEW S, NEW s \in Seq(S), NEW i \in 1..Len(s)
    PROVE  /\ RemoveAt(s, i) \in Seq(S)
           /\ Len(RemoveAt(s, i)) = Len(s) - 1
           /\ \A j \in 1..(Len(s) - 1) :
                 RemoveAt(s, i)[j] = IF j < i THEN s[j] ELSE s[j+1]
<1> DEFINE front == SubSeq(s, 1, i - 1)
           back  == SubSeq(s, i + 1, Len(s))
<1>0. Len(s) \in Nat /\ \A j \in 1..Len(s) : s[j] \in S
  BY LenProperties, ElementOfSeq
<1>1. /\ front \in Seq(S)
      /\ Len(front) = i - 1
      /\ \A j \in 1..(i-1) : front[j] = s[j]
  <2>1. \A j \in 1..(i-1) : s[j] \in S
    BY <1>0
  <2>2. /\ front \in Seq(S)
        /\ Len(front) = IF 1 <= i - 1 THEN (i - 1) - 1 + 1 ELSE 0
        /\ \A j \in 1..((i - 1) - 1 + 1) : front[j] = s[1 + j - 1]
    BY <2>1, SubSeqProperties
  <2> QED
    BY <2>2, <1>0
<1>2. /\ back \in Seq(S)
      /\ Len(back) = Len(s) - i
      /\ \A j \in 1..(Len(s) - i) : back[j] = s[i+j]
  <2>1. \A j \in (i+1)..Len(s) : s[j] \in S
    BY <1>0
  <2>2. /\ back \in Seq(S)
        /\ Len(back) = IF i + 1 <= Len(s) THEN Len(s) - (i + 1) + 1 ELSE 0
        /\ \A j \in 1..(Len(s) - (i + 1) + 1) : back[j] = s[(i + 1) + j - 1]
    BY <2>1, <1>0, SubSeqProperties
  <2> QED
    BY <2>2, <1>0
<1> HIDE DEF front, back
<1>3. /\ front \o back \in Seq(S)
      /\ Len(front \o back) = Len(front) + Len(back)
      /\ \A j \in 1..(Len(front) + Len(back)) : (front \o back)[j] =
             IF j <= Len(front) THEN front[j] ELSE back[j - Len(front)]
  BY <1>1, <1>2, ConcatProperties
<1>4. RemoveAt(s, i) = front \o back
  BY DEF RemoveAt, front, back
<1>5. ASSUME NEW j \in 1..(Len(s) - 1)
      PROVE  RemoveAt(s, i)[j] = IF j < i THEN s[j] ELSE s[j+1]
  <2>1. CASE j < i
    BY <1>0, <1>1, <1>2, <1>3, <1>4, <2>1
  <2>2. CASE j >= i
    <3>1. j - (i - 1) \in 1..(Len(s) - i)
      BY <1>0, <2>2
    <3>2. back[j - (i - 1)] = s[i + (j - (i - 1))]
      BY <1>2, <3>1
    <3> QED
      BY <1>0, <1>1, <1>2, <1>3, <1>4, <2>2, <3>2
  <2> QED
    BY <1>0, <2>1, <2>2
<1>6. RemoveAt(s, i) \in Seq(S) /\ Len(RemoveAt(s, i)) = Len(s) - 1
  <2>1. /\ Len(front \o back) = Len(front) + Len(back)
        /\ Len(front) = i - 1
        /\ Len(back) = Len(s) - i
    BY <1>1, <1>2, <1>3
  <2>2. Len(front \o back) = Len(s) - 1
    BY <1>0, <2>1
  <2> QED
    BY <1>3, <1>4, <2>2
<1> QED
  BY <1>5, <1>6

(* InsertAt(s, i, e) puts e before the element at i and keeps the order of *)
(* the others, as insert_before() and insert_after() do.                   *)
LEMMA InsertAtProperties ==
    ASSUME NEW S, NEW s \in Seq(S), NEW e \in S, NEW i \in 1..(Len(s) + 1)
    PROVE  /\ InsertAt(s, i, e) \in Seq(S)
           /\ Len(InsertAt(s, i, e)) = Len(s) + 1
           /\ \A j \in 1..(Len(s) + 1) :
                 InsertAt(s, i, e)[j] = IF j < i THEN s[j]
                                        ELSE IF j = i THEN e ELSE s[j-1]
<1> DEFINE front == SubSeq(s, 1, i - 1)
           back  == SubSeq(s, i, Len(s))
           mid   == front \o <<e>>
<1>0. Len(s) \in Nat /\ \A j \in 1..Len(s) : s[j] \in S
  BY LenProperties, ElementOfSeq
<1>1. /\ front \in Seq(S)
      /\ Len(front) = i - 1
      /\ \A j \in 1..(i-1) : front[j] = s[j]
  <2>1. \A j \in 1..(i-1) : s[j] \in S
    BY <1>0
  <2>2. /\ front \in Seq(S)
        /\ Len(front) = IF 1 <= i - 1 THEN (i - 1) - 1 + 1 ELSE 0
        /\ \A j \in 1..((i - 1) - 1 + 1) : front[j] = s[1 + j - 1]
    BY <2>1, <1>0, SubSeqProperties
  <2> QED
    BY <2>2, <1>0
<1>2. /\ back \in Seq(S)
      /\ Len(back) = Len(s) - i + 1
      /\ \A j \in 1..(Len(s) - i + 1) : back[j] = s[i+j-1]
  <2>1. \A j \in i..Len(s) : s[j] \in S
    BY <1>0
  <2>2. /\ back \in Seq(S)
        /\ Len(back) = IF i <= Len(s) THEN Len(s) - i + 1 ELSE 0
        /\ \A j \in 1..(Len(s) - i + 1) : back[j] = s[i + j - 1]
    BY <2>1, <1>0, SubSeqProperties
  <2> QED
    BY <2>2, <1>0
<1>3. <<e>> \in Seq(S) /\ Len(<<e>>) = 1 /\ <<e>>[1] = e
  OBVIOUS
<1> HIDE DEF front, back
<1>4. /\ mid \in Seq(S)
      /\ Len(mid) = i
      /\ \A j \in 1..i : mid[j] = IF j <= i - 1 THEN s[j] ELSE e
  <2>1. /\ mid \in Seq(S)
        /\ Len(mid) = Len(front) + Len(<<e>>)
        /\ \A j \in 1..(Len(front) + Len(<<e>>)) : mid[j] =
               IF j <= Len(front) THEN front[j] ELSE <<e>>[j - Len(front)]
    BY <1>1, <1>3, ConcatProperties
  <2> QED
    BY <2>1, <1>0, <1>1, <1>3
<1> HIDE DEF mid
<1>5. /\ mid \o back \in Seq(S)
      /\ Len(mid \o back) = Len(mid) + Len(back)
      /\ \A j \in 1..(Len(mid) + Len(back)) : (mid \o back)[j] =
             IF j <= Len(mid) THEN mid[j] ELSE back[j - Len(mid)]
  BY <1>2, <1>4, ConcatProperties
<1>6. InsertAt(s, i, e) = mid \o back
  BY DEF InsertAt, front, back, mid
<1> QED
  BY <1>0, <1>2, <1>4, <1>5, <1>6

(* The same for an element that goes in behind the one at i. *)
LEMMA InsertBehindProperties ==
    ASSUME NEW S, NEW s \in Seq(S), NEW e \in S, NEW i \in 1..Len(s)
    PROVE  /\ InsertAt(s, i + 1, e) \in Seq(S)
           /\ Len(InsertAt(s, i + 1, e)) = Len(s) + 1
           /\ \A j \in 1..(Len(s) + 1) :
                 InsertAt(s, i + 1, e)[j] = IF j < i + 1 THEN s[j]
                                            ELSE IF j = i + 1 THEN e ELSE s[j-1]
<1>1. ASSUME NEW p \in 1..(Len(s) + 1)
      PROVE  /\ InsertAt(s, p, e) \in Seq(S)
             /\ Len(InsertAt(s, p, e)) = Len(s) + 1
             /\ \A j \in 1..(Len(s) + 1) :
                   InsertAt(s, p, e)[j] = IF j < p THEN s[j]
                                          ELSE IF j = p THEN e ELSE s[j-1]
  BY InsertAtProperties
<1> DEFINE p == i + 1
<1>2. p \in 1..(Len(s) + 1)
  BY LenProperties
<1> HIDE DEF p
<1>3. /\ InsertAt(s, p, e) \in Seq(S)
      /\ Len(InsertAt(s, p, e)) = Len(s) + 1
      /\ \A j \in 1..(Len(s) + 1) :
            InsertAt(s, p, e)[j] = IF j < p THEN s[j]
                                   ELSE IF j = p THEN e ELSE s[j-1]
  BY ONLY <1>1, <1>2
<1> QED
  BY <1>3 DEF p

(* A search that has a hit has a first hit. *)
LEMMA LeastExists ==
    ASSUME NEW T, T \subseteq Nat, T # {}
    PROVE  \E x \in T : \A y \in T : x <= y
<1> DEFINE R == OpToRel(<, Nat)
<1>1. IsWellFoundedOn(R, Nat)
  BY NatLessThanWellFounded
<1>2. \A x, y \in Nat : y < x => <<y, x>> \in R
  BY DEF OpToRel
<1> HIDE DEF R
<1>3. PICK x \in T : \A y \in T : ~(<<y, x>> \in R)
  BY <1>1, WFMin
<1>4. \A y \in T : ~(y < x)
  BY <1>2, <1>3
<1>5. \A y \in T : x <= y
  BY <1>4
<1> QED
  BY <1>5

-----------------------------------------------------------------------------
(* Multiplication and division, as bitmaps, rows of cells and tabs use them. *)
LEMMA Grows ==
    ASSUME NEW d \in Nat, NEW a \in Nat, NEW b \in Nat, a < b
    PROVE  a * d + d <= b * d
<1>1. PICK c \in Nat : b = a + 1 + c
  <2>1. b - a - 1 \in Nat /\ b = a + 1 + (b - a - 1)  OBVIOUS
  <2> QED BY <2>1
<1>2. b * d = a * d + d + c * d  BY <1>1
<1>3. c * d >= 0 /\ c * d \in Nat  BY <1>1
<1> QED BY <1>2, <1>3

LEMMA DivUnique ==
    ASSUME NEW d \in Nat, d > 0, NEW q \in Nat, NEW r \in 0..(d-1)
    PROVE  (q * d + r) \div d = q /\ (q * d + r) % d = r
<1> DEFINE n == q * d + r
           p == n \div d
           s == n % d
<1>1. n \in Nat  OBVIOUS
<1>2. p \in Nat /\ s \in 0..(d-1) /\ n = p * d + s  BY <1>1
<1>3. p = q
  <2>1. CASE p < q
    <3>1. p * d + d <= q * d  BY <2>1, <1>2, Grows
    <3> QED BY <3>1, <1>2
  <2>2. CASE q < p
    <3>1. q * d + d <= p * d  BY <2>2, <1>2, Grows
    <3> QED BY <3>1, <1>2
  <2> QED BY <2>1, <2>2, <1>2
<1>4. s = r  BY <1>2, <1>3
<1> QED BY <1>3, <1>4

LEMMA DivMod ==
    ASSUME NEW d \in Nat, d > 0, NEW n \in Nat
    PROVE  n \div d \in Nat /\ n % d \in 0..(d-1) /\ n = (n \div d) * d + (n % d)
<1> DEFINE q == n \div d
           r == n % d
<1>1. q \in Nat /\ r \in 0..(d-1)  OBVIOUS
<1>2. n = q * d + r  OBVIOUS
<1> QED BY <1>1, <1>2

(* A multiple of d more makes no difference to the remainder.              *)
LEMMA ModStep ==
    ASSUME NEW d \in Nat, d > 0, NEW p \in Nat, NEW b \in Nat, NEW e \in Nat
    PROVE  /\ ((p % d) * b + e) % d = (p * b + e) % d
           /\ p * b + e \in Nat /\ (p % d) * b + e \in Nat
<1> DEFINE q == p \div d
           r == p % d
<1>1. q \in Nat /\ r \in Nat /\ p = q * d + r  BY DivMod
<1> HIDE DEF q, r
<1> DEFINE m == r * b + e
           k == m \div d
           s == m % d
           x == q * b + k
<1>2. r * b \in Nat /\ q * b \in Nat  BY <1>1
<1>3. m \in Nat  BY <1>2
<1>4. k \in Nat /\ s \in 0..(d-1) /\ m = k * d + s
  <2> HIDE DEF m
  <2> QED BY <1>3, DivMod
<1>5. p * b + e = (q * b) * d + m
  <2>1. p * b = (q * d + r) * b  BY <1>1
  <2>2. (q * d + r) * b = (q * b) * d + r * b  BY <1>1
  <2> QED BY <1>2, <2>1, <2>2
<1> HIDE DEF m
<1>6. x \in Nat /\ p * b + e = x * d + s
  <2>1. (q * b) * d + (k * d + s) = (q * b + k) * d + s
    <3> DEFINE y == q * b
    <3>1. y \in Nat  BY <1>2
    <3> HIDE DEF y, k, s
    <3>2. y * d + (k * d + s) = (y + k) * d + s  BY <1>4, <3>1
    <3> QED BY <3>2 DEF y
  <2>2. x \in Nat  BY <1>2, <1>4
  <2> HIDE DEF k, s
  <2> QED BY <1>4, <1>5, <2>1, <2>2
<1> HIDE DEF x
<1>7. (x * d + s) % d = s
  <2> HIDE DEF s
  <2> QED BY <1>4, <1>6, DivUnique
<1>8. (p * b + e) % d = m % d  BY <1>6, <1>7
<1>9. p * b + e \in Nat
  <2>1. p * b \in Nat  OBVIOUS
  <2> QED BY <2>1
<1> QED BY <1>3, <1>8, <1>9 DEF m, r

(* What holds at 0 and is handed on from k - 1 to k holds up to n.         *)
LEMMA Climbs ==
    ASSUME NEW n \in Nat, NEW S, 0 \in S, \A k \in 1..n : k - 1 \in S => k \in S
    PROVE  \A k \in 0..n : k \in S
<1> DEFINE T == {k \in 0..n : k \notin S}
<1> SUFFICES ASSUME T # {} PROVE FALSE
  OBVIOUS
<1>1. T \subseteq Nat  OBVIOUS
<1> HIDE DEF T
<1>2. PICK k \in T : \A j \in T : k <= j  BY <1>1, LeastExists
<1>3. k \in 1..n /\ k - 1 \in 0..n /\ k \notin S  BY <1>2 DEF T
<1>4. k - 1 \notin T  BY <1>2, <1>3
<1> QED BY <1>3, <1>4 DEF T

LEMMA MaxIn ==
    ASSUME NEW n \in Nat, NEW s \in SUBSET (1..n), s # {}
    PROVE  Max(s) \in s /\ \A x \in s : x <= Max(s)
<1> DEFINE T == {n - x : x \in s}
<1>1. T \subseteq Nat /\ T # {}
  <2>1. \A x \in s : n - x \in Nat  OBVIOUS
  <2>2. T \subseteq Nat  BY <2>1
  <2>3. PICK x \in s : TRUE  OBVIOUS
  <2>4. n - x \in T  BY <2>3
  <2> HIDE DEF T
  <2> QED BY <2>2, <2>4
<1> HIDE DEF T
<1>2. PICK t \in T : \A u \in T : t <= u  BY <1>1, LeastExists
<1>3. PICK y \in s : t = n - y  BY <1>2 DEF T
<1>4. \A x \in s : y >= x
  <2> TAKE x \in s
  <2>1. n - x \in T /\ x \in Int /\ y \in Int  BY DEF T
  <2> QED BY <1>2, <1>3, <2>1
<1>5. \E x \in s : \A z \in s : x >= z  BY <1>3, <1>4
<1>6. Max(s) \in s /\ \A z \in s : Max(s) >= z  BY <1>5 DEF Max
<1> QED BY <1>6

LEMMA MaxUpTo ==
    ASSUME NEW k \in Nat \ {0}, NEW s \in SUBSET (1..k), k \in s
    PROVE  Max(s) = k
<1>1. s # {} /\ k \in Nat  OBVIOUS
<1>2. Max(s) \in s /\ \A x \in s : x <= Max(s)  BY <1>1, MaxIn
<1>3. Max(s) \in 1..k /\ k <= Max(s)  BY <1>2
<1> QED BY <1>3

(* The folds of the community modules take the elements of a set of        *)
(* indices from the greatest one down: there is a function that does.      *)
Folds(g, n, D, base, step) ==
    /\ g \in [SUBSET (1..n) -> D]
    /\ g[{}] = base
    /\ \A s \in SUBSET (1..n) : s # {} => g[s] = step[Max(s)][g[s \ {Max(s)}]]

LEMMA FoldExists ==
    ASSUME NEW D, NEW base \in D, NEW n \in Nat, NEW step \in [1..n -> [D -> D]]
    PROVE  \E g : Folds(g, n, D, base, step)
<1> DEFINE S == {k \in 0..n : \E g : Folds(g, k, D, base, step)}
<1>1. 0 \in S
  <2> DEFINE g == [s \in SUBSET (1..0) |-> base]
  <2>1. 1..0 = {}  OBVIOUS
  <2>2. Folds(g, 0, D, base, step)  BY <2>1 DEF Folds
  <2> HIDE DEF g
  <2> QED BY <2>2
<1>2. ASSUME NEW k \in 1..n, k - 1 \in S PROVE k \in S
  <2>1. PICK g : Folds(g, k - 1, D, base, step)  BY <1>2
  <2> DEFINE h == [s \in SUBSET (1..k) |-> IF k \in s THEN step[k][g[s \ {k}]] ELSE g[s]]
  <2>2. ASSUME NEW s \in SUBSET (1..k) PROVE s \ {k} \in SUBSET (1..(k-1))  OBVIOUS
  <2>3. ASSUME NEW s \in SUBSET (1..k), k \notin s PROVE s \in SUBSET (1..(k-1))  BY <2>3
  <2>4. g \in [SUBSET (1..(k-1)) -> D]  BY <2>1 DEF Folds
  <2>5. h \in [SUBSET (1..k) -> D]
    <3>1. ASSUME NEW s \in SUBSET (1..k)
          PROVE  (IF k \in s THEN step[k][g[s \ {k}]] ELSE g[s]) \in D
      <4>1. g[s \ {k}] \in D  BY <2>2, <2>4
      <4>2. k \notin s => g[s] \in D  BY <2>3, <2>4
      <4> QED BY <4>1, <4>2
    <3> QED BY <3>1
  <2>6. h[{}] = base  BY <2>1 DEF Folds
  <2>7. ASSUME NEW s \in SUBSET (1..k), s # {}
        PROVE  h[s] = step[Max(s)][h[s \ {Max(s)}]]
    <3>1. CASE k \in s
      <4>1. Max(s) = k  BY <3>1, MaxUpTo
      <4>2. s \ {k} \in SUBSET (1..k) /\ k \notin s \ {k}  OBVIOUS
      <4>3. h[s \ {k}] = g[s \ {k}]  BY <4>2
      <4>4. h[s] = step[k][g[s \ {k}]]  BY <3>1
      <4> QED BY <4>1, <4>3, <4>4
    <3>2. CASE k \notin s
      <4>1. s \in SUBSET (1..(k-1))  BY <2>3, <3>2
      <4> DEFINE r == s \ {Max(s)}
      <4>2. r \in SUBSET (1..k) /\ k \notin r  BY <3>2
      <4>3. g[s] = step[Max(s)][g[r]]  BY <2>1, <2>7, <4>1 DEF Folds
      <4>4. h[r] = g[r]  BY <4>2
      <4>5. h[s] = g[s]  BY <3>2
      <4> QED BY <4>3, <4>4, <4>5
    <3> QED BY <3>1, <3>2
  <2> HIDE DEF h
  <2>8. Folds(h, k, D, base, step)  BY <2>5, <2>6, <2>7 DEF Folds
  <2> QED BY <2>8
<1> HIDE DEF S
<1>3. \A k \in 0..n : k \in S  BY <1>1, <1>2, Climbs
<1>4. n \in S  BY <1>3
<1> QED BY <1>4 DEF S

(* A function that meets the equation of such a fold, on the sets 1..k.    *)
LEMMA FoldSteps ==
    ASSUME NEW n \in Nat, NEW g, NEW k \in 1..n
    PROVE  /\ 1..k \in SUBSET (1..n) /\ 1..k # {}
           /\ Max(1..k) = k /\ (1..k) \ {k} = 1..(k-1)
<1>1. 1..k \in SUBSET (1..n) /\ 1..k # {} /\ k \in 1..k /\ k \in Nat \ {0}  OBVIOUS
<1>2. Max(1..k) = k  BY <1>1, MaxUpTo
<1>3. (1..k) \ {k} = 1..(k-1)  OBVIOUS
<1> QED BY <1>1, <1>2, <1>3

(* A function that meets the equation of such a fold where its values have *)
(* the right type runs through the partial results V.                      *)
Runs(V, n, D, base, step) ==
    /\ V \in [0..n -> D] /\ V[0] = base
    /\ \A k \in 1..n : V[k] = step[k][V[k-1]]

(* v is the last of the partial results, and f computes the fold.          *)
RunsTo(v, n, D, base, step) == \E V : Runs(V, n, D, base, step) /\ v = V[n]
Obeys(f, n, D, base, step) ==
    /\ f[{}] = base
    /\ \A s \in SUBSET (1..n) : s # {} /\ f[s \ {Max(s)}] \in D =>
           f[s] = step[Max(s)][f[s \ {Max(s)}]]

LEMMA FoldRuns ==
    ASSUME NEW D, NEW base \in D, NEW n \in Nat, NEW step \in [1..n -> [D -> D]],
           NEW f, Obeys(f, n, D, base, step)
    PROVE  RunsTo(f[1..n], n, D, base, step)
<1>0. /\ f[{}] = base
      /\ \A s \in SUBSET (1..n) : s # {} /\ f[s \ {Max(s)}] \in D =>
             f[s] = step[Max(s)][f[s \ {Max(s)}]]
  BY DEF Obeys
<1> DEFINE N == {k \in 0..n : f[1..k] \in D}
<1>1. ASSUME NEW k \in 1..n, f[1..(k-1)] \in D
      PROVE  f[1..k] = step[k][f[1..(k-1)]]
  <2> DEFINE t == 1..k
  <2>1. t \in SUBSET (1..n) /\ t # {} /\ Max(t) = k /\ t \ {k} = 1..(k-1)
    BY FoldSteps
  <2> HIDE DEF t
  <2>2. f[t \ {Max(t)}] \in D  BY <1>1, <2>1
  <2>3. f[t] = step[Max(t)][f[t \ {Max(t)}]]  BY <1>0, <2>1, <2>2
  <2>4. f[t] = step[k][f[1..(k-1)]]  BY <2>1, <2>3
  <2> QED BY <2>4 DEF t
<1>2. f[1..0] = base
  <2>1. 1..0 = {}  OBVIOUS
  <2> QED BY <1>0, <2>1
<1>3. \A k \in 0..n : k \in N
  <2>1. 0 \in N  BY <1>2
  <2>2. ASSUME NEW k \in 1..n, k - 1 \in N PROVE k \in N
    <3>1. f[1..(k-1)] \in D  BY <2>2
    <3>2. f[1..k] = step[k][f[1..(k-1)]]  BY <1>1, <3>1
    <3>3. f[1..k] \in D  BY <3>1, <3>2
    <3> QED BY <3>3
  <2> HIDE DEF N
  <2> QED BY <2>1, <2>2, Climbs
<1> DEFINE V == [k \in 0..n |-> f[1..k]]
<1>4. V \in [0..n -> D] /\ V[0] = base /\ V[n] = f[1..n]  BY <1>2, <1>3
<1>5. ASSUME NEW k \in 1..n PROVE V[k] = step[k][V[k-1]]
  <2>1. k - 1 \in 0..n /\ k \in 0..n  OBVIOUS
  <2>2. f[1..(k-1)] \in D  BY <1>3, <2>1
  <2>3. f[1..k] = step[k][f[1..(k-1)]]  BY <1>1, <2>2
  <2> QED BY <2>1, <2>3
<1> HIDE DEF V
<1>6. Runs(V, n, D, base, step)  BY <1>4, <1>5 DEF Runs
<1> QED BY <1>4, <1>6 DEF RunsTo

(* The runs of two folds agree as long as their steps do.                  *)
LEMMA RunsAgree ==
    ASSUME NEW D, NEW base, NEW n \in Nat, NEW m \in Nat, NEW V, NEW W,
           NEW step, NEW pace,
           Runs(V, n, D, base, step), Runs(W, m, D, base, pace), n <= m,
           \A k \in 1..n, x \in D : step[k][x] = pace[k][x]
    PROVE  V[n] = W[n]
<1> DEFINE S == {k \in 0..n : W[k] = V[k]}
<1>1. 0 \in S  BY DEF Runs
<1>2. ASSUME NEW k \in 1..n, k - 1 \in S PROVE k \in S
  <2>1. k \in 1..m /\ k - 1 \in 0..n /\ W[k-1] = V[k-1]  BY <1>2
  <2>2. V[k-1] \in D  BY <2>1 DEF Runs
  <2>3. W[k] = pace[k][W[k-1]] /\ V[k] = step[k][V[k-1]]
    BY <2>1 DEF Runs
  <2> QED BY <2>1, <2>2, <2>3
<1> HIDE DEF S
<1>3. \A k \in 0..n : k \in S  BY <1>1, <1>2, Climbs
<1>4. n \in S  BY <1>3
<1> QED BY <1>4 DEF S


(* Any list of steps can be run. *)
LEMMA RunsExist ==
    ASSUME NEW D, NEW base \in D, NEW n \in Nat, NEW step \in [1..n -> [D -> D]]
    PROVE  \E V : Runs(V, n, D, base, step)
<1>1. PICK g : Folds(g, n, D, base, step)  BY FoldExists
<1>2. Obeys(g, n, D, base, step)  BY <1>1 DEF Folds, Obeys
<1>3. RunsTo(g[1..n], n, D, base, step)
  <2>1. base \in D /\ n \in Nat /\ step \in [1..n -> [D -> D]] /\ Obeys(g, n, D, base, step)
    BY <1>2
  <2> QED BY ONLY <2>1, FoldRuns
<1> QED BY <1>3 DEF RunsTo
=============================================================================
