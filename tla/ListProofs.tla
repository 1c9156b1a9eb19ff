----------------------------- MODULE ListProofs -----------------------------
(***************************************************************************)
(* Proofs that the pointers of List are sequences, for any lists and any   *)
(* finite set of nodes.                                                    *)
(***************************************************************************)
EXTENDS List, DataLemmas, FiniteSetTheorems, TLAPS

-----------------------------------------------------------------------------
(* The loop of every search is given by its start and its links: there is  *)
(* one function that satisfies the recursion.                              *)
Times == Cardinality(Nodes) + 1
Steps(start, link, at) ==
    at = [k \in 1..Times |-> IF k = 1 THEN start
                             ELSE IF at[k-1] = NULL THEN NULL ELSE link[at[k-1]]]

LEMMA WalkIs ==
    ASSUME NEW start, NEW link
    PROVE  Walk(start, link) = CHOOSE at : Steps(start, link, at)
BY DEF Walk, Steps, Times

LEMMA TimesIs ==
    /\ Times \in Nat /\ Times >= 1 /\ Times = Cardinality(Nodes) + 1
    /\ Cardinality(Nodes) \in Nat
<1>1. Cardinality(Nodes) \in Nat  BY ListAssumption, FS_CardinalityType
<1> QED BY <1>1 DEF Times

LEMMA StepsUnique ==
    ASSUME NEW start, NEW link, NEW f, NEW g,
           Steps(start, link, f), Steps(start, link, g)
    PROVE  f = g
<1> DEFINE bad == {k \in 1..Times : f[k] # g[k]}
<1>1. f = [k \in 1..Times |-> f[k]] /\ g = [k \in 1..Times |-> g[k]]
  BY DEF Steps
<1>2. /\ f[1] = start /\ g[1] = start
      /\ \A k \in 2..Times :
            /\ f[k] = IF f[k-1] = NULL THEN NULL ELSE link[f[k-1]]
            /\ g[k] = IF g[k-1] = NULL THEN NULL ELSE link[g[k-1]]
  BY TimesIs DEF Steps
<1>3. bad = {}
  <2> SUFFICES ASSUME bad # {} PROVE FALSE  OBVIOUS
  <2>1. bad \subseteq Nat  BY TimesIs
  <2>2. PICK k \in bad : \A y \in bad : k <= y
    <3> HIDE DEF bad
    <3> QED BY <2>1, LeastExists
  <2>3. k \in 2..Times  BY <1>2, <2>2, TimesIs
  <2>4. k - 1 \notin bad /\ k - 1 \in 1..Times  BY <2>2, <2>3, TimesIs
  <2>5. f[k-1] = g[k-1]  BY <2>4
  <2>6. f[k] = g[k]  BY <1>2, <2>3, <2>5
  <2> QED BY <2>2, <2>6
<1>4. \A k \in 1..Times : f[k] = g[k]  BY <1>3
<1> HIDE DEF bad
<1> QED BY <1>1, <1>4

LEMMA ChainIs ==
    ASSUME NEW s \in Seq(Nodes), Len(s) < Times, NEW start, NEW link,
           start = (IF Len(s) = 0 THEN NULL ELSE s[1]),
           \A i \in 1..Len(s) : link[s[i]] = IF i = Len(s) THEN NULL ELSE s[i+1]
    PROVE  Chain(start, link) = s
<1> DEFINE f == [k \in 1..Times |-> IF k \in 1..Len(s) THEN s[k] ELSE NULL]
<1>0. /\ Len(s) \in Nat /\ \A i \in 1..Len(s) : s[i] \in Nodes /\ s[i] # NULL
      /\ s = [i \in 1..Len(s) |-> s[i]]
  BY ListAssumption, LenProperties
<1>1. Steps(start, link, f)
  <2>1. ASSUME NEW k \in 1..Times
        PROVE  f[k] = IF k = 1 THEN start
                      ELSE IF f[k-1] = NULL THEN NULL ELSE link[f[k-1]]
    <3>1. CASE k = 1  BY <1>0, <3>1, TimesIs
    <3>2. CASE k \in 2..Len(s)
      <4>1. k - 1 \in 1..Times /\ k - 1 \in 1..Len(s) /\ k - 1 # Len(s) /\ (k - 1) + 1 = k
        BY <1>0, <3>2, TimesIs
      <4>2. f[k-1] = s[k-1] /\ link[s[k-1]] = s[k]  BY <4>1
      <4>3. f[k] = s[k] /\ f[k-1] # NULL  BY <1>0, <3>2, <4>1, <4>2
      <4> QED BY <3>2, <4>2, <4>3
    <3>3. CASE k # 1 /\ k = Len(s) + 1
      <4>1. k - 1 \in 1..Times /\ k - 1 \in 1..Len(s) /\ k - 1 = Len(s)
        BY <1>0, <3>3, TimesIs
      <4>2. f[k-1] = s[k-1] /\ link[s[k-1]] = NULL  BY <4>1
      <4>3. f[k] = NULL  BY <1>0, <3>3
      <4> QED BY <1>0, <3>3, <4>1, <4>2, <4>3
    <3>4. CASE k # 1 /\ k > Len(s) + 1
      <4>1. k - 1 \in 1..Times /\ k - 1 \notin 1..Len(s) /\ k \notin 1..Len(s)
        BY <1>0, <3>4, TimesIs
      <4> QED BY <3>4, <4>1
    <3> QED BY <1>0, <3>1, <3>2, <3>3, <3>4, TimesIs
  <2> DEFINE g == [k \in 1..Times |-> IF k = 1 THEN start
                      ELSE IF f[k-1] = NULL THEN NULL ELSE link[f[k-1]]]
  <2>2. f = [k \in 1..Times |-> f[k]]  OBVIOUS
  <2> HIDE DEF f
  <2>3. f = g  BY <2>1, <2>2
  <2> QED BY <2>3 DEF Steps
<1>2. Walk(start, link) = f
  <2> HIDE DEF f
  <2> QED BY <1>1, WalkIs, StepsUnique
<1>3. {k \in DOMAIN f : f[k] # NULL} = 1..Len(s)
  <2>1. 1..Len(s) \subseteq 1..Times  BY <1>0, TimesIs
  <2> QED BY <1>0, <2>1
<1>4. \A k \in 1..Len(s) : f[k] = s[k]
  <2>1. 1..Len(s) \subseteq 1..Times  BY <1>0, TimesIs
  <2> QED BY <2>1
<1>5. Chain(start, link) = [k \in 1..Len(s) |-> f[k]]
  <2> HIDE DEF f
  <2> QED BY <1>2, <1>3 DEF Chain
<1> QED BY <1>0, <1>4, <1>5

-----------------------------------------------------------------------------
(* A sequence of nodes that a list's pointers make up.                     *)
Linked(s, fst, lst, pv, nx) ==
    /\ s \in Seq(Nodes)
    /\ \A i, j \in 1..Len(s) : s[i] = s[j] => i = j
    /\ fst = IF Len(s) = 0 THEN NULL ELSE s[1]
    /\ lst = IF Len(s) = 0 THEN NULL ELSE s[Len(s)]
    /\ \A i \in 1..Len(s) : nx[s[i]] = IF i = Len(s) THEN NULL ELSE s[i+1]
    /\ \A i \in 1..Len(s) : pv[s[i]] = IF i = 1 THEN NULL ELSE s[i-1]

LEMMA LinkedSize ==
    ASSUME NEW s \in Seq(Nodes), \A i, j \in 1..Len(s) : s[i] = s[j] => i = j
    PROVE  Len(s) < Times /\ Cardinality(ToSet(s)) = Len(s)
<1>0. Len(s) \in Nat /\ s \in [1..Len(s) -> Nodes]  BY LenProperties
<1>1. IsFiniteSet(1..Len(s)) /\ Cardinality(1..Len(s)) = Len(s)
  <2>1. Len(s) \in Int /\ 1 \in Int /\ (IF 1 > Len(s) THEN 0 ELSE Len(s) - 1 + 1) = Len(s)
    BY <1>0
  <2> HIDE <1>0
  <2> QED BY <2>1, FS_Interval
<1>2. Len(s) <= Cardinality(Nodes)
  <2>1. s \in Injection(1..Len(s), Nodes)  BY <1>0 DEF Injection, IsInjective
  <2> QED BY <1>1, <2>1, ListAssumption, FS_Injection
<1>3. Cardinality(ToSet(s)) = Len(s)
  <2>1. s \in Bijection(1..Len(s), ToSet(s))
    BY <1>0 DEF Bijection, Injection, IsInjective, Surjection, ToSet
  <2>2. ExistsBijection(1..Len(s), ToSet(s))  BY <2>1 DEF ExistsBijection
  <2> QED BY <1>1, <2>2, FS_Bijection
<1> QED BY <1>0, <1>2, <1>3, TimesIs

LEMMA LinkedChain ==
    ASSUME NEW s, NEW fst, NEW lst, NEW pv, NEW nx, Linked(s, fst, lst, pv, nx)
    PROVE  Chain(fst, nx) = s /\ Chain(lst, pv) = Reverse(s)
<1>1. s \in Seq(Nodes) /\ Len(s) < Times /\ Len(s) \in Nat
  BY LinkedSize DEF Linked
<1>2. Chain(fst, nx) = s
  <2>1. /\ fst = IF Len(s) = 0 THEN NULL ELSE s[1]
        /\ \A i \in 1..Len(s) : nx[s[i]] = IF i = Len(s) THEN NULL ELSE s[i+1]
    BY DEF Linked
  <2> QED BY ONLY <1>1, <2>1, ChainIs
<1> DEFINE r == Reverse(s)
<1>3. r \in Seq(Nodes) /\ Len(r) = Len(s) /\ \A i \in 1..Len(s) : r[i] = s[(Len(s) - i) + 1]
  <2>1. r = [i \in 1..Len(s) |-> s[(Len(s) - i) + 1]]  BY DEF Reverse
  <2>2. \A i \in 1..Len(s) : (Len(s) - i) + 1 \in 1..Len(s)  BY <1>1
  <2>3. \A i \in 1..Len(s) : s[(Len(s) - i) + 1] \in Nodes  BY <1>1, <2>2
  <2> HIDE DEF r
  <2> QED BY <1>1, <2>1, <2>3
<1> HIDE DEF r
<1>4. lst = IF Len(r) = 0 THEN NULL ELSE r[1]
  <2>1. (Len(s) - 1) + 1 = Len(s)  BY <1>1
  <2> QED BY <1>1, <1>3, <2>1 DEF Linked
<1>5. \A i \in 1..Len(r) : pv[r[i]] = IF i = Len(r) THEN NULL ELSE r[i+1]
  <2> SUFFICES ASSUME NEW i \in 1..Len(s)
               PROVE  pv[r[i]] = IF i = Len(s) THEN NULL ELSE r[i+1]
    BY <1>3
  <2> DEFINE j == (Len(s) - i) + 1
  <2>1. j \in 1..Len(s) /\ (j = 1 <=> i = Len(s))  BY <1>1
  <2>2. i # Len(s) => i + 1 \in 1..Len(s) /\ (Len(s) - (i + 1)) + 1 = j - 1  BY <1>1
  <2>3. r[i] = s[j] /\ (i # Len(s) => r[i+1] = s[j - 1])  BY <1>3, <2>2
  <2> HIDE DEF j
  <2> QED BY <2>1, <2>3 DEF Linked
<1>6. Chain(lst, pv) = r
  <2>1. r \in Seq(Nodes) /\ Len(r) < Times  BY <1>1, <1>3
  <2> QED BY ONLY <2>1, <1>4, <1>5, ChainIs
<1> QED BY <1>2, <1>6 DEF r

-----------------------------------------------------------------------------
(* A node comes to place k, the pointers around it are set.                *)
Splices(s, k, new, fst, lst, pv, nx, fst2, lst2, pv2, nx2) ==
    /\ fst2 = IF k = 1 THEN new ELSE fst
    /\ lst2 = IF k = Len(s) + 1 THEN new ELSE lst
    /\ pv2[new] = IF k = 1 THEN NULL ELSE s[k-1]
    /\ nx2[new] = IF k = Len(s) + 1 THEN NULL ELSE s[k]
    /\ \A i \in 1..Len(s) : nx2[s[i]] = IF i = k - 1 THEN new ELSE nx[s[i]]
    /\ \A i \in 1..Len(s) : pv2[s[i]] = IF i = k THEN new ELSE pv[s[i]]

Inserted(u, s, k, new) ==
    /\ u \in Seq(Nodes) /\ Len(u) = Len(s) + 1
    /\ \A j \in 1..(Len(s) + 1) : u[j] = IF j < k THEN s[j]
                                         ELSE IF j = k THEN new ELSE s[j-1]

LEMMA NodeInserted ==
    ASSUME NEW s \in Seq(Nodes), NEW new \in Nodes, NEW k \in 1..(Len(s) + 1)
    PROVE  Inserted(InsertAt(s, k, new), s, k, new)
<1>1. /\ InsertAt(s, k, new) \in Seq(Nodes)
      /\ Len(InsertAt(s, k, new)) = Len(s) + 1
  BY InsertAtProperties
<1>2. \A j \in 1..(Len(s) + 1) : InsertAt(s, k, new)[j] =
         IF j < k THEN s[j] ELSE IF j = k THEN new ELSE s[j-1]
  BY InsertAtProperties
<1> QED BY <1>1, <1>2 DEF Inserted

LEMMA SplicesLinks ==
    ASSUME NEW s, NEW fst, NEW lst, NEW pv, NEW nx, Linked(s, fst, lst, pv, nx),
           NEW k \in 1..(Len(s) + 1), NEW new \in Nodes, new \notin ToSet(s),
           NEW fst2, NEW lst2, NEW pv2, NEW nx2,
           Splices(s, k, new, fst, lst, pv, nx, fst2, lst2, pv2, nx2)
    PROVE  Linked(InsertAt(s, k, new), fst2, lst2, pv2, nx2)
<1> DEFINE u == InsertAt(s, k, new)
           n == Len(s)
<1>0. s \in Seq(Nodes) /\ n \in Nat /\ k \in Nat /\ k >= 1 /\ k <= n + 1
  BY DEF Linked
<1>1. /\ u \in Seq(Nodes) /\ Len(u) = n + 1
      /\ \A j \in 1..(n + 1) : u[j] = IF j < k THEN s[j] ELSE IF j = k THEN new ELSE s[j-1]
  <2>1. s \in Seq(Nodes) /\ new \in Nodes /\ k \in 1..(Len(s) + 1)  BY <1>0
  <2>2. Inserted(u, s, k, new)  BY <2>1, NodeInserted
  <2> HIDE DEF u
  <2> QED BY <2>2 DEF Inserted
<1>2. \A i \in 1..n : s[i] # new  BY <1>0 DEF ToSet
<1> HIDE DEF u, n
<1>3. \A j \in 1..(n + 1) :
         \/ j < k /\ j \in 1..n /\ u[j] = s[j]
         \/ j = k /\ u[j] = new
         \/ j > k /\ j - 1 \in 1..n /\ u[j] = s[j-1]
  BY <1>0, <1>1
<1>4. \A i, j \in 1..n : s[i] = s[j] => i = j  BY DEF Linked, n
<1>5. ASSUME NEW i \in 1..(n + 1), NEW j \in 1..(n + 1), u[i] = u[j] PROVE i = j
  <2>1. CASE i = k \/ j = k
    <3>1. i # k => u[i] # new  BY <1>2, <1>3
    <3>2. j # k => u[j] # new  BY <1>2, <1>3
    <3>3. u[k] = new  BY <1>0, <1>1
    <3> QED BY <1>5, <2>1, <3>1, <3>2, <3>3
  <2>2. CASE i # k /\ j # k
    <3>1. PICK p \in 1..n : u[i] = s[p] /\ (i < k => p = i) /\ (i > k => p = i - 1)
      BY <1>0, <1>3, <2>2
    <3>2. PICK q \in 1..n : u[j] = s[q] /\ (j < k => q = j) /\ (j > k => q = j - 1)
      BY <1>0, <1>3, <2>2
    <3>3. p = q  BY <1>4, <1>5, <3>1, <3>2
    <3> QED BY <1>0, <2>2, <3>1, <3>2, <3>3
  <2> QED BY <2>1, <2>2
<1>6. fst2 = u[1]
  <2>1. CASE k = 1  BY <1>0, <1>1, <2>1 DEF Splices, n
  <2>2. CASE k # 1
    <3>1. n # 0 /\ 1 < k /\ 1 \in 1..(n + 1)  BY <1>0, <2>2
    <3>2. fst = s[1]  BY <3>1 DEF Linked, n
    <3> QED BY <1>1, <2>2, <3>1, <3>2 DEF Splices
  <2> QED BY <2>1, <2>2
<1>7. lst2 = u[n + 1]
  <2>1. CASE k = n + 1  BY <1>0, <1>1, <2>1 DEF Splices, n
  <2>2. CASE k # n + 1
    <3>1. n # 0 /\ n + 1 > k /\ n + 1 \in 1..(n + 1) /\ (n + 1) - 1 = n  BY <1>0, <2>2
    <3>2. lst = s[n]  BY <3>1 DEF Linked, n
    <3> QED BY <1>1, <2>2, <3>1, <3>2 DEF Splices, n
  <2> QED BY <2>1, <2>2
<1>8. ASSUME NEW j \in 1..(n + 1)
      PROVE  nx2[u[j]] = IF j = n + 1 THEN NULL ELSE u[j+1]
  <2>1. CASE j = k
    <3>1. u[j] = new /\ nx2[new] = IF k = n + 1 THEN NULL ELSE s[k]
      BY <1>3, <2>1 DEF Splices, n
    <3>2. k # n + 1 => u[k+1] = s[k]
      <4>1. k # n + 1 => k + 1 \in 1..(n + 1) /\ k + 1 > k /\ (k + 1) - 1 = k  BY <1>0
      <4> QED BY <1>0, <1>1, <4>1
    <3> QED BY <2>1, <3>1, <3>2
  <2>2. CASE j < k
    <3>1. u[j] = s[j] /\ j \in 1..n /\ j + 1 \in 1..(n + 1) /\ j # n + 1 /\ j + 1 <= k
      BY <1>0, <1>3, <2>2
    <3>2. nx2[s[j]] = IF j = k - 1 THEN new ELSE nx[s[j]]
      BY <3>1 DEF Splices, n
    <3>3. nx[s[j]] = IF j = n THEN NULL ELSE s[j+1]  BY <3>1 DEF Linked, n
    <3>4. CASE j + 1 = k
      <4>1. j = k - 1 /\ u[j+1] = new  BY <1>0, <1>1, <3>1, <3>4
      <4> QED BY <3>1, <3>2, <4>1
    <3>5. CASE j + 1 # k
      <4>1. j # k - 1 /\ j + 1 < k /\ j # n /\ u[j+1] = s[j+1]  BY <1>0, <1>1, <3>1, <3>5
      <4> QED BY <3>1, <3>2, <3>3, <4>1
    <3> QED BY <3>4, <3>5
  <2>3. CASE j > k
    <3>1. u[j] = s[j-1] /\ j - 1 \in 1..n /\ j - 1 # k - 1  BY <1>0, <1>3, <2>3
    <3>2. nx2[s[j-1]] = nx[s[j-1]]  BY <3>1 DEF Splices, n
    <3>3. nx[s[j-1]] = IF j - 1 = n THEN NULL ELSE s[(j-1)+1]  BY <3>1 DEF Linked, n
    <3>4. j - 1 = n <=> j = n + 1  BY <1>0
    <3>5. (j - 1) + 1 = j /\ (j # n + 1 => u[j+1] = s[j])
      <4>1. j # n + 1 => j + 1 \in 1..(n + 1) /\ j + 1 > k /\ (j + 1) - 1 = j
        BY <1>0, <2>3
      <4> QED BY <1>0, <1>1, <4>1
    <3> QED BY <3>1, <3>2, <3>3, <3>4, <3>5
  <2> QED BY <1>0, <2>1, <2>2, <2>3
<1>9. ASSUME NEW j \in 1..(n + 1)
      PROVE  pv2[u[j]] = IF j = 1 THEN NULL ELSE u[j-1]
  <2>1. CASE j = k
    <3>1. u[j] = new /\ pv2[new] = IF k = 1 THEN NULL ELSE s[k-1]
      BY <1>3, <2>1 DEF Splices
    <3>2. k # 1 => u[k-1] = s[k-1]
      <4>1. k # 1 => k - 1 \in 1..(n + 1) /\ k - 1 < k  BY <1>0
      <4> QED BY <1>0, <1>1, <4>1
    <3> QED BY <2>1, <3>1, <3>2
  <2>2. CASE j < k
    <3>1. u[j] = s[j] /\ j \in 1..n /\ j # k  BY <1>0, <1>3, <2>2
    <3>2. pv2[s[j]] = pv[s[j]]  BY <3>1 DEF Splices, n
    <3>3. pv[s[j]] = IF j = 1 THEN NULL ELSE s[j-1]  BY <3>1 DEF Linked, n
    <3>4. j # 1 => u[j-1] = s[j-1]
      <4>1. j # 1 => j - 1 \in 1..(n + 1) /\ j - 1 < k  BY <1>0, <2>2
      <4> QED BY <1>0, <1>1, <4>1
    <3> QED BY <3>1, <3>2, <3>3, <3>4
  <2>3. CASE j > k
    <3>1. u[j] = s[j-1] /\ j - 1 \in 1..n /\ j # 1 /\ j - 1 \in 1..(n + 1)
      BY <1>0, <1>3, <2>3
    <3>2. pv2[s[j-1]] = IF j - 1 = k THEN new ELSE pv[s[j-1]]  BY <3>1 DEF Splices, n
    <3>3. pv[s[j-1]] = IF j - 1 = 1 THEN NULL ELSE s[(j-1)-1]  BY <3>1 DEF Linked, n
    <3>4. CASE j - 1 = k  BY <1>0, <1>1, <3>1, <3>2, <3>4
    <3>5. CASE j - 1 # k
      <4>1. j - 1 > k /\ j - 1 # 1  BY <1>0, <2>3, <3>5
      <4>2. u[j-1] = s[(j-1)-1]  BY <1>0, <1>1, <3>1, <4>1
      <4> QED BY <3>1, <3>2, <3>3, <3>5, <4>1, <4>2
    <3> QED BY <3>4, <3>5
  <2> QED BY <1>0, <2>1, <2>2, <2>3
<1>10. n + 1 # 0  BY <1>0
<1> QED BY <1>1, <1>5, <1>6, <1>7, <1>8, <1>9, <1>10 DEF Linked, u

(* The node at place k goes.                                               *)
Cuts(s, k, fst, lst, pv, nx, fst2, lst2, pv2, nx2) ==
    LET before == IF k = 1 THEN NULL ELSE s[k-1]
        behind == IF k = Len(s) THEN NULL ELSE s[k+1]
    IN  /\ fst2 = IF k = 1 THEN behind ELSE fst
        /\ lst2 = IF k = Len(s) THEN before ELSE lst
        /\ \A i \in 1..Len(s) : nx2[s[i]] = IF i = k - 1 THEN behind ELSE nx[s[i]]
        /\ \A i \in 1..Len(s) : pv2[s[i]] = IF i = k + 1 THEN before ELSE pv[s[i]]

LEMMA CutsLinks ==
    ASSUME NEW s, NEW fst, NEW lst, NEW pv, NEW nx, Linked(s, fst, lst, pv, nx),
           NEW k \in 1..Len(s), NEW fst2, NEW lst2, NEW pv2, NEW nx2,
           Cuts(s, k, fst, lst, pv, nx, fst2, lst2, pv2, nx2)
    PROVE  Linked(RemoveAt(s, k), fst2, lst2, pv2, nx2)
<1> DEFINE u == RemoveAt(s, k)
           n == Len(s)
           before == IF k = 1 THEN NULL ELSE s[k-1]
           behind == IF k = n THEN NULL ELSE s[k+1]
<1>0. s \in Seq(Nodes) /\ n \in Nat /\ k \in Nat /\ k >= 1 /\ k <= n
  BY DEF Linked
<1>1. /\ u \in Seq(Nodes) /\ Len(u) = n - 1
      /\ \A j \in 1..(n - 1) : u[j] = IF j < k THEN s[j] ELSE s[j+1]
  BY <1>0, RemoveAtProperties
<1>2. /\ fst2 = IF k = 1 THEN behind ELSE fst
      /\ lst2 = IF k = n THEN before ELSE lst
      /\ \A i \in 1..n : nx2[s[i]] = IF i = k - 1 THEN behind ELSE nx[s[i]]
      /\ \A i \in 1..n : pv2[s[i]] = IF i = k + 1 THEN before ELSE pv[s[i]]
  BY DEF Cuts
<1> HIDE DEF u, n
<1>3. /\ \A i, j \in 1..n : s[i] = s[j] => i = j
      /\ fst = s[1] /\ lst = s[n]
      /\ \A i \in 1..n : nx[s[i]] = IF i = n THEN NULL ELSE s[i+1]
      /\ \A i \in 1..n : pv[s[i]] = IF i = 1 THEN NULL ELSE s[i-1]
  <2>1. n # 0  BY <1>0
  <2> QED BY <2>1 DEF Linked, n
<1>4. ASSUME NEW j \in 1..(n - 1)
      PROVE  /\ j \in 1..n /\ j + 1 \in 1..n /\ (j + 1) - 1 = j /\ j # n
             /\ j < k => u[j] = s[j]
             /\ j >= k => u[j] = s[j+1]
  BY <1>0, <1>1
<1>5. ASSUME NEW i \in 1..(n - 1), NEW j \in 1..(n - 1), u[i] = u[j] PROVE i = j
  <2>1. PICK p \in 1..n : u[i] = s[p] /\ (i < k => p = i) /\ (i >= k => p = i + 1)
    BY <1>0, <1>4
  <2>2. PICK q \in 1..n : u[j] = s[q] /\ (j < k => q = j) /\ (j >= k => q = j + 1)
    BY <1>0, <1>4
  <2>3. p = q  BY <1>3, <1>5, <2>1, <2>2
  <2> QED BY <1>0, <2>1, <2>2, <2>3
<1>6. fst2 = IF n - 1 = 0 THEN NULL ELSE u[1]
  <2>1. CASE n = 1  BY <1>0, <1>2, <2>1
  <2>2. CASE n # 1 /\ k = 1
    <3>1. 1 \in 1..(n - 1) /\ n - 1 # 0  BY <1>0, <2>2
    <3> QED BY <1>2, <1>4, <2>2, <3>1
  <2>3. CASE n # 1 /\ k # 1
    <3>1. 1 \in 1..(n - 1) /\ n - 1 # 0 /\ 1 < k  BY <1>0, <2>3
    <3> QED BY <1>2, <1>3, <1>4, <2>3, <3>1
  <2> QED BY <2>1, <2>2, <2>3
<1>7. lst2 = IF n - 1 = 0 THEN NULL ELSE u[n - 1]
  <2>1. CASE n = 1  BY <1>0, <1>2, <2>1
  <2>2. CASE n # 1 /\ k = n
    <3>1. n - 1 \in 1..(n - 1) /\ n - 1 # 0 /\ n - 1 < k  BY <1>0, <2>2
    <3> QED BY <1>2, <1>4, <2>2, <3>1
  <2>3. CASE n # 1 /\ k # n
    <3>1. n - 1 \in 1..(n - 1) /\ n - 1 # 0 /\ n - 1 >= k /\ (n - 1) + 1 = n
      BY <1>0, <2>3
    <3> QED BY <1>2, <1>3, <1>4, <2>3, <3>1
  <2> QED BY <2>1, <2>2, <2>3
<1>8. ASSUME NEW j \in 1..(n - 1)
      PROVE  nx2[u[j]] = IF j = n - 1 THEN NULL ELSE u[j+1]
  <2>1. CASE j < k - 1
    <3>1. j + 1 \in 1..(n - 1) /\ j + 1 < k /\ j < k /\ j # k - 1 /\ j # n - 1
      BY <1>0, <2>1
    <3>2. u[j] = s[j] /\ u[j+1] = s[j+1] /\ nx2[s[j]] = nx[s[j]] /\ nx[s[j]] = s[j+1]
      BY <1>2, <1>3, <1>4, <3>1
    <3> QED BY <3>1, <3>2
  <2>2. CASE j = k - 1
    <3>1. j < k /\ j + 1 = k /\ (j = n - 1 <=> k = n)  BY <1>0, <2>2
    <3>2. u[j] = s[j] /\ nx2[s[j]] = behind  BY <1>2, <1>4, <2>2, <3>1
    <3>3. k # n => k \in 1..(n - 1) /\ k >= k  BY <1>0
    <3>4. k # n => u[k] = s[k+1]  BY <1>4, <3>3
    <3> QED BY <3>1, <3>2, <3>4
  <2>3. CASE j >= k
    <3>1. u[j] = s[j+1] /\ j + 1 # k - 1 /\ (j + 1 = n <=> j = n - 1)
      BY <1>0, <1>4, <2>3
    <3>2. nx2[s[j+1]] = nx[s[j+1]] /\ nx[s[j+1]] = IF j + 1 = n THEN NULL ELSE s[(j+1)+1]
      BY <1>2, <1>3, <1>4, <3>1
    <3>3. j # n - 1 => j + 1 \in 1..(n - 1) /\ j + 1 >= k  BY <1>0, <2>3
    <3>4. j # n - 1 => u[j+1] = s[(j+1)+1]  BY <1>4, <3>3
    <3> QED BY <3>1, <3>2, <3>4
  <2> QED BY <1>0, <2>1, <2>2, <2>3
<1>9. ASSUME NEW j \in 1..(n - 1)
      PROVE  pv2[u[j]] = IF j = 1 THEN NULL ELSE u[j-1]
  <2>1. j # 1 => j - 1 \in 1..(n - 1) /\ (j - 1) + 1 = j  BY <1>0
  <2>2. CASE j < k
    <3>1. u[j] = s[j] /\ j # k + 1 /\ (j # 1 => j - 1 < k)  BY <1>0, <1>4, <2>2
    <3>2. pv2[s[j]] = pv[s[j]] /\ pv[s[j]] = IF j = 1 THEN NULL ELSE s[j-1]
      BY <1>2, <1>3, <1>4, <3>1
    <3>3. j # 1 => u[j-1] = s[j-1]  BY <1>4, <2>1, <3>1
    <3> QED BY <3>1, <3>2, <3>3
  <2>3. CASE j = k
    <3>1. u[j] = s[j+1] /\ j + 1 = k + 1  BY <1>0, <1>4, <2>3
    <3>2. pv2[s[j+1]] = before  BY <1>2, <1>4, <2>3, <3>1
    <3>3. j # 1 => j - 1 < k  BY <1>0, <2>3
    <3>4. j # 1 => u[j-1] = s[j-1]  BY <1>4, <2>1, <3>3
    <3> QED BY <2>3, <3>1, <3>2, <3>4
  <2>4. CASE j > k
    <3>1. u[j] = s[j+1] /\ j + 1 # k + 1 /\ j # 1 /\ j - 1 >= k /\ j + 1 # 1
      BY <1>0, <1>4, <2>4
    <3>2. pv2[s[j+1]] = pv[s[j+1]] /\ pv[s[j+1]] = s[(j+1)-1]
      BY <1>2, <1>3, <1>4, <3>1
    <3>3. u[j-1] = s[(j-1)+1]  BY <1>4, <2>1, <3>1
    <3>4. (j + 1) - 1 = j  BY <1>0
    <3> QED BY <2>1, <3>1, <3>2, <3>3, <3>4
  <2> QED BY <1>0, <2>2, <2>3, <2>4
<1> QED BY <1>1, <1>5, <1>6, <1>7, <1>8, <1>9 DEF Linked, u

(* Pointers of nodes that are on another list.                             *)
LEMMA ElsewhereLinks ==
    ASSUME NEW s, NEW fst, NEW lst, NEW pv, NEW nx, Linked(s, fst, lst, pv, nx),
           NEW pv2, NEW nx2, \A node \in ToSet(s) : pv2[node] = pv[node] /\ nx2[node] = nx[node]
    PROVE  Linked(s, fst, lst, pv2, nx2)
<1>1. \A i \in 1..Len(s) : s[i] \in ToSet(s)  BY DEF ToSet, Linked
<1>2. \A i \in 1..Len(s) : pv2[s[i]] = pv[s[i]] /\ nx2[s[i]] = nx[s[i]]  BY <1>1
<1> QED BY <1>2 DEF Linked

-----------------------------------------------------------------------------
(* The invariant: each list's pointers are those of the sequence that the  *)
(* loop of a search meets, and no node is on two lists.                    *)
Sound(list) == Linked(Forward(list), first[list], last[list], prev, next)
Apart == \A l1, l2 \in Lists : l1 # l2 => Members(l1) \cap Members(l2) = {}
ListInv == TypeOK /\ (\A list \in Lists : Sound(list)) /\ Apart

LEMMA ForwardIs ==
    ASSUME NEW list \in Lists, NEW s, Linked(s, first[list], last[list], prev, next)
    PROVE  Forward(list) = s
BY LinkedChain DEF Forward

LEMMA ForwardBecomes ==
    ASSUME NEW list \in Lists, NEW s, Linked(s, first'[list], last'[list], prev', next')
    PROVE  Forward(list)' = s /\ Sound(list)'
BY LinkedChain DEF Forward, Sound

(* What a step on one list leaves alone: the other lists, and all nodes    *)
(* that are not on this list, but for a new one.                           *)
Spares(list, new) ==
    /\ \A other \in Lists \ {list} : first'[other] = first[other] /\ last'[other] = last[other]
    /\ \A node \in (Nodes \ Members(list)) \ {new} :
          prev'[node] = prev[node] /\ next'[node] = next[node]

LEMMA SparesOthers ==
    ASSUME ListInv, NEW list \in Lists, NEW new, new \in Loose \cup Members(list),
           Spares(list, new), NEW other \in Lists, other # list
    PROVE  Forward(other)' = Forward(other) /\ Sound(other)'
<1> DEFINE s == Forward(other)
<1>1. Linked(s, first[other], last[other], prev, next)  BY DEF ListInv, Sound
<1>2. /\ ToSet(s) \subseteq Nodes /\ ToSet(s) \cap Members(list) = {} /\ new \notin ToSet(s)
  <2>1. ToSet(s) \subseteq Nodes  BY <1>1 DEF Linked, ToSet
  <2>2. ToSet(s) = Members(other)  BY DEF Members
  <2>3. Members(other) \cap Members(list) = {}  BY DEF ListInv, Apart
  <2>4. new \notin Members(other)  BY <2>3 DEF Loose
  <2> QED BY <2>1, <2>2, <2>3, <2>4
<1> HIDE DEF s
<1>3. \A node \in ToSet(s) : prev'[node] = prev[node] /\ next'[node] = next[node]
  BY <1>2 DEF Spares
<1>4. Linked(s, first[other], last[other], prev', next')
  BY <1>1, <1>3, ElsewhereLinks
<1>5. first'[other] = first[other] /\ last'[other] = last[other]  BY DEF Spares
<1>6. Linked(s, first'[other], last'[other], prev', next')  BY <1>4, <1>5
<1> QED BY <1>6, ForwardBecomes DEF s

LEMMA Inserts ==
    ASSUME ListInv, TypeOK', NEW list \in Lists, NEW new \in Loose,
           NEW k \in 1..(Len(Forward(list)) + 1), Spares(list, new),
           Splices(Forward(list), k, new, first[list], last[list], prev, next,
                   first'[list], last'[list], prev', next')
    PROVE  ListInv' /\ Becomes(list, InsertAt(Forward(list), k, new))
<1> DEFINE s == Forward(list)
           u == InsertAt(s, k, new)
<1>1. Linked(s, first[list], last[list], prev, next)  BY DEF ListInv, Sound
<1>2. new \in Nodes /\ new \notin ToSet(s)  BY DEF Loose, Members
<1>3. Forward(list)' = u /\ Sound(list)'
  <2>1. Splices(s, k, new, first[list], last[list], prev, next,
                first'[list], last'[list], prev', next') /\ k \in 1..(Len(s) + 1)
    OBVIOUS
  <2> HIDE DEF s, u
  <2>2. Linked(InsertAt(s, k, new), first'[list], last'[list], prev', next')
    BY ONLY <1>1, <1>2, <2>1, SplicesLinks
  <2> QED BY <2>2, ForwardBecomes DEF u
<1>4. \A other \in Lists \ {list} : Forward(other)' = Forward(other) /\ Sound(other)'
  BY SparesOthers
<1>5. ToSet(u) \subseteq ToSet(s) \cup {new}
  <2>1. s \in Seq(Nodes)  BY <1>1 DEF Linked
  <2>2. /\ u \in Seq(Nodes) /\ Len(u) = Len(s) + 1
        /\ \A j \in 1..(Len(s) + 1) : u[j] = IF j < k THEN s[j]
                                             ELSE IF j = k THEN new ELSE s[j-1]
    <3> k \in 1..(Len(s) + 1)  OBVIOUS
    <3> HIDE DEF s
    <3>1. Inserted(u, s, k, new)  BY <1>2, <2>1, NodeInserted
    <3> HIDE DEF u
    <3> QED BY <3>1 DEF Inserted
  <2>3. \A j \in 1..(Len(s) + 1) : (j < k => j \in 1..Len(s)) /\ (j > k => j - 1 \in 1..Len(s))
    BY <2>1
  <2>4. \A j \in 1..Len(s) : s[j] \in ToSet(s)  BY <2>1 DEF ToSet
  <2>5. \A x \in ToSet(u) : \E j \in 1..(Len(s) + 1) : x = u[j]  BY <2>2 DEF ToSet
  <2> HIDE DEF s, u
  <2> SUFFICES ASSUME NEW x \in ToSet(u) PROVE x \in ToSet(s) \cup {new}  OBVIOUS
  <2>6. PICK j \in 1..(Len(s) + 1) : x = u[j]  BY <2>5
  <2>7. u[j] \in {s[j], s[j-1], new} /\ (j < k \/ j = k \/ j > k)  BY <2>1, <2>2
  <2>8. CASE j < k  BY <2>2, <2>3, <2>4, <2>6, <2>8
  <2>9. CASE j = k  BY <2>2, <2>6, <2>9
  <2>10. CASE j > k
    <3>1. u[j] = s[j-1]  BY <2>1, <2>2, <2>10
    <3> QED BY <2>3, <2>4, <2>6, <2>10, <3>1
  <2> QED BY <2>7, <2>8, <2>9, <2>10
<1>6. Apart'
  <2>1. Members(list)' \subseteq Members(list) \cup {new}  BY <1>3, <1>5 DEF Members
  <2>2. \A other \in Lists \ {list} : Members(other)' = Members(other)  BY <1>4 DEF Members
  <2>3. \A other \in Lists : new \notin Members(other)  BY DEF Loose
  <2> QED BY <2>1, <2>2, <2>3 DEF Apart, ListInv
<1>7. ListInv'  BY <1>3, <1>4, <1>6 DEF ListInv
<1>8. Becomes(list, u)  BY <1>3, <1>4 DEF Becomes
<1> QED BY <1>7, <1>8

LEMMA Removes ==
    ASSUME ListInv, TypeOK', NEW list \in Lists, NEW k \in 1..Len(Forward(list)),
           NEW node \in Members(list), Spares(list, node),
           Cuts(Forward(list), k, first[list], last[list], prev, next,
                first'[list], last'[list], prev', next')
    PROVE  ListInv' /\ Becomes(list, RemoveAt(Forward(list), k))
<1> DEFINE s == Forward(list)
           u == RemoveAt(s, k)
<1>1. Linked(s, first[list], last[list], prev, next)  BY DEF ListInv, Sound
<1>2. s \in Seq(Nodes)  BY <1>1 DEF Linked
<1>3. Forward(list)' = u /\ Sound(list)'
  <2>1. Cuts(s, k, first[list], last[list], prev, next,
             first'[list], last'[list], prev', next') /\ k \in 1..Len(s)
    OBVIOUS
  <2> HIDE DEF s, u
  <2>2. Linked(RemoveAt(s, k), first'[list], last'[list], prev', next')
    BY ONLY <1>1, <2>1, CutsLinks
  <2> QED BY <2>2, ForwardBecomes DEF u
<1>4. \A other \in Lists \ {list} : Forward(other)' = Forward(other) /\ Sound(other)'
  BY SparesOthers
<1>5. ToSet(u) \subseteq ToSet(s)
  <2>1. /\ u \in Seq(Nodes) /\ Len(u) = Len(s) - 1
        /\ \A j \in 1..(Len(s) - 1) : u[j] = IF j < k THEN s[j] ELSE s[j+1]
    <3> k \in 1..Len(s)  OBVIOUS
    <3> HIDE DEF s
    <3> QED BY <1>2, RemoveAtProperties
  <2>2. \A j \in 1..(Len(s) - 1) : j \in 1..Len(s) /\ j + 1 \in 1..Len(s)  BY <1>2
  <2>3. \A j \in 1..Len(s) : s[j] \in ToSet(s)  BY <1>2 DEF ToSet
  <2>4. \A x \in ToSet(u) : \E j \in 1..(Len(s) - 1) : x = u[j]  BY <2>1 DEF ToSet
  <2> HIDE DEF s, u
  <2> QED BY <2>1, <2>2, <2>3, <2>4
<1>6. Apart'
  <2>1. Members(list)' \subseteq Members(list)  BY <1>3, <1>5 DEF Members
  <2>2. \A other \in Lists \ {list} : Members(other)' = Members(other)  BY <1>4 DEF Members
  <2> QED BY <2>1, <2>2 DEF Apart, ListInv
<1>7. ListInv'  BY <1>3, <1>4, <1>6 DEF ListInv
<1>8. Becomes(list, u)  BY <1>3, <1>4 DEF Becomes
<1> QED BY <1>7, <1>8

-----------------------------------------------------------------------------
(* The operations. *)
LEMMA Place ==
    ASSUME ListInv, NEW list \in Lists, NEW node \in Members(list)
    PROVE  /\ At(list, node) \in 1..Len(Forward(list))
           /\ Forward(list)[At(list, node)] = node
<1>1. Forward(list) \in Seq(Nodes)  BY DEF ListInv, Sound, Linked
<1>2. \E i \in 1..Len(Forward(list)) : Forward(list)[i] = node
  BY <1>1 DEF Members, ToSet
<1> QED BY <1>1, <1>2 DEF At

(* The sequence of a list and the place of a node, and what the pointers   *)
(* have around it.                                                         *)
LEMMA Around ==
    ASSUME ListInv, NEW list \in Lists, NEW s, s = Forward(list)
    PROVE  /\ s \in Seq(Nodes) /\ Len(s) \in Nat
           /\ \A i \in 1..Len(s) : s[i] \in Members(list) /\ s[i] \in Nodes /\ s[i] # NULL
           /\ \A i, j \in 1..Len(s) : s[i] = s[j] => i = j
           /\ first[list] = IF Len(s) = 0 THEN NULL ELSE s[1]
           /\ last[list] = IF Len(s) = 0 THEN NULL ELSE s[Len(s)]
           /\ \A i \in 1..Len(s) : next[s[i]] = IF i = Len(s) THEN NULL ELSE s[i+1]
           /\ \A i \in 1..Len(s) : prev[s[i]] = IF i = 1 THEN NULL ELSE s[i-1]
<1>1. Linked(s, first[list], last[list], prev, next)  BY DEF ListInv, Sound
<1>2. s \in Seq(Nodes) /\ Len(s) \in Nat  BY <1>1 DEF Linked
<1>3. \A i \in 1..Len(s) : s[i] \in Members(list) /\ s[i] \in Nodes /\ s[i] # NULL
  BY <1>2, ListAssumption DEF Members, ToSet
<1> QED BY <1>1, <1>2, <1>3 DEF Linked

LEMMA MembersAreNodes == ASSUME ListInv, NEW list \in Lists PROVE Members(list) \subseteq Nodes
<1>1. Forward(list) \in Seq(Nodes)  BY DEF ListInv, Sound, Linked
<1> QED BY <1>1 DEF Members, ToSet

LEMMA TypesIs ==
    ListInv => /\ first \in [Lists -> Nodes \cup {NULL}] /\ last \in [Lists -> Nodes \cup {NULL}]
               /\ prev \in [Nodes -> Nodes \cup {NULL}] /\ next \in [Nodes -> Nodes \cup {NULL}]
BY DEF ListInv, TypeOK

LEMMA AfterActs ==
    ASSUME ListInv, NEW list \in Lists, NEW node \in Members(list), NEW new \in Loose,
           insert_after(list, node, new)
    PROVE  ListInv' /\ Becomes(list, InsertAt(Forward(list), At(list, node) + 1, new))
<1> DEFINE s == Forward(list)
           i == At(list, node)
           n == Len(s)
<1>1. i \in 1..n /\ s[i] = node  BY Place
<1>2. /\ n \in Nat
      /\ \A j \in 1..n : s[j] \in Members(list) /\ s[j] \in Nodes /\ s[j] # NULL
      /\ \A j, l \in 1..n : s[j] = s[l] => j = l
      /\ next[node] = IF i = n THEN NULL ELSE s[i+1]
  <2> HIDE DEF i
  <2> QED BY <1>1, Around
<1>3. new \in Nodes /\ node \in Nodes /\ new \notin Members(list) /\ new # NULL
  BY MembersAreNodes, ListAssumption DEF Loose
<1>4. /\ next[node] # new /\ node # new
      /\ next[node] \in Members(list) \cup {NULL}
  <2> HIDE DEF s, i
  <2>1. i # n => i + 1 \in 1..n  BY <1>1, <1>2
  <2> QED BY <1>1, <1>2, <1>3, <2>1
<1>5. /\ prev'[new] = node
      /\ \A m \in Nodes : m # new => prev'[m] = IF m = next[node] THEN new ELSE prev[m]
      /\ prev' \in [Nodes -> Nodes \cup {NULL}]
  <2>1. prev' = [m \in Nodes |-> CASE m = new -> node [] m = next[node] -> new [] OTHER -> prev[m]]
    BY DEF insert_after
  <2>2. /\ prev'[new] = node
        /\ \A m \in Nodes : m # new => prev'[m] = IF m = next[node] THEN new ELSE prev[m]
    BY <1>3, <1>4, <2>1
  <2>3. \A m \in Nodes : prev'[m] \in Nodes \cup {NULL}
    BY <1>3, <2>2, TypesIs
  <2> QED BY <2>1, <2>2, <2>3
<1>6. /\ next'[new] = next[node] /\ next'[node] = new
      /\ \A m \in Nodes : m # new /\ m # node => next'[m] = next[m]
      /\ next' \in [Nodes -> Nodes \cup {NULL}]
  BY <1>3, <1>4, TypesIs DEF insert_after
<1>7. /\ first' = first
      /\ last'[list] = IF next[node] = NULL THEN new ELSE last[list]
      /\ \A other \in Lists \ {list} : last'[other] = last[other]
      /\ last' \in [Lists -> Nodes \cup {NULL}]
  BY <1>3, TypesIs DEF insert_after
<1>8. TypeOK'  BY <1>5, <1>6, <1>7, TypesIs DEF TypeOK
<1>9. Spares(list, new)
  <2>1. \A m \in (Nodes \ Members(list)) \ {new} : m # node /\ m # next[node]
    BY <1>4, ListAssumption
  <2> HIDE DEF s, i
  <2> QED BY <1>5, <1>6, <1>7, <2>1 DEF Spares
<1> HIDE DEF s, i, n
<1>10. /\ i + 1 \in 1..(n + 1) /\ (i + 1) - 1 = i /\ i + 1 # 1
       /\ (i + 1 = n + 1 <=> i = n) /\ (next[node] = NULL <=> i = n)
  <2>1. i \in 1..n /\ n \in Nat /\ (i # n => i + 1 \in 1..n)  BY <1>1, <1>2
  <2>2. next[node] = NULL <=> i = n  BY <1>2, <2>1
  <2> QED BY <2>1, <2>2
<1>11. \A j \in 1..n : next'[s[j]] = IF j = (i + 1) - 1 THEN new ELSE next[s[j]]
  <2> SUFFICES ASSUME NEW j \in 1..n
               PROVE  next'[s[j]] = IF j = i THEN new ELSE next[s[j]]
    BY <1>10
  <2>1. s[j] = node <=> j = i  BY <1>1, <1>2
  <2>2. s[j] \in Nodes /\ s[j] # new  BY <1>2, <1>3
  <2> QED BY <1>6, <2>1, <2>2
<1>12. \A j \in 1..n : prev'[s[j]] = IF j = i + 1 THEN new ELSE prev[s[j]]
  <2> SUFFICES ASSUME NEW j \in 1..n
               PROVE  prev'[s[j]] = IF j = i + 1 THEN new ELSE prev[s[j]]
    OBVIOUS
  <2>1. s[j] = next[node] <=> j = i + 1
    <3>1. i # n => i + 1 \in 1..n  BY <1>1, <1>2
    <3>2. i = n => j # i + 1  BY <1>1, <1>2
    <3> QED BY <1>2, <3>1, <3>2
  <2>2. s[j] \in Nodes /\ s[j] # new  BY <1>2, <1>3
  <2> QED BY <1>5, <2>1, <2>2
<1>13. Splices(s, i + 1, new, first[list], last[list], prev, next,
               first'[list], last'[list], prev', next')
  <2>1. next'[new] = IF i + 1 = n + 1 THEN NULL ELSE s[i + 1]  BY <1>2, <1>6, <1>10
  <2>2. prev'[new] = s[(i + 1) - 1]  BY <1>1, <1>5, <1>10
  <2>3. last'[list] = IF i + 1 = n + 1 THEN new ELSE last[list]  BY <1>7, <1>10
  <2> QED BY <1>7, <1>10, <1>11, <1>12, <2>1, <2>2, <2>3 DEF Splices, n
<1>14. Forward(list) = s /\ i + 1 \in 1..(Len(Forward(list)) + 1)  BY <1>10 DEF s, n
<1> DEFINE k == i + 1
<1>15. /\ k \in 1..(Len(Forward(list)) + 1)
       /\ Splices(Forward(list), k, new, first[list], last[list], prev, next,
                   first'[list], last'[list], prev', next')
  BY <1>13, <1>14
<1> HIDE DEF k
<1>16. ListInv' /\ Becomes(list, InsertAt(Forward(list), k, new))
  BY <1>8, <1>9, <1>15, Inserts
<1> QED BY <1>16 DEF k, i

LEMMA BeforeActs ==
    ASSUME ListInv, NEW list \in Lists, NEW node \in Members(list), NEW new \in Loose,
           insert_before(list, node, new)
    PROVE  ListInv' /\ Becomes(list, InsertAt(Forward(list), At(list, node), new))
<1> DEFINE s == Forward(list)
           i == At(list, node)
           n == Len(s)
<1>1. i \in 1..n /\ s[i] = node  BY Place
<1>2. /\ n \in Nat
      /\ \A j \in 1..n : s[j] \in Members(list) /\ s[j] \in Nodes /\ s[j] # NULL
      /\ \A j, l \in 1..n : s[j] = s[l] => j = l
      /\ prev[node] = IF i = 1 THEN NULL ELSE s[i-1]
  <2> HIDE DEF i
  <2> QED BY <1>1, Around
<1>3. new \in Nodes /\ node \in Nodes /\ new \notin Members(list) /\ new # NULL
  BY MembersAreNodes, ListAssumption DEF Loose
<1>4. /\ prev[node] # new /\ node # new
      /\ prev[node] \in Members(list) \cup {NULL}
  <2> HIDE DEF s, i
  <2>1. i # 1 => i - 1 \in 1..n  BY <1>1, <1>2
  <2> QED BY <1>1, <1>2, <1>3, <2>1
<1>5. /\ next'[new] = node
      /\ \A m \in Nodes : m # new => next'[m] = IF m = prev[node] THEN new ELSE next[m]
      /\ next' \in [Nodes -> Nodes \cup {NULL}]
  <2>1. next' = [m \in Nodes |-> CASE m = new -> node [] m = prev[node] -> new [] OTHER -> next[m]]
    BY DEF insert_before
  <2>2. /\ next'[new] = node
        /\ \A m \in Nodes : m # new => next'[m] = IF m = prev[node] THEN new ELSE next[m]
    BY <1>3, <1>4, <2>1
  <2>3. \A m \in Nodes : next'[m] \in Nodes \cup {NULL}
    BY <1>3, <2>2, TypesIs
  <2> QED BY <2>1, <2>2, <2>3
<1>6. /\ prev'[new] = prev[node] /\ prev'[node] = new
      /\ \A m \in Nodes : m # new /\ m # node => prev'[m] = prev[m]
      /\ prev' \in [Nodes -> Nodes \cup {NULL}]
  BY <1>3, <1>4, TypesIs DEF insert_before
<1>7. /\ last' = last
      /\ first'[list] = IF prev[node] = NULL THEN new ELSE first[list]
      /\ \A other \in Lists \ {list} : first'[other] = first[other]
      /\ first' \in [Lists -> Nodes \cup {NULL}]
  BY <1>3, TypesIs DEF insert_before
<1>8. TypeOK'  BY <1>5, <1>6, <1>7, TypesIs DEF TypeOK
<1>9. Spares(list, new)
  <2>1. \A m \in (Nodes \ Members(list)) \ {new} : m # node /\ m # prev[node]
    BY <1>4, ListAssumption
  <2> HIDE DEF s, i
  <2> QED BY <1>5, <1>6, <1>7, <2>1 DEF Spares
<1> HIDE DEF s, i, n
<1>10. i \in 1..(n + 1) /\ i # n + 1 /\ (prev[node] = NULL <=> i = 1)
  <2>1. i # 1 => i - 1 \in 1..n  BY <1>1, <1>2
  <2>2. prev[node] = NULL <=> i = 1  BY <1>2, <2>1
  <2> QED BY <1>1, <1>2, <2>2
<1>11. \A j \in 1..n : prev'[s[j]] = IF j = i THEN new ELSE prev[s[j]]
  <2> SUFFICES ASSUME NEW j \in 1..n
               PROVE  prev'[s[j]] = IF j = i THEN new ELSE prev[s[j]]
    OBVIOUS
  <2>1. s[j] = node <=> j = i  BY <1>1, <1>2
  <2>2. s[j] \in Nodes /\ s[j] # new  BY <1>2, <1>3
  <2> QED BY <1>6, <2>1, <2>2
<1>12. \A j \in 1..n : next'[s[j]] = IF j = i - 1 THEN new ELSE next[s[j]]
  <2> SUFFICES ASSUME NEW j \in 1..n
               PROVE  next'[s[j]] = IF j = i - 1 THEN new ELSE next[s[j]]
    OBVIOUS
  <2>1. s[j] = prev[node] <=> j = i - 1
    <3>1. i # 1 => i - 1 \in 1..n  BY <1>1, <1>2
    <3>2. i = 1 => j # i - 1  BY <1>1, <1>2
    <3> QED BY <1>2, <3>1, <3>2
  <2>2. s[j] \in Nodes /\ s[j] # new  BY <1>2, <1>3
  <2> QED BY <1>5, <2>1, <2>2
<1>13. Splices(s, i, new, first[list], last[list], prev, next,
               first'[list], last'[list], prev', next')
  <2>1. next'[new] = s[i]  BY <1>1, <1>5
  <2>2. prev'[new] = IF i = 1 THEN NULL ELSE s[i-1]  BY <1>2, <1>6
  <2>3. first'[list] = IF i = 1 THEN new ELSE first[list]  BY <1>7, <1>10
  <2> QED BY <1>7, <1>10, <1>11, <1>12, <2>1, <2>2, <2>3 DEF Splices, n
<1>14. /\ i \in 1..(Len(Forward(list)) + 1)
       /\ Splices(Forward(list), i, new, first[list], last[list], prev, next,
                   first'[list], last'[list], prev', next')
  BY <1>10, <1>13 DEF s, n
<1>15. ListInv' /\ Becomes(list, InsertAt(Forward(list), i, new))
  BY <1>8, <1>9, <1>14, Inserts
<1> QED BY <1>15 DEF i

LEMMA RemoveActs ==
    ASSUME ListInv, NEW list \in Lists, NEW node \in Members(list), remove(list, node)
    PROVE  ListInv' /\ Becomes(list, RemoveAt(Forward(list), At(list, node)))
<1> DEFINE s == Forward(list)
           i == At(list, node)
           n == Len(s)
           before == IF i = 1 THEN NULL ELSE s[i-1]
           behind == IF i = n THEN NULL ELSE s[i+1]
<1>1. i \in 1..n /\ s[i] = node  BY Place
<1>2. /\ n \in Nat
      /\ \A j \in 1..n : s[j] \in Members(list) /\ s[j] \in Nodes /\ s[j] # NULL
      /\ \A j, l \in 1..n : s[j] = s[l] => j = l
      /\ prev[node] = before /\ next[node] = behind
  <2> HIDE DEF i
  <2> QED BY <1>1, Around
<1> HIDE DEF s, i, n
<1>3. /\ i # 1 => i - 1 \in 1..n
      /\ i # n => i + 1 \in 1..n
  BY <1>1, <1>2
<1>4. /\ before = NULL <=> i = 1
      /\ behind = NULL <=> i = n
      /\ before \in Members(list) \cup {NULL} /\ behind \in Members(list) \cup {NULL}
      /\ before \in Nodes \cup {NULL} /\ behind \in Nodes \cup {NULL}
  BY <1>2, <1>3
<1>5. \A j \in 1..n : /\ s[j] = before <=> j = i - 1
                      /\ s[j] = behind <=> j = i + 1
  <2> SUFFICES ASSUME NEW j \in 1..n
               PROVE  (s[j] = before <=> j = i - 1) /\ (s[j] = behind <=> j = i + 1)
    OBVIOUS
  <2>1. CASE i = 1 /\ i = n  BY <1>1, <1>2, <2>1
  <2>2. CASE i = 1 /\ i # n  BY <1>1, <1>2, <1>3, <2>2
  <2>3. CASE i # 1 /\ i = n  BY <1>1, <1>2, <1>3, <2>3
  <2>4. CASE i # 1 /\ i # n  BY <1>1, <1>2, <1>3, <2>4
  <2> QED BY <2>1, <2>2, <2>3, <2>4
<1> HIDE DEF before, behind
<1>6. /\ first'[list] = IF before = NULL THEN behind ELSE first[list]
      /\ \A other \in Lists \ {list} : first'[other] = first[other]
      /\ first' \in [Lists -> Nodes \cup {NULL}]
      /\ \A m \in Nodes : next'[m] = IF m = before THEN behind ELSE next[m]
      /\ next' \in [Nodes -> Nodes \cup {NULL}]
  BY <1>2, <1>4, TypesIs, ListAssumption DEF remove
<1>7. /\ last'[list] = IF behind = NULL THEN before ELSE last[list]
      /\ \A other \in Lists \ {list} : last'[other] = last[other]
      /\ last' \in [Lists -> Nodes \cup {NULL}]
      /\ \A m \in Nodes : prev'[m] = IF m = behind THEN before ELSE prev[m]
      /\ prev' \in [Nodes -> Nodes \cup {NULL}]
  BY <1>2, <1>4, TypesIs, ListAssumption DEF remove
<1>8. TypeOK'  BY <1>6, <1>7 DEF TypeOK
<1>9. Spares(list, node)
  <2>1. \A m \in Nodes \ Members(list) : m # before /\ m # behind
    BY <1>4, ListAssumption
  <2> QED BY <1>6, <1>7, <2>1 DEF Spares
<1>10. Cuts(s, i, first[list], last[list], prev, next, first'[list], last'[list], prev', next')
  <2>1. \A j \in 1..n : next'[s[j]] = IF j = i - 1 THEN behind ELSE next[s[j]]
    BY <1>2, <1>5, <1>6
  <2>2. \A j \in 1..n : prev'[s[j]] = IF j = i + 1 THEN before ELSE prev[s[j]]
    BY <1>2, <1>5, <1>7
  <2>3. /\ first'[list] = IF i = 1 THEN behind ELSE first[list]
        /\ last'[list] = IF i = n THEN before ELSE last[list]
    BY <1>4, <1>6, <1>7
  <2> QED BY <2>1, <2>2, <2>3, Zenon DEF Cuts, before, behind, n
<1>11. /\ i \in 1..Len(Forward(list))
       /\ Cuts(Forward(list), i, first[list], last[list], prev, next,
                first'[list], last'[list], prev', next')
  BY <1>1, <1>10 DEF s, n
<1>12. ListInv' /\ Becomes(list, RemoveAt(Forward(list), i))
  BY <1>8, <1>9, <1>11, Removes
<1> QED BY <1>12 DEF i

(* Inserting at either end. *)
LEMMA InsertAtEnds ==
    ASSUME NEW s \in Seq(Nodes), NEW new \in Nodes
    PROVE  /\ InsertAt(s, 1, new) = <<new>> \o s
           /\ InsertAt(s, Len(s) + 1, new) = Append(s, new)
<1> DEFINE n == Len(s)
           u == InsertAt(s, 1, new)
           v == <<new>> \o s
           w == InsertAt(s, n + 1, new)
           a == Append(s, new)
<1>1. n \in Nat  OBVIOUS
<1>0. ASSUME NEW k \in 1..(n + 1)
      PROVE  /\ InsertAt(s, k, new) \in Seq(Nodes) /\ Len(InsertAt(s, k, new)) = n + 1
             /\ \A j \in 1..(n + 1) : InsertAt(s, k, new)[j] =
                   IF j < k THEN s[j] ELSE IF j = k THEN new ELSE s[j-1]
  <2>1. Inserted(InsertAt(s, k, new), s, k, new)  BY NodeInserted
  <2> QED BY <2>1, Zenon DEF Inserted
<1>2. u \in Seq(Nodes) /\ Len(u) = n + 1 /\ u[1] = new /\ \A j \in 2..(n + 1) : u[j] = s[j-1]
  <2>1. 1 \in 1..(n + 1) /\ \A j \in 2..(n + 1) : j \in 1..(n + 1) /\ ~(j < 1) /\ j # 1
    BY <1>1
  <2>2. /\ u \in Seq(Nodes) /\ Len(u) = n + 1
        /\ \A j \in 1..(n + 1) : u[j] = IF j < 1 THEN s[j] ELSE IF j = 1 THEN new ELSE s[j-1]
    BY <1>0, <2>1
  <2> HIDE DEF u, n
  <2> QED BY <2>1, <2>2
<1>3. v \in Seq(Nodes) /\ Len(v) = n + 1 /\ v[1] = new /\ \A j \in 2..(n + 1) : v[j] = s[j-1]
  BY <1>1
<1>4. w \in Seq(Nodes) /\ Len(w) = n + 1 /\ w[n+1] = new /\ \A j \in 1..n : w[j] = s[j]
  <2>1. n + 1 \in 1..(n + 1) /\ \A j \in 1..n : j \in 1..(n + 1) /\ j < n + 1
    BY <1>1
  <2>2. /\ w \in Seq(Nodes) /\ Len(w) = n + 1
        /\ \A j \in 1..(n + 1) : w[j] = IF j < n + 1 THEN s[j]
                                        ELSE IF j = n + 1 THEN new ELSE s[j-1]
    BY <1>0, <2>1
  <2> HIDE DEF w, n
  <2> QED BY <1>1, <2>1, <2>2
<1>5. a \in Seq(Nodes) /\ Len(a) = n + 1 /\ a[n+1] = new /\ \A j \in 1..n : a[j] = s[j]
  BY <1>1, AppendProperties
<1> HIDE DEF n, u, v, w, a
<1>6. u = v
  <2>1. u = [j \in 1..(n + 1) |-> u[j]] /\ v = [j \in 1..(n + 1) |-> v[j]]
    BY <1>2, <1>3, LenProperties
  <2>2. \A j \in 1..(n + 1) : u[j] = v[j]
    <3>1. \A j \in 1..(n + 1) : j = 1 \/ j \in 2..(n + 1)  BY <1>1
    <3> QED BY <1>2, <1>3, <3>1
  <2> QED BY <2>1, <2>2
<1>7. w = a
  <2>1. w = [j \in 1..(n + 1) |-> w[j]] /\ a = [j \in 1..(n + 1) |-> a[j]]
    BY <1>4, <1>5, LenProperties
  <2>2. \A j \in 1..(n + 1) : w[j] = a[j]
    <3>1. \A j \in 1..(n + 1) : j = n + 1 \/ j \in 1..n  BY <1>1
    <3> QED BY <1>4, <1>5, <3>1
  <2> QED BY <2>1, <2>2
<1> QED BY <1>6, <1>7 DEF n, u, v, w, a

LEMMA FirstActs ==
    ASSUME ListInv, NEW list \in Lists, NEW new \in Loose, insert_first(list, new)
    PROVE  ListInv' /\ Becomes(list, InsertAt(Forward(list), 1, new))
<1> DEFINE s == Forward(list)
<1>1. /\ Len(s) \in Nat /\ first[list] = IF Len(s) = 0 THEN NULL ELSE s[1]
      /\ \A i \in 1..Len(s) : s[i] \in Members(list) /\ s[i] # NULL
      /\ \A i, j \in 1..Len(s) : s[i] = s[j] => i = j
  BY Around
<1>2. new \in Nodes /\ new \notin Members(list)  BY DEF Loose
<1>3. CASE first[list] = NULL
  <2>1. Len(s) = 0  BY <1>1, <1>3
  <2>2. /\ first' = [first EXCEPT ![list] = new] /\ last' = [last EXCEPT ![list] = new]
        /\ prev' = [prev EXCEPT ![new] = NULL] /\ next' = [next EXCEPT ![new] = NULL]
    BY <1>3 DEF insert_first
  <2>3. TypeOK'  BY <1>2, <2>2, TypesIs DEF TypeOK
  <2>4. Spares(list, new)  BY <1>2, <2>2, TypesIs DEF Spares
  <2>5. first'[list] = new /\ last'[list] = new /\ prev'[new] = NULL /\ next'[new] = NULL
    BY <1>2, <2>2, TypesIs
  <2> HIDE DEF s
  <2>6. /\ 1 \in 1..(Len(s) + 1)
        /\ Splices(s, 1, new, first[list], last[list], prev, next,
                   first'[list], last'[list], prev', next')
    BY <2>1, <2>5 DEF Splices
  <2> QED BY <2>3, <2>4, <2>6, Inserts DEF s
<1>4. CASE first[list] # NULL
  <2>1. Len(s) # 0 /\ 1 \in 1..Len(s) /\ first[list] = s[1]  BY <1>1, <1>4
  <2>2. s[1] \in Members(list) /\ insert_before(list, s[1], new)
    BY <1>1, <1>4, <2>1 DEF insert_first
  <2>3. At(list, s[1]) = 1
    <3>1. At(list, s[1]) \in 1..Len(s) /\ s[At(list, s[1])] = s[1]  BY <2>2, Place
    <3> HIDE DEF s
    <3> QED BY <1>1, <2>1, <3>1
  <2> QED BY <2>2, <2>3, BeforeActs
<1> QED BY <1>3, <1>4

LEMMA LastActs ==
    ASSUME ListInv, NEW list \in Lists, NEW new \in Loose, insert_last(list, new)
    PROVE  ListInv' /\ Becomes(list, InsertAt(Forward(list), Len(Forward(list)) + 1, new))
<1> DEFINE s == Forward(list)
<1>1. /\ Len(s) \in Nat /\ last[list] = IF Len(s) = 0 THEN NULL ELSE s[Len(s)]
      /\ \A i \in 1..Len(s) : s[i] \in Members(list) /\ s[i] # NULL
      /\ \A i, j \in 1..Len(s) : s[i] = s[j] => i = j
  BY Around
<1>2. CASE last[list] = NULL
  <2>1. Len(s) = 0  BY <1>1, <1>2
  <2>2. insert_first(list, new)  BY <1>2 DEF insert_last
  <2>3. Len(s) + 1 = 1  BY <2>1
  <2> QED BY <2>2, <2>3, FirstActs
<1>3. CASE last[list] # NULL
  <2> DEFINE n == Len(s)
  <2>1. n # 0 /\ n \in 1..n /\ last[list] = s[n]  BY <1>1, <1>3
  <2>2. s[n] \in Members(list) /\ insert_after(list, s[n], new)
    BY <1>1, <1>3, <2>1 DEF insert_last
  <2>3. At(list, s[n]) = n
    <3>1. At(list, s[n]) \in 1..n /\ s[At(list, s[n])] = s[n]  BY <2>2, Place
    <3> HIDE DEF s
    <3> QED BY <1>1, <2>1, <3>1
  <2> QED BY <2>2, <2>3, AfterActs
<1> QED BY <1>2, <1>3

-----------------------------------------------------------------------------
LEMMA ListInit == Init => ListInv
<1> SUFFICES ASSUME Init PROVE ListInv  OBVIOUS
<1>1. TypeOK  BY DEF Init, TypeOK
<1>2. ASSUME NEW list \in Lists PROVE Linked(<<>>, first[list], last[list], prev, next)
  BY DEF Init, Linked
<1>3. \A list \in Lists : Forward(list) = <<>> /\ Sound(list)
  BY <1>2, ForwardIs DEF Sound
<1>4. Apart  BY <1>3 DEF Apart, Members, ToSet
<1> QED BY <1>1, <1>3, <1>4 DEF ListInv

LEMMA ListNext == ASSUME ListInv, [Next]_vars PROVE ListInv'
<1>1. CASE UNCHANGED vars
  BY <1>1 DEF vars, ListInv, TypeOK, Sound, Apart, Members, Forward
<1>2. CASE Next
  <2> PICK list \in Lists :
        \/ \E node \in Members(list), new_node \in Loose :
              insert_after(list, node, new_node) \/ insert_before(list, node, new_node)
        \/ \E new_node \in Loose :
              insert_first(list, new_node) \/ insert_last(list, new_node)
        \/ \E node \in Members(list) : remove(list, node)
    BY <1>2 DEF Next
  <2> QED BY AfterActs, BeforeActs, FirstActs, LastActs, RemoveActs
<1> QED BY <1>1, <1>2

LEMMA ListAlways == Spec => []ListInv
BY ListInit, ListNext, PTL DEF Spec

(* The pointers of list.c are sequences: each list reads the same from     *)
(* both ends, no node is on two lists or twice on one.                     *)
THEOREM WellLinkedAlways == Spec => []WellLinked
<1>1. ASSUME ListInv PROVE WellLinked
  <2>1. ASSUME NEW list \in Lists
        PROVE  /\ Chain(last[list], prev) = Reverse(Forward(list))
               /\ Cardinality(Members(list)) = Len(Forward(list))
    <3> DEFINE s == Forward(list)
    <3>1. Linked(s, first[list], last[list], prev, next)  BY <1>1 DEF ListInv, Sound
    <3>2. Members(list) = ToSet(s)  BY DEF Members
    <3> HIDE DEF s
    <3>3. Chain(last[list], prev) = Reverse(s)  BY ONLY <3>1, LinkedChain
    <3>4. s \in Seq(Nodes) /\ \A i, j \in 1..Len(s) : s[i] = s[j] => i = j
      BY <3>1 DEF Linked
    <3>5. Cardinality(ToSet(s)) = Len(s)  BY ONLY <3>4, LinkedSize
    <3> QED BY <3>2, <3>3, <3>5 DEF s
  <2> QED BY <1>1, <2>1 DEF WellLinked, ListInv, Apart
<1> QED BY <1>1, ListAlways, PTL

(* Each function of list.c does to the sequence of nodes what its name     *)
(* says, and nothing to the other lists, also at the ends (list.c:7, 22,   *)
(* 35, 50, 62, 71).                                                        *)
THEOREM ActsOnSequencesAlways == Spec => ActsOnSequences
<1> DEFINE A == \A list \in Lists :
    /\ \A node \in Members(list), new_node \in Loose :
          /\ insert_after(list, node, new_node) =>
                Becomes(list, InsertAt(Forward(list), At(list, node) + 1, new_node))
          /\ insert_before(list, node, new_node) =>
                Becomes(list, InsertAt(Forward(list), At(list, node), new_node))
    /\ \A new_node \in Loose :
          /\ insert_first(list, new_node) =>
                Becomes(list, <<new_node>> \o Forward(list))
          /\ insert_last(list, new_node) =>
                Becomes(list, Append(Forward(list), new_node))
    /\ \A node \in Members(list) : remove(list, node) =>
          Becomes(list, RemoveAt(Forward(list), At(list, node)))
<1>1. ASSUME ListInv PROVE A
  <2>1. \A list \in Lists, new \in Loose :
          /\ InsertAt(Forward(list), 1, new) = <<new>> \o Forward(list)
          /\ InsertAt(Forward(list), Len(Forward(list)) + 1, new) = Append(Forward(list), new)
    <3> SUFFICES ASSUME NEW list \in Lists, NEW new \in Loose
                 PROVE  /\ InsertAt(Forward(list), 1, new) = <<new>> \o Forward(list)
                        /\ InsertAt(Forward(list), Len(Forward(list)) + 1, new)
                              = Append(Forward(list), new)
      OBVIOUS
    <3>1. Forward(list) \in Seq(Nodes) /\ new \in Nodes
      BY <1>1 DEF ListInv, Sound, Linked, Loose
    <3> QED BY <3>1, InsertAtEnds
  <2>2. \A list \in Lists, new_node \in Loose :
          /\ insert_first(list, new_node) => Becomes(list, <<new_node>> \o Forward(list))
          /\ insert_last(list, new_node) => Becomes(list, Append(Forward(list), new_node))
    BY <1>1, <2>1, FirstActs, LastActs
  <2>3. \A list \in Lists : \A node \in Members(list) : remove(list, node) =>
          Becomes(list, RemoveAt(Forward(list), At(list, node)))
    BY <1>1, RemoveActs
  <2>4. \A list \in Lists : \A node \in Members(list), new_node \in Loose :
          /\ insert_after(list, node, new_node) =>
                Becomes(list, InsertAt(Forward(list), At(list, node) + 1, new_node))
          /\ insert_before(list, node, new_node) =>
                Becomes(list, InsertAt(Forward(list), At(list, node), new_node))
    BY <1>1, AfterActs, BeforeActs
  <2> QED BY <2>2, <2>3, <2>4
<1>2. ListInv /\ [Next]_vars => [A]_vars  BY <1>1
<1> HIDE DEF A
<1>3. Spec => [][A]_vars  BY <1>2, ListAlways, PTL DEF Spec
<1> QED BY <1>3 DEF ActsOnSequences, A
=============================================================================
