----------------------------- MODULE VmmProofs -----------------------------
(***************************************************************************)
(* Proofs about Vmm, for every width and every page directory: what holds  *)
(* for all arguments of malloc_above (the accounting of nodes and sizes),  *)
(* and what holds for sizes that do not make malloc's "size + align" wrap. *)
(***************************************************************************)
EXTENDS Vmm, DataLemmas, SequenceTheorems, TLAPS

(* Sizes for which search_free asks for more than malloc takes: not zero,  *)
(* and not so large that "size + 1" wraps.                                 *)
SaneSizes == \A size \in Sizes : size >= 1 /\ size + 1 < M

(***************************************************************************)
(* Lemmas on the helpers.                                                  *)
(***************************************************************************)
LEMMA MaxOfInterval ==
    ASSUME NEW k \in Nat, k >= 1
    PROVE  Max(1..k) = k
<1>1. k \in 1..k /\ \A y \in 1..k : k >= y
  OBVIOUS
<1>2. Max(1..k) \in 1..k /\ \A y \in 1..k : Max(1..k) >= y
  BY <1>1, Zenon DEF Max
<1> QED
  BY <1>1, <1>2

LEMMA NodesOfRemove ==
    ASSUME NEW s \in Seq(Block), NEW i \in 1..Len(s)
    PROVE  NodesOf(s) = NodesOf(RemoveAt(s, i)) \cup {s[i].node}
<1> DEFINE t == RemoveAt(s, i)
<1>1. /\ t \in Seq(Block)
      /\ Len(t) = Len(s) - 1
      /\ \A j \in 1..(Len(s) - 1) : t[j] = IF j < i THEN s[j] ELSE s[j+1]
  BY RemoveAtProperties
<1>2. DOMAIN s = 1..Len(s) /\ DOMAIN t = 1..Len(t) /\ Len(s) \in Nat
  BY <1>1, LenProperties
<1> HIDE DEF t
<1>3. ASSUME NEW j \in 1..Len(s)
      PROVE  s[j].node \in NodesOf(t) \cup {s[i].node}
  <2>1. CASE j < i
    BY <1>1, <1>2, <2>1 DEF NodesOf
  <2>2. CASE j > i
    <3>1. j - 1 \in 1..Len(t) /\ t[j-1] = s[j]
      BY <1>1, <1>2, <2>2
    <3> QED
      BY <1>2, <3>1 DEF NodesOf
  <2> QED
    BY <1>2, <2>1, <2>2
<1>4. ASSUME NEW j \in 1..Len(t)
      PROVE  t[j].node \in NodesOf(s)
  <2>1. j \in 1..Len(s) /\ j + 1 \in 1..Len(s)
    BY <1>1, <1>2
  <2>2. t[j] = s[j] \/ t[j] = s[j+1]
    BY <1>1
  <2> QED
    BY <1>2, <2>1, <2>2 DEF NodesOf
<1> QED
  BY <1>2, <1>3, <1>4 DEF NodesOf, t

LEMMA NodesOfInsert ==
    ASSUME NEW s \in Seq(Block), NEW e \in Block, NEW i \in 1..(Len(s) + 1)
    PROVE  NodesOf(InsertAt(s, i, e)) = NodesOf(s) \cup {e.node}
<1> DEFINE t == InsertAt(s, i, e)
<1>1. /\ t \in Seq(Block)
      /\ Len(t) = Len(s) + 1
      /\ \A j \in 1..(Len(s) + 1) :
            t[j] = IF j < i THEN s[j] ELSE IF j = i THEN e ELSE s[j-1]
  BY InsertAtProperties
<1>2. DOMAIN s = 1..Len(s) /\ DOMAIN t = 1..Len(t) /\ Len(s) \in Nat
  BY <1>1, LenProperties
<1> HIDE DEF t
<1>3. ASSUME NEW j \in 1..Len(s)
      PROVE  s[j].node \in NodesOf(t)
  <2>1. CASE j < i
    <3>1. j \in 1..Len(t) /\ t[j] = s[j]
      BY <1>1, <1>2, <2>1
    <3> QED
      BY <1>2, <3>1 DEF NodesOf
  <2>2. CASE j >= i
    <3>1. j + 1 \in 1..Len(t) /\ t[j+1] = s[j]
      BY <1>1, <1>2, <2>2
    <3> QED
      BY <1>2, <3>1 DEF NodesOf
  <2> QED
    BY <1>2, <2>1, <2>2
<1>4. e.node \in NodesOf(t)
  <2>1. i \in 1..Len(t) /\ t[i] = e
    BY <1>1, <1>2
  <2> QED
    BY <1>2, <2>1 DEF NodesOf
<1>5. ASSUME NEW j \in 1..Len(t)
      PROVE  t[j].node \in NodesOf(s) \cup {e.node}
  <2>1. CASE j < i
    <3>1. j \in 1..Len(s) /\ t[j] = s[j]
      BY <1>1, <1>2, <2>1
    <3> QED
      BY <1>2, <3>1 DEF NodesOf
  <2>2. CASE j = i
    BY <1>1, <1>2, <2>2
  <2>3. CASE j > i
    <3>1. j - 1 \in 1..Len(s) /\ t[j] = s[j-1]
      BY <1>1, <1>2, <2>3
    <3> QED
      BY <1>2, <3>1 DEF NodesOf
  <2> QED
    BY <1>1, <1>2, <2>1, <2>2, <2>3
<1> QED
  BY <1>2, <1>3, <1>4, <1>5 DEF NodesOf, t

LEMMA NodesOfAppend ==
    ASSUME NEW s \in Seq(Block), NEW e \in Block
    PROVE  NodesOf(Append(s, e)) = NodesOf(s) \cup {e.node}
<1>1. /\ Append(s, e) \in Seq(Block)
      /\ Len(Append(s, e)) = Len(s) + 1
      /\ \A j \in 1..Len(s) : Append(s, e)[j] = s[j]
      /\ Append(s, e)[Len(s) + 1] = e
  BY AppendProperties
<1>2. /\ DOMAIN s = 1..Len(s) /\ Len(s) \in Nat
      /\ DOMAIN Append(s, e) = 1..(Len(s) + 1)
  BY <1>1, LenProperties
<1> QED
  BY <1>1, <1>2 DEF NodesOf

(* Changing the size of a block keeps its list well formed. *)
LEMMA Resize ==
    ASSUME NEW s \in Seq(Block), NEW i \in 1..Len(s), NEW n \in 0..(M-1)
    PROVE  LET t == [s EXCEPT ![i].size = n] IN
           /\ t \in Seq(Block)
           /\ Len(t) = Len(s)
           /\ \A j \in 1..Len(s) : t[j] =
                 IF j = i THEN [node |-> s[i].node, virt |-> s[i].virt, size |-> n]
                 ELSE s[j]
           /\ NodesOf(t) = NodesOf(s)
<1> DEFINE e == [node |-> s[i].node, virt |-> s[i].virt, size |-> n]
           t == [s EXCEPT ![i].size = n]
<1>1. s[i] \in Block /\ DOMAIN s = 1..Len(s) /\ s \in [1..Len(s) -> Block]
  BY ElementOfSeq, LenProperties
<1>2. e \in Block
  BY <1>1 DEF Block
<1>3. [s[i] EXCEPT !.size = n] = e
  <2>1. s[i] = [node |-> s[i].node, virt |-> s[i].virt, size |-> s[i].size]
    BY <1>1 DEF Block
  <2>2. [[node |-> s[i].node, virt |-> s[i].virt, size |-> s[i].size]
            EXCEPT !.size = n] = e
    OBVIOUS
  <2> QED
    BY ONLY <2>1, <2>2
<1>4. t = [s EXCEPT ![i] = e]
  BY <1>1, <1>3
<1>5. /\ t \in Seq(Block)
      /\ Len(t) = Len(s)
      /\ \A j \in 1..Len(s) : t[j] = IF j = i THEN e ELSE s[j]
  BY <1>2, <1>4, ExceptSeq
<1>6. DOMAIN t = 1..Len(s)
  BY <1>5, LenProperties
<1> HIDE DEF t
<1>7. \A j \in 1..Len(s) : t[j].node = s[j].node
  BY <1>5
<1>8. NodesOf(t) = NodesOf(s)
  BY <1>1, <1>6, <1>7 DEF NodesOf
<1> QED
  BY <1>5, <1>8 DEF t

LEMMA WrapType ==
    ASSUME NEW a \in 0..(M-1), NEW b \in 0..(M-1)
    PROVE  Add(a, b) \in 0..(M-1) /\ Sub(a, b) \in 0..(M-1)
BY MAssumption DEF Add, Sub

(* split_free cuts block i in two and puts the new node behind it.         *)
LEMMA SplitFree ==
    ASSUME NEW s \in Seq(Block), NEW i \in 1..Len(s), NEW n \in 0..(M-1),
           NEW k \in Nat
    PROVE  LET t    == split_free(s, i, n, k)
               kept == [node |-> s[i].node, virt |-> s[i].virt, size |-> n]
               rest == [node |-> k, virt |-> Add(s[i].virt, n),
                        size |-> Sub(s[i].size, n)]
           IN  /\ t \in Seq(Block)
               /\ Len(t) = Len(s) + 1
               /\ \A j \in 1..(Len(s) + 1) : t[j] =
                     IF j < i THEN s[j] ELSE IF j = i THEN kept
                     ELSE IF j = i + 1 THEN rest ELSE s[j-1]
               /\ NodesOf(t) = NodesOf(s) \cup {k}
               /\ kept \in Block /\ rest \in Block
<1> DEFINE r    == [s EXCEPT ![i].size = n]
           kept == [node |-> s[i].node, virt |-> s[i].virt, size |-> n]
           rest == [node |-> k, virt |-> Add(s[i].virt, n),
                    size |-> Sub(s[i].size, n)]
<1>1. /\ r \in Seq(Block)
      /\ Len(r) = Len(s)
      /\ \A j \in 1..Len(s) : r[j] = IF j = i THEN kept ELSE s[j]
      /\ NodesOf(r) = NodesOf(s)
  BY Resize
<1>2. s[i] \in Block /\ Len(s) \in Nat
  BY ElementOfSeq, LenProperties
<1>3. s[i].node \in Nat /\ s[i].virt \in 0..(M-1) /\ s[i].size \in 0..(M-1)
  BY <1>2 DEF Block
<1>4. kept \in Block /\ rest \in Block
  <2>1. Add(s[i].virt, n) \in 0..(M-1) /\ Sub(s[i].size, n) \in 0..(M-1)
    BY <1>3, WrapType
  <2> QED
    BY <1>3, <2>1 DEF Block
<1>5. split_free(s, i, n, k) = InsertAt(r, i + 1, rest)
  BY DEF split_free
<1> HIDE DEF r, rest
<1>6. i + 1 \in 1..(Len(r) + 1)
  BY <1>1, <1>2
<1>7. /\ InsertAt(r, i + 1, rest) \in Seq(Block)
      /\ Len(InsertAt(r, i + 1, rest)) = Len(r) + 1
      /\ \A j \in 1..(Len(r) + 1) : InsertAt(r, i + 1, rest)[j] =
            IF j < i + 1 THEN r[j] ELSE IF j = i + 1 THEN rest ELSE r[j-1]
  <2>1. i \in 1..Len(r)
    BY <1>1
  <2> QED
    BY ONLY <1>1, <1>4, <2>1, InsertBehindProperties
<1>8. NodesOf(InsertAt(r, i + 1, rest)) = NodesOf(r) \cup {rest.node}
  BY <1>1, <1>4, <1>6, NodesOfInsert
<1>9. rest.node = k
  BY DEF rest
<1>10. ASSUME NEW j \in 1..(Len(s) + 1)
       PROVE  split_free(s, i, n, k)[j] =
                 IF j < i THEN s[j] ELSE IF j = i THEN kept
                 ELSE IF j = i + 1 THEN rest ELSE s[j-1]
  <2>1. CASE j <= i
    <3>1. j \in 1..Len(s) /\ j \in 1..(Len(r) + 1) /\ j < i + 1 /\ (j < i \/ j = i)
      BY <1>1, <1>2, <2>1
    <3>2. InsertAt(r, i + 1, rest)[j] = r[j]
      BY ONLY <1>7, <3>1
    <3>3. r[j] = IF j = i THEN kept ELSE s[j]
      BY ONLY <1>1, <3>1
    <3>4. j < i => j # i
      BY <2>1
    <3>5. split_free(s, i, n, k)[j] = IF j = i THEN kept ELSE s[j]
      BY ONLY <1>5, <3>2, <3>3
    <3>6. CASE j = i
      <4>1. ~(j < i)
        BY <3>6
      <4> QED
        BY ONLY <3>5, <3>6, <4>1
    <3>7. CASE j < i
      BY ONLY <3>4, <3>5, <3>7
    <3> QED
      BY ONLY <3>1, <3>6, <3>7
  <2>2. CASE j = i + 1
    BY <1>1, <1>2, <1>5, <1>7, <2>2
  <2>3. CASE j > i + 1
    <3>1. j - 1 \in 1..Len(s) /\ j - 1 # i
      BY <1>2, <2>3
    <3>2. r[j-1] = s[j-1]
      BY <1>1, <3>1
    <3> QED
      BY <1>1, <1>2, <1>5, <1>7, <2>3, <3>2
  <2> QED
    BY <1>2, <2>1, <2>2, <2>3
<1>11. /\ split_free(s, i, n, k) \in Seq(Block)
       /\ Len(split_free(s, i, n, k)) = Len(s) + 1
       /\ NodesOf(split_free(s, i, n, k)) = NodesOf(s) \cup {k}
  BY <1>1, <1>5, <1>7, <1>8, <1>9
<1> QED
  BY <1>4, <1>10, <1>11 DEF rest

(***************************************************************************)
(* The node area.  Accounted is NodesAccounted for any three lists.        *)
(***************************************************************************)
Elements(u) == {u[i] : i \in 1..Len(u)}
Accounted(f, g, u) ==
    NodesOf(f) \cup NodesOf(g) \cup Elements(u) = 1..(Len(f) + Len(g) + Len(u))

(* get_unused_node returns the head of the unused list or the next slot:   *)
(* with it, and without the head, all slots are accounted for again.       *)
LEMMA NewNode ==
    ASSUME NEW f \in Seq(Block), NEW g \in Seq(Block), NEW u \in Seq(Nat),
           Accounted(f, g, u)
    PROVE  LET n == get_unused_node(f, g, u)
               w == WithoutFirst(u)
           IN  /\ n \in Nat
               /\ w \in Seq(Nat)
               /\ NodesOf(f) \cup NodesOf(g) \cup {n} \cup Elements(w)
                     = 1..(Len(f) + Len(g) + 1 + Len(w))
<1> DEFINE n == get_unused_node(f, g, u)
           w == WithoutFirst(u)
<1>0. /\ Len(f) \in Nat /\ Len(g) \in Nat /\ Len(u) \in Nat
      /\ DOMAIN f = 1..Len(f) /\ DOMAIN g = 1..Len(g)
  BY LenProperties
<1>1. CASE u # <<>>
  <2>1. /\ Head(u) \in Nat /\ Tail(u) \in Seq(Nat)
        /\ Len(Tail(u)) = Len(u) - 1
        /\ \A i \in 1..Len(Tail(u)) : Tail(u)[i] = u[i+1]
    BY <1>1, HeadTailProperties
  <2>2. n = Head(u) /\ w = Tail(u)
    BY <1>1 DEF get_unused_node, WithoutFirst
  <2>3. Head(u) = u[1] /\ Len(u) >= 1
    BY <1>0, <1>1, <2>1
  <2>4. Elements(u) = {Head(u)} \cup Elements(Tail(u))
    <3>1. \A i \in 1..Len(u) : u[i] \in {Head(u)} \cup Elements(Tail(u))
      <4> TAKE i \in 1..Len(u)
      <4>1. CASE i = 1
        BY <2>3, <4>1
      <4>2. CASE i > 1
        <5>1. i - 1 \in 1..Len(Tail(u)) /\ Tail(u)[i-1] = u[i]
          BY <1>0, <2>1, <4>2
        <5> QED
          BY <5>1 DEF Elements
      <4> QED
        BY <1>0, <4>1, <4>2
    <3>2. \A i \in 1..Len(Tail(u)) : Tail(u)[i] \in Elements(u)
      <4> TAKE i \in 1..Len(Tail(u))
      <4>1. i + 1 \in 1..Len(u) /\ Tail(u)[i] = u[i+1]
        BY <1>0, <2>1
      <4> QED
        BY <4>1 DEF Elements
    <3>3. Head(u) \in Elements(u)
      BY <1>0, <2>3 DEF Elements
    <3> QED
      BY <3>1, <3>2, <3>3 DEF Elements
  <2>5. Len(f) + Len(g) + Len(u) = Len(f) + Len(g) + 1 + Len(Tail(u))
    BY <1>0, <2>1
  <2> QED
    BY <2>1, <2>2, <2>4, <2>5 DEF Accounted
<1>2. CASE u = <<>>
  <2>1. w = <<>> /\ w \in Seq(Nat) /\ Elements(w) = {} /\ Len(w) = 0
    BY <1>2 DEF WithoutFirst, Elements
  <2>2. NodesOf(f) \cup NodesOf(g) = 1..(Len(f) + Len(g))
    BY <1>0, <1>2, <2>1 DEF Accounted, WithoutFirst
  <2>3. n = Len(f) + Len(g) + 1
    <3>1. CASE f = <<>> /\ g = <<>>
      BY <1>2, <3>1 DEF get_unused_node
    <3>2. CASE ~(f = <<>> /\ g = <<>>)
      <4>1. Len(f) + Len(g) >= 1
        BY <1>0, <3>2, EmptySeq
      <4>2. Max(NodesOf(f) \cup NodesOf(g)) = Len(f) + Len(g)
        <5>1. Max(1..(Len(f) + Len(g))) = Len(f) + Len(g)
          BY <1>0, <4>1, MaxOfInterval
        <5> QED
          BY <2>2, <5>1
      <4> QED
        BY <1>2, <3>2, <4>2 DEF get_unused_node
    <3> QED
      BY <3>1, <3>2
  <2>4. 1..(Len(f) + Len(g)) \cup {Len(f) + Len(g) + 1}
            = 1..(Len(f) + Len(g) + 1 + 0)
    <3> DEFINE m == Len(f) + Len(g)
    <3>1. m \in Nat
      BY ONLY <1>0
    <3> HIDE DEF m
    <3>2. 1..m \cup {m + 1} = 1..(m + 1 + 0)
      BY ONLY <3>1
    <3> QED
      BY ONLY <3>2 DEF m
  <2> QED
    BY <1>0, <2>1, <2>2, <2>3, <2>4
<1> QED
  BY <1>1, <1>2

(***************************************************************************)
(* What the steps do to the lists, element by element.                     *)
(***************************************************************************)
LEMMA TakeBlockEffect ==
    ASSUME NEW s \in Seq(Block), NEW u \in Seq(Nat), vmm_used \in Seq(Block),
           Accounted(s, vmm_used, u),
           NEW i \in 1..Len(s), NEW n \in 0..(M-1),
           TakeBlock(s, u, i, n)
    PROVE  /\ vmm_free' \in Seq(Block)
           /\ vmm_used' \in Seq(Block)
           /\ vmm_unused_nodes' \in Seq(Nat)
           /\ Accounted(vmm_free', vmm_used', vmm_unused_nodes')
           /\ Len(vmm_free') = Len(s)
           /\ \A j \in 1..Len(s) : j # i => vmm_free'[j] = s[j]
           /\ vmm_free'[i].virt = Add(s[i].virt, n)
           /\ vmm_free'[i].size = Sub(s[i].size, n)
           /\ Len(vmm_used') = Len(vmm_used) + 1
           /\ \A j \in 1..Len(vmm_used) : vmm_used'[j] = vmm_used[j]
           /\ vmm_used'[Len(vmm_used) + 1].virt = s[i].virt
           /\ vmm_used'[Len(vmm_used) + 1].size = n
<1> DEFINE k    == get_unused_node(s, vmm_used, u)
           w    == WithoutFirst(u)
           t    == split_free(s, i, n, k)
           kept == [node |-> s[i].node, virt |-> s[i].virt, size |-> n]
           rest == [node |-> k, virt |-> Add(s[i].virt, n),
                    size |-> Sub(s[i].size, n)]
<1>1. /\ vmm_free' = RemoveAt(t, i)
      /\ vmm_used' = Append(vmm_used, t[i])
      /\ vmm_unused_nodes' = w
  BY DEF TakeBlock
<1>2. /\ k \in Nat
      /\ w \in Seq(Nat)
      /\ NodesOf(s) \cup NodesOf(vmm_used) \cup {k} \cup Elements(w)
            = 1..(Len(s) + Len(vmm_used) + 1 + Len(w))
  BY NewNode
<1> HIDE DEF k, w
<1>3. /\ t \in Seq(Block)
      /\ Len(t) = Len(s) + 1
      /\ \A j \in 1..(Len(s) + 1) : t[j] =
            IF j < i THEN s[j] ELSE IF j = i THEN kept
            ELSE IF j = i + 1 THEN rest ELSE s[j-1]
      /\ NodesOf(t) = NodesOf(s) \cup {k}
      /\ kept \in Block /\ rest \in Block
  BY <1>2, SplitFree
<1> HIDE DEF t
<1>4. Len(s) \in Nat /\ Len(vmm_used) \in Nat /\ Len(w) \in Nat
  BY <1>2, LenProperties
<1>5. i \in 1..Len(t) /\ t[i] = kept
  BY <1>3, <1>4
<1>6. /\ RemoveAt(t, i) \in Seq(Block)
      /\ Len(RemoveAt(t, i)) = Len(t) - 1
      /\ \A j \in 1..(Len(t) - 1) :
            RemoveAt(t, i)[j] = IF j < i THEN t[j] ELSE t[j+1]
  BY <1>3, <1>5, RemoveAtProperties
<1>7. NodesOf(t) = NodesOf(RemoveAt(t, i)) \cup {t[i].node}
  BY <1>3, <1>5, NodesOfRemove
<1>8. /\ Append(vmm_used, t[i]) \in Seq(Block)
      /\ Len(Append(vmm_used, t[i])) = Len(vmm_used) + 1
      /\ \A j \in 1..Len(vmm_used) : Append(vmm_used, t[i])[j] = vmm_used[j]
      /\ Append(vmm_used, t[i])[Len(vmm_used) + 1] = t[i]
  BY <1>3, <1>5, AppendProperties
<1>9. NodesOf(Append(vmm_used, t[i])) = NodesOf(vmm_used) \cup {t[i].node}
  BY <1>3, <1>5, NodesOfAppend
<1>10. Len(vmm_free') = Len(s)
  BY <1>1, <1>3, <1>4, <1>6
<1>11. ASSUME NEW j \in 1..Len(s), j # i
       PROVE  vmm_free'[j] = s[j]
  <2>1. CASE j < i
    BY <1>1, <1>3, <1>4, <1>6, <2>1
  <2>2. CASE j > i
    <3>1. j + 1 \in 1..(Len(s) + 1) /\ j + 1 > i + 1 /\ (j + 1) - 1 = j
      BY <1>4, <2>2
    <3>2. t[j+1] = s[j]
      BY <1>3, <1>4, <3>1
    <3> QED
      BY <1>1, <1>3, <1>4, <1>6, <2>2, <3>2
  <2> QED
    BY <1>4, <1>11, <2>1, <2>2
<1>12. vmm_free'[i] = rest
  <2>1. t[i+1] = rest
    BY <1>3, <1>4
  <2> QED
    BY <1>1, <1>3, <1>4, <1>6, <2>1
<1>13. Accounted(vmm_free', vmm_used', vmm_unused_nodes')
  <2>1. NodesOf(vmm_free') \cup NodesOf(vmm_used') \cup Elements(vmm_unused_nodes')
          = NodesOf(s) \cup NodesOf(vmm_used) \cup {k} \cup Elements(w)
    BY <1>1, <1>3, <1>7, <1>9
  <2>2. Len(vmm_free') + Len(vmm_used') + Len(vmm_unused_nodes')
          = Len(s) + Len(vmm_used) + 1 + Len(w)
    BY <1>1, <1>4, <1>8, <1>10
  <2> QED
    BY <1>2, <2>1, <2>2 DEF Accounted
<1>14. vmm_free' \in Seq(Block)
  BY ONLY <1>1, <1>6
<1>15. /\ vmm_used' \in Seq(Block)
       /\ Len(vmm_used') = Len(vmm_used) + 1
       /\ \A j \in 1..Len(vmm_used) : vmm_used'[j] = vmm_used[j]
  BY ONLY <1>1, <1>8
<1>16. /\ vmm_free'[i].virt = Add(s[i].virt, n)
       /\ vmm_free'[i].size = Sub(s[i].size, n)
  BY ONLY <1>12
<1>17. /\ vmm_used'[Len(vmm_used) + 1].virt = s[i].virt
       /\ vmm_used'[Len(vmm_used) + 1].size = n
  <2>1. vmm_used'[Len(vmm_used) + 1] = kept
    BY ONLY <1>1, <1>5, <1>8
  <2> QED
    BY ONLY <2>1
<1>18. vmm_unused_nodes' \in Seq(Nat)
  BY ONLY <1>1, <1>2
<1>19. \A j \in 1..Len(s) : j # i => vmm_free'[j] = s[j]
  BY <1>11
<1> QED
  BY ONLY <1>10, <1>13, <1>14, <1>15, <1>16, <1>17, <1>18, <1>19

(* free moves block u of the used list before block n of the free list.    *)
LEMMA FreeEffect ==
    ASSUME TypeOK, NodesAccounted,
           NEW u \in 1..Len(vmm_used), NEW n \in 1..Len(vmm_free),
           vmm_free' = InsertAt(vmm_free, n, vmm_used[u]),
           vmm_used' = RemoveAt(vmm_used, u),
           UNCHANGED vmm_unused_nodes
    PROVE  /\ vmm_free' \in Seq(Block)
           /\ vmm_used' \in Seq(Block)
           /\ NodesAccounted'
           /\ Len(vmm_free') = Len(vmm_free) + 1
           /\ \A j \in 1..(Len(vmm_free) + 1) : vmm_free'[j] =
                 IF j < n THEN vmm_free[j] ELSE IF j = n THEN vmm_used[u]
                 ELSE vmm_free[j-1]
           /\ Len(vmm_used') = Len(vmm_used) - 1
           /\ \A j \in 1..(Len(vmm_used) - 1) : vmm_used'[j] =
                 IF j < u THEN vmm_used[j] ELSE vmm_used[j+1]
<1>1. /\ vmm_free \in Seq(Block) /\ vmm_used \in Seq(Block)
      /\ vmm_unused_nodes \in Seq(Nat)
  BY DEF TypeOK
<1>2. /\ Len(vmm_free) \in Nat /\ Len(vmm_used) \in Nat
      /\ Len(vmm_unused_nodes) \in Nat /\ vmm_used[u] \in Block
  BY <1>1, LenProperties, ElementOfSeq
<1>3. /\ vmm_free' \in Seq(Block)
      /\ Len(vmm_free') = Len(vmm_free) + 1
      /\ \A j \in 1..(Len(vmm_free) + 1) : vmm_free'[j] =
            IF j < n THEN vmm_free[j] ELSE IF j = n THEN vmm_used[u]
            ELSE vmm_free[j-1]
  <2> DEFINE e == vmm_used[u]
  <2>1. n \in 1..(Len(vmm_free) + 1) /\ e \in Block
    BY <1>2
  <2> HIDE DEF e
  <2>2. /\ InsertAt(vmm_free, n, e) \in Seq(Block)
        /\ Len(InsertAt(vmm_free, n, e)) = Len(vmm_free) + 1
        /\ \A j \in 1..(Len(vmm_free) + 1) : InsertAt(vmm_free, n, e)[j] =
              IF j < n THEN vmm_free[j] ELSE IF j = n THEN e ELSE vmm_free[j-1]
    BY <1>1, <2>1, InsertAtProperties
  <2>3. vmm_free' = InsertAt(vmm_free, n, e)
    BY DEF e
  <2> QED
    BY <2>2, <2>3 DEF e
<1>4. /\ vmm_used' \in Seq(Block)
      /\ Len(vmm_used') = Len(vmm_used) - 1
      /\ \A j \in 1..(Len(vmm_used) - 1) : vmm_used'[j] =
            IF j < u THEN vmm_used[j] ELSE vmm_used[j+1]
  BY <1>1, <1>2, RemoveAtProperties
<1>5. NodesOf(vmm_free') = NodesOf(vmm_free) \cup {vmm_used[u].node}
  <2> DEFINE e == vmm_used[u]
  <2>1. n \in 1..(Len(vmm_free) + 1) /\ e \in Block
    BY <1>2
  <2> HIDE DEF e
  <2>2. NodesOf(InsertAt(vmm_free, n, e)) = NodesOf(vmm_free) \cup {e.node}
    BY ONLY <1>1, <2>1, NodesOfInsert
  <2>3. vmm_free' = InsertAt(vmm_free, n, e)
    BY DEF e
  <2> QED
    BY ONLY <2>2, <2>3 DEF e
<1>6. NodesOf(vmm_used) = NodesOf(vmm_used') \cup {vmm_used[u].node}
  BY <1>1, <1>2, NodesOfRemove
<1>7. NodesAccounted'
  <2>1. NodesOf(vmm_free') \cup NodesOf(vmm_used') = NodesOf(vmm_free) \cup NodesOf(vmm_used)
    BY <1>5, <1>6
  <2>2. Len(vmm_free') + Len(vmm_used') + Len(vmm_unused_nodes')
          = Len(vmm_free) + Len(vmm_used) + Len(vmm_unused_nodes)
    BY <1>2, <1>3, <1>4
  <2> QED
    BY <2>1, <2>2 DEF NodesAccounted, UnusedSet
<1> QED
  BY <1>3, <1>4, <1>7

(* compact_after merges block i with the next one.                         *)
LEMMA CompactEffect ==
    ASSUME TypeOK, NodesAccounted,
           NEW i \in 1..(Len(vmm_free) - 1),
           vmm_free' = RemoveAt([vmm_free EXCEPT ![i].size =
                                    Add(@, vmm_free[i+1].size)], i + 1),
           vmm_unused_nodes' = Append(vmm_unused_nodes, vmm_free[i+1].node),
           UNCHANGED vmm_used
    PROVE  /\ vmm_free' \in Seq(Block)
           /\ vmm_unused_nodes' \in Seq(Nat)
           /\ NodesAccounted'
           /\ Len(vmm_free') = Len(vmm_free) - 1
           /\ \A j \in 1..(Len(vmm_free) - 1) :
                 /\ j < i => vmm_free'[j] = vmm_free[j]
                 /\ j > i => vmm_free'[j] = vmm_free[j+1]
           /\ vmm_free'[i].virt = vmm_free[i].virt
           /\ vmm_free'[i].size = Add(vmm_free[i].size, vmm_free[i+1].size)
<1> DEFINE n == Add(vmm_free[i].size, vmm_free[i+1].size)
           t == [vmm_free EXCEPT ![i].size = n]
           p == i + 1
<1>1. /\ vmm_free \in Seq(Block) /\ vmm_used \in Seq(Block)
      /\ vmm_unused_nodes \in Seq(Nat)
  BY DEF TypeOK
<1>2. /\ Len(vmm_free) \in Nat /\ Len(vmm_used) \in Nat
      /\ Len(vmm_unused_nodes) \in Nat
      /\ i \in 1..Len(vmm_free) /\ p \in 1..Len(vmm_free)
  BY <1>1, LenProperties
<1>3. vmm_free[i] \in Block /\ vmm_free[p] \in Block
  BY <1>1, <1>2, ElementOfSeq
<1>4. n \in 0..(M-1) /\ vmm_free[p].node \in Nat
  <2>1. vmm_free[i].size \in 0..(M-1) /\ vmm_free[p].size \in 0..(M-1)
    BY <1>3 DEF Block
  <2> QED
    BY <1>3, <2>1, WrapType DEF Block
<1>5. vmm_free' = RemoveAt(t, p)
  OBVIOUS
<1> HIDE DEF n
<1>6. /\ t \in Seq(Block)
      /\ Len(t) = Len(vmm_free)
      /\ \A j \in 1..Len(vmm_free) : t[j] =
            IF j = i THEN [node |-> vmm_free[i].node, virt |-> vmm_free[i].virt,
                           size |-> n]
            ELSE vmm_free[j]
      /\ NodesOf(t) = NodesOf(vmm_free)
  BY <1>1, <1>2, <1>4, Resize
<1> HIDE DEF t, p
<1>7. /\ RemoveAt(t, p) \in Seq(Block)
      /\ Len(RemoveAt(t, p)) = Len(t) - 1
      /\ \A j \in 1..(Len(t) - 1) :
            RemoveAt(t, p)[j] = IF j < p THEN t[j] ELSE t[j+1]
  BY <1>2, <1>6, RemoveAtProperties
<1>8. NodesOf(t) = NodesOf(RemoveAt(t, p)) \cup {t[p].node}
  BY <1>2, <1>6, NodesOfRemove
<1>9. t[p] = vmm_free[p]
  BY <1>2, <1>6 DEF p
<1>10. /\ vmm_unused_nodes' \in Seq(Nat)
       /\ Len(vmm_unused_nodes') = Len(vmm_unused_nodes) + 1
       /\ \A j \in 1..Len(vmm_unused_nodes) :
             vmm_unused_nodes'[j] = vmm_unused_nodes[j]
       /\ vmm_unused_nodes'[Len(vmm_unused_nodes) + 1] = vmm_free[p].node
  BY <1>1, <1>4, AppendProperties DEF p
<1>11. UnusedSet' = UnusedSet \cup {vmm_free[p].node}
  <2> DEFINE q == Len(vmm_unused_nodes)
             e == vmm_free[p].node
             v == vmm_unused_nodes'
  <2>1. /\ q \in Nat /\ Len(v) = q + 1
        /\ \A j \in 1..q : v[j] = vmm_unused_nodes[j]
        /\ v[q + 1] = e
    BY ONLY <1>2, <1>10
  <2>2. UnusedSet = {vmm_unused_nodes[j] : j \in 1..q}
    BY DEF UnusedSet
  <2>3. UnusedSet' = {v[j] : j \in 1..(q + 1)}
    BY <2>1 DEF UnusedSet
  <2> HIDE DEF q, e, v
  <2>4. 1..(q + 1) = 1..q \cup {q + 1}
    BY ONLY <2>1
  <2>5. {v[j] : j \in 1..(q + 1)} = {v[j] : j \in 1..q} \cup {v[q + 1]}
    BY ONLY <2>4
  <2>6. {v[j] : j \in 1..q} = {vmm_unused_nodes[j] : j \in 1..q}
    BY ONLY <2>1
  <2>7. UnusedSet' = UnusedSet \cup {e}
    BY ONLY <2>1, <2>2, <2>3, <2>5, <2>6
  <2> QED
    BY ONLY <2>7 DEF e
<1>12. NodesAccounted'
  <2>1. NodesOf(vmm_free') \cup NodesOf(vmm_used') \cup UnusedSet'
          = NodesOf(vmm_free) \cup NodesOf(vmm_used) \cup UnusedSet
    BY <1>5, <1>6, <1>8, <1>9, <1>11
  <2>2. Len(vmm_free') + Len(vmm_used') + Len(vmm_unused_nodes')
          = Len(vmm_free) + Len(vmm_used) + Len(vmm_unused_nodes)
    <3>1. /\ Len(vmm_free') = Len(vmm_free) - 1
          /\ Len(vmm_used') = Len(vmm_used)
          /\ Len(vmm_unused_nodes') = Len(vmm_unused_nodes) + 1
      BY <1>5, <1>6, <1>7, <1>10
    <3>2. /\ Len(vmm_free) \in Nat /\ Len(vmm_used) \in Nat
          /\ Len(vmm_unused_nodes) \in Nat
      BY ONLY <1>2
    <3> QED
      BY ONLY <3>1, <3>2
  <2> QED
    BY <2>1, <2>2 DEF NodesAccounted
<1>13. ASSUME NEW j \in 1..(Len(vmm_free) - 1), j > i
       PROVE  vmm_free'[j] = vmm_free[j+1]
  <2>1. j + 1 \in 1..Len(vmm_free) /\ j + 1 # i /\ ~(j < p)
    BY <1>2, <1>13 DEF p
  <2>2. t[j+1] = vmm_free[j+1]
    BY <1>6, <2>1
  <2> QED
    BY <1>5, <1>6, <1>7, <2>1, <2>2
<1>14. ASSUME NEW j \in 1..(Len(vmm_free) - 1), j < i
       PROVE  vmm_free'[j] = vmm_free[j]
  BY <1>2, <1>5, <1>6, <1>7, <1>14 DEF p
<1>15. vmm_free'[i] = [node |-> vmm_free[i].node, virt |-> vmm_free[i].virt,
                       size |-> n]
  BY <1>2, <1>5, <1>6, <1>7 DEF p
<1>16. vmm_free'[i].virt = vmm_free[i].virt /\ vmm_free'[i].size = n
  BY <1>15
<1>17. vmm_free' \in Seq(Block) /\ Len(vmm_free') = Len(vmm_free) - 1
  BY <1>5, <1>6, <1>7
<1> QED
  BY <1>10, <1>12, <1>13, <1>14, <1>16, <1>17 DEF n

(***************************************************************************)
(* The lists keep their shape whatever malloc_above and free are called    *)
(* with, sizes that wrap included.                                         *)
(***************************************************************************)
NodesInv == TypeOK /\ NodesAccounted

LEMMA ListFacts ==
    ASSUME TypeOK
    PROVE  /\ vmm_free \in Seq(Block) /\ vmm_used \in Seq(Block)
           /\ vmm_unused_nodes \in Seq(Nat)
           /\ Len(vmm_free) \in Nat /\ Len(vmm_used) \in Nat
           /\ Len(vmm_unused_nodes) \in Nat /\ Len(Visits) \in Nat
           /\ DOMAIN vmm_free = 1..Len(vmm_free)
           /\ DOMAIN vmm_used = 1..Len(vmm_used)
           /\ \A i \in 1..Len(vmm_free) : vmm_free[i] \in Block
           /\ \A i \in 1..Len(vmm_used) : vmm_used[i] \in Block
<1>1. /\ vmm_free \in Seq(Block) /\ vmm_used \in Seq(Block)
      /\ vmm_unused_nodes \in Seq(Nat) /\ Visits \in Seq(Visit)
  BY VisitsAssumption DEF TypeOK
<1> QED
  BY <1>1, LenProperties, ElementOfSeq

LEMMA NodesInit == Init => NodesInv
<1> SUFFICES ASSUME Init PROVE NodesInv
  OBVIOUS
<1>1. Len(Visits) \in Nat
  BY VisitsAssumption, LenProperties
<1>2. TypeOK
  <2>1. 1 \in 1..(Len(Visits) + 1)
    BY <1>1
  <2> QED
    BY <2>1, EmptySeq DEF Init, TypeOK
<1>3. NodesAccounted
  BY DEF Init, NodesAccounted, NodesOf, UnusedSet
<1> QED
  BY <1>2, <1>3 DEF NodesInv

LEMMA NodesScan == NodesInv /\ ScanVisit => NodesInv'
<1> SUFFICES ASSUME NodesInv, ScanVisit PROVE NodesInv'
  OBVIOUS
<1>1. TypeOK /\ NodesAccounted
  BY DEF NodesInv
<1>2. /\ vmm_free \in Seq(Block) /\ vmm_used \in Seq(Block)
      /\ vmm_unused_nodes \in Seq(Nat)
      /\ Len(vmm_free) \in Nat /\ Len(vmm_used) \in Nat
      /\ Len(vmm_unused_nodes) \in Nat /\ Len(Visits) \in Nat
  BY <1>1, ListFacts
<1>3. visit' \in 1..(Len(Visits) + 1) /\ visit \in 1..Len(Visits)
  BY <1>1, <1>2 DEF ScanVisit, Scanning, TypeOK
<1>4. wild' \in {"none", "oom", "walk", "neighbor"}
  BY <1>1 DEF ScanVisit, TypeOK
<1>5. CASE Visits[visit].present
  BY <1>1, <1>3, <1>4, <1>5 DEF ScanVisit, lists, TypeOK, NodesInv,
     NodesAccounted, UnusedSet
<1>6. CASE ~Visits[visit].present
  <2> DEFINE k == get_unused_node(vmm_free, vmm_used, vmm_unused_nodes)
             w == WithoutFirst(vmm_unused_nodes)
             e == [node |-> k, virt |-> Visits[visit].virt,
                   size |-> Visits[visit].size]
  <2>1. Accounted(vmm_free, vmm_used, vmm_unused_nodes)
    BY <1>1 DEF NodesAccounted, Accounted, UnusedSet, Elements
  <2>2. /\ k \in Nat
        /\ w \in Seq(Nat)
        /\ NodesOf(vmm_free) \cup NodesOf(vmm_used) \cup {k} \cup Elements(w)
              = 1..(Len(vmm_free) + Len(vmm_used) + 1 + Len(w))
    BY <1>2, <2>1, NewNode
  <2>3. /\ vmm_free' = Append(vmm_free, e)
        /\ vmm_unused_nodes' = w
        /\ compacting' = TRUE
        /\ vmm_used' = vmm_used
    BY <1>6 DEF ScanVisit
  <2>4. Visits[visit] \in Visit
    BY <1>3, VisitsAssumption, ElementOfSeq
  <2> HIDE DEF k, w
  <2>5. e \in Block /\ e.node = k
    BY <2>2, <2>4 DEF Block, Visit
  <2> HIDE DEF e
  <2>6. vmm_free' \in Seq(Block) /\ Len(vmm_free') = Len(vmm_free) + 1
    BY <1>2, <2>3, <2>5, AppendProperties
  <2>7. NodesOf(vmm_free') = NodesOf(vmm_free) \cup {k}
    BY <1>2, <2>3, <2>5, NodesOfAppend
  <2>8. TypeOK'
    BY <1>1, <1>3, <1>4, <2>2, <2>3, <2>6 DEF TypeOK
  <2>9. NodesAccounted'
    <3>1. NodesOf(vmm_free') \cup NodesOf(vmm_used') \cup UnusedSet'
            = NodesOf(vmm_free) \cup NodesOf(vmm_used) \cup {k} \cup Elements(w)
      BY <2>3, <2>7 DEF UnusedSet, Elements
    <3>2. Len(w) \in Nat
      BY <2>2, LenProperties
    <3>3. Len(vmm_free') + Len(vmm_used') + Len(vmm_unused_nodes')
            = Len(vmm_free) + Len(vmm_used) + 1 + Len(w)
      BY <1>2, <2>3, <2>6, <3>2
    <3> QED
      BY <2>2, <3>1, <3>3 DEF NodesAccounted
  <2> QED
    BY <2>8, <2>9 DEF NodesInv
<1> QED
  BY <1>5, <1>6

LEMMA NodesMalloc ==
    ASSUME NEW size \in Sizes, NEW align, NEW above,
           NodesInv, malloc_above(size, align, above)
    PROVE  NodesInv'
<1>1. TypeOK /\ NodesAccounted
  BY DEF NodesInv
<1>2. /\ vmm_free \in Seq(Block) /\ vmm_used \in Seq(Block)
      /\ vmm_unused_nodes \in Seq(Nat)
      /\ Len(vmm_free) \in Nat /\ Len(vmm_used) \in Nat
      /\ DOMAIN vmm_free = 1..Len(vmm_free)
  BY <1>1, ListFacts
<1>3. Accounted(vmm_free, vmm_used, vmm_unused_nodes)
  BY <1>1 DEF NodesAccounted, Accounted, UnusedSet, Elements
<1>4. size \in 0..(M-1)
  BY SizesAssumption
<1>5. visit' = visit /\ compacting' = compacting
  BY DEF malloc_above
<1>6. ASSUME NEW i \in search_free(Add(size, align), above),
             TakeBlock(vmm_free, vmm_unused_nodes, i, size),
             wild' = wild
      PROVE  NodesInv'
  <2>1. i \in 1..Len(vmm_free)
    BY <1>2, <1>6 DEF search_free, First
  <2>2. /\ vmm_free' \in Seq(Block) /\ vmm_used' \in Seq(Block)
        /\ vmm_unused_nodes' \in Seq(Nat)
        /\ Accounted(vmm_free', vmm_used', vmm_unused_nodes')
    BY <1>2, <1>3, <1>4, <1>6, <2>1, TakeBlockEffect
  <2> QED
    BY <1>1, <1>5, <1>6, <2>2
       DEF NodesInv, TypeOK, NodesAccounted, Accounted, UnusedSet, Elements
<1>7. ASSUME NEW i \in search_free(Add(size, align), above),
             TakeBlock(split_free(vmm_free, i, size,
                          get_unused_node(vmm_free, vmm_used, vmm_unused_nodes)),
                       WithoutFirst(vmm_unused_nodes), i + 1, size),
             wild' = wild
      PROVE  NodesInv'
  <2> DEFINE k == get_unused_node(vmm_free, vmm_used, vmm_unused_nodes)
             w == WithoutFirst(vmm_unused_nodes)
             t == split_free(vmm_free, i, size, k)
             p == i + 1
  <2>1. i \in 1..Len(vmm_free)
    BY <1>2, <1>7 DEF search_free, First
  <2>2. /\ k \in Nat
        /\ w \in Seq(Nat)
        /\ NodesOf(vmm_free) \cup NodesOf(vmm_used) \cup {k} \cup Elements(w)
              = 1..(Len(vmm_free) + Len(vmm_used) + 1 + Len(w))
    BY <1>2, <1>3, NewNode
  <2>3. TakeBlock(t, w, p, size)
    BY <1>7
  <2> HIDE DEF k, w
  <2>4. /\ t \in Seq(Block)
        /\ Len(t) = Len(vmm_free) + 1
        /\ NodesOf(t) = NodesOf(vmm_free) \cup {k}
    <3>1. /\ vmm_free \in Seq(Block) /\ i \in 1..Len(vmm_free)
          /\ size \in 0..(M-1) /\ k \in Nat
      BY <1>2, <1>4, <2>1, <2>2
    <3>2. /\ t \in Seq(Block)
          /\ Len(t) = Len(vmm_free) + 1
          /\ \A j \in 1..(Len(vmm_free) + 1) : t[j] =
                IF j < i THEN vmm_free[j]
                ELSE IF j = i THEN [node |-> vmm_free[i].node,
                                    virt |-> vmm_free[i].virt, size |-> size]
                ELSE IF j = i + 1 THEN [node |-> k,
                                        virt |-> Add(vmm_free[i].virt, size),
                                        size |-> Sub(vmm_free[i].size, size)]
                ELSE vmm_free[j-1]
          /\ NodesOf(t) = NodesOf(vmm_free) \cup {k}
      BY <3>1, SplitFree
    <3> QED
      BY <3>2
  <2>5. p \in 1..Len(t)
    BY <1>2, <2>1, <2>4
  <2> HIDE DEF t, p
  <2>6. Accounted(t, vmm_used, w)
    <3>1. NodesOf(t) \cup NodesOf(vmm_used) \cup Elements(w)
            = NodesOf(vmm_free) \cup NodesOf(vmm_used) \cup {k} \cup Elements(w)
      BY <2>4
    <3>2. Len(w) \in Nat
      BY <2>2, LenProperties
    <3>3. Len(t) + Len(vmm_used) + Len(w)
            = Len(vmm_free) + Len(vmm_used) + 1 + Len(w)
      BY <1>2, <2>4, <3>2
    <3> QED
      BY <2>2, <3>1, <3>3 DEF Accounted
  <2>7. /\ vmm_free' \in Seq(Block) /\ vmm_used' \in Seq(Block)
        /\ vmm_unused_nodes' \in Seq(Nat)
        /\ Accounted(vmm_free', vmm_used', vmm_unused_nodes')
    BY <1>2, <1>4, <2>2, <2>3, <2>4, <2>5, <2>6, TakeBlockEffect
  <2> QED
    BY <1>1, <1>5, <1>7, <2>7
       DEF NodesInv, TypeOK, NodesAccounted, Accounted, UnusedSet, Elements
<1>8. ASSUME UNCHANGED lists, wild' = "oom"
      PROVE  NodesInv'
  BY <1>1, <1>5, <1>8 DEF NodesInv, TypeOK, NodesAccounted, UnusedSet, lists
<1> QED
  BY <1>6, <1>7, <1>8 DEF malloc_above

LEMMA NodesFree ==
    ASSUME NEW addr, NodesInv, Free(addr)
    PROVE  NodesInv'
<1>1. TypeOK /\ NodesAccounted
  BY DEF NodesInv
<1>2. /\ DOMAIN vmm_free = 1..Len(vmm_free)
      /\ DOMAIN vmm_used = 1..Len(vmm_used)
  BY <1>1, ListFacts
<1>3. visit' = visit
  BY DEF Free
<1>4. ASSUME NEW u \in search_used(addr),
             NEW n \in search_free_neighbor(vmm_used[u]),
             vmm_free' = InsertAt(vmm_free, n, vmm_used[u]),
             vmm_used' = RemoveAt(vmm_used, u),
             compacting' = TRUE, UNCHANGED <<vmm_unused_nodes, wild>>
      PROVE  NodesInv'
  <2>1. u \in 1..Len(vmm_used) /\ n \in 1..Len(vmm_free)
    BY <1>2 DEF search_used, search_free_neighbor, First
  <2>2. /\ vmm_free' \in Seq(Block) /\ vmm_used' \in Seq(Block)
        /\ NodesAccounted'
    BY <1>1, <1>4, <2>1, FreeEffect
  <2> QED
    BY <1>1, <1>3, <1>4, <2>2 DEF NodesInv, TypeOK
<1>5. ASSUME UNCHANGED <<lists, compacting>>,
             wild' \in {"none", "walk", "neighbor"}
      PROVE  NodesInv'
  BY <1>1, <1>3, <1>5 DEF NodesInv, TypeOK, NodesAccounted, UnusedSet, lists
<1> QED
  BY <1>4, <1>5 DEF Free, FreeUsed, FreeUnknown

LEMMA NodesCompact == NodesInv /\ CompactStep => NodesInv'
<1> SUFFICES ASSUME NodesInv, CompactStep PROVE NodesInv'
  OBVIOUS
<1>1. TypeOK /\ NodesAccounted
  BY DEF NodesInv
<1>2. UNCHANGED <<vmm_used, visit, wild>>
  BY DEF CompactStep
<1>3. ASSUME NEW i \in search_adjacent_free,
             vmm_free' = RemoveAt([vmm_free EXCEPT ![i].size =
                                      Add(@, vmm_free[i+1].size)], i + 1),
             vmm_unused_nodes' = Append(vmm_unused_nodes, vmm_free[i+1].node),
             UNCHANGED compacting
      PROVE  NodesInv'
  <2>1. i \in 1..(Len(vmm_free) - 1)
    BY DEF search_adjacent_free, First
  <2>2. /\ vmm_free' \in Seq(Block) /\ vmm_unused_nodes' \in Seq(Nat)
        /\ NodesAccounted'
    BY <1>1, <1>2, <1>3, <2>1, CompactEffect
  <2> QED
    BY <1>1, <1>2, <1>3, <2>2 DEF NodesInv, TypeOK
<1>4. ASSUME compacting' = FALSE, UNCHANGED <<vmm_free, vmm_unused_nodes>>
      PROVE  NodesInv'
  BY <1>1, <1>2, <1>4 DEF NodesInv, TypeOK, NodesAccounted, UnusedSet
<1> QED
  BY <1>3, <1>4 DEF CompactStep

LEMMA NodesStep == NodesInv /\ [NextAbove]_vars => NodesInv'
<1> SUFFICES ASSUME NodesInv, [NextAbove]_vars PROVE NodesInv'
  OBVIOUS
<1>1. CASE ScanVisit
  BY <1>1, NodesScan
<1>2. ASSUME NEW size \in Sizes, Malloc(size) PROVE NodesInv'
  BY <1>2, NodesMalloc DEF Malloc
<1>3. ASSUME NEW addr \in 0..(M-1), Free(addr) PROVE NodesInv'
  BY <1>3, NodesFree
<1>4. CASE CompactStep
  BY <1>4, NodesCompact
<1>5. CASE UNCHANGED vars
  BY <1>5 DEF vars, NodesInv, TypeOK, NodesAccounted, UnusedSet
<1>6. ASSUME NEW size \in Sizes, NEW align \in Aligns, NEW above \in Aboves,
             malloc_above(size, align, above)
      PROVE  NodesInv'
  BY <1>6, NodesMalloc
<1> QED
  BY <1>1, <1>2, <1>3, <1>4, <1>5, <1>6 DEF NextAbove, Next, Lost

LEMMA NodesAlways == SpecAbove => []NodesInv
<1>1. Init => NodesInv
  BY NodesInit
<1>2. NodesInv /\ [NextAbove]_vars => NodesInv'
  BY NodesStep
<1> QED
  BY <1>1, <1>2, PTL DEF SpecAbove

(* Whatever the allocator is called with, no slot of the node area is ever *)
(* handed out while it is on a list, and none drops out of the lists:      *)
(* get_unused_node (vmm.c:247) may take "the highest node plus one".       *)
THEOREM NodesAccountedAlways == SpecAbove => []NodesAccounted
<1>1. NodesInv => NodesAccounted
  BY DEF NodesInv
<1> QED
  BY <1>1, NodesAlways, PTL

(* All addresses and sizes that malloc (vmm.c:101) and free (vmm.c:140)    *)
(* leave in the lists fit a u32int, also when the additions wrap.          *)
THEOREM VmmTypeCorrect == SpecAbove => []TypeOK
<1>1. NodesInv => TypeOK
  BY DEF NodesInv
<1> QED
  BY <1>1, NodesAlways, PTL

-----------------------------------------------------------------------------
(***************************************************************************)
(* The blocks.  From here on malloc is called with sane sizes and only as  *)
(* the kernel calls it, without alignment and lower limit.                 *)
(***************************************************************************)
LEMMA FirstExists ==
    ASSUME NEW n \in Nat, NEW hits \in SUBSET (1..n), hits # {}
    PROVE  First(hits) # {}
<1>1. hits \subseteq Nat
  OBVIOUS
<1>2. PICK i \in hits : \A j \in hits : i <= j
  BY <1>1, LeastExists
<1> QED
  BY <1>2 DEF First

LEMMA ModuloOne == \A x \in Nat : x % 1 = 0
OBVIOUS

LEMMA BlockFacts ==
    ASSUME TypeOK
    PROVE  /\ \A i \in 1..Len(vmm_free) :
                 vmm_free[i].virt \in 0..(M-1) /\ vmm_free[i].size \in 0..(M-1)
           /\ \A i \in 1..Len(vmm_used) :
                 vmm_used[i].virt \in 0..(M-1) /\ vmm_used[i].size \in 0..(M-1)
           /\ Len(vmm_free) \in Nat /\ Len(vmm_used) \in Nat
           /\ M \in Nat /\ M > 1
BY ListFacts, MAssumption DEF Block

LEMMA VisitFacts ==
    ASSUME TypeOK
    PROVE  /\ Len(Visits) \in Nat
           /\ visit \in 1..(Len(Visits) + 1)
           /\ \A i \in 1..Len(Visits) :
                 /\ Visits[i].virt \in 0..(M-1)
                 /\ Visits[i].size \in 1..(M-1)
                 /\ Visits[i].virt + Visits[i].size < M
           /\ \A i, j \in 1..Len(Visits) :
                 i < j => Visits[i].virt + Visits[i].size <= Visits[j].virt
<1>1. Len(Visits) \in Nat /\ \A i \in 1..Len(Visits) : Visits[i] \in Visit
  BY VisitsAssumption, LenProperties, ElementOfSeq
<1> QED
  BY <1>1, VisitsAssumption DEF TypeOK, Visit

LEMMA HeapInit == Init => HeapInv
<1> SUFFICES ASSUME Init PROVE HeapInv
  OBVIOUS
<1>1. /\ Len(vmm_free) = 0 /\ Len(vmm_used) = 0 /\ wild = "none"
  BY DEF Init
<1> QED
  BY <1>1 DEF HeapInv, BlocksProper, BlocksDisjoint, FreeApart, UsedApart,
     UsedFreeApart, Headroom, ScanAhead, FreeFindsNeighbor

LEMMA HeapScan == NodesInv /\ HeapInv /\ ScanVisit => HeapInv'
<1> SUFFICES ASSUME NodesInv, HeapInv, ScanVisit PROVE HeapInv'
  OBVIOUS
<1>1. TypeOK /\ vmm_free \in Seq(Block)
  BY DEF NodesInv, TypeOK
<1>2. /\ visit \in 1..Len(Visits) /\ visit' = visit + 1 /\ Scanning
      /\ Len(Visits) \in Nat
      /\ Visits[visit].virt \in 0..(M-1)
      /\ Visits[visit].size \in 1..(M-1)
      /\ Visits[visit].virt + Visits[visit].size < M
      /\ visit + 1 <= Len(Visits) => visit + 1 \in 1..Len(Visits)
      /\ visit + 1 <= Len(Visits) =>
            Visits[visit].virt + Visits[visit].size <= Visits[visit+1].virt
  BY <1>1, VisitFacts DEF ScanVisit, Scanning
<1>3. /\ Len(vmm_used) = 0
      /\ \A i \in 1..Len(vmm_free) : End(vmm_free[i]) <= Visits[visit].virt
  BY <1>2 DEF HeapInv, ScanAhead
<1>4. /\ vmm_used' = vmm_used /\ wild' = wild
  BY DEF ScanVisit, lists
<1>5. FreeFindsNeighbor' /\ Headroom' /\ UsedApart' /\ UsedFreeApart'
  BY <1>3, <1>4 DEF HeapInv, FreeFindsNeighbor, Headroom, UsedApart, UsedFreeApart
<1>6. visit + 1 <= Len(Visits) => Visits[visit+1].virt \in Int
  BY <1>1, <1>2, VisitFacts
<1>7. CASE Visits[visit].present
  <2>1. vmm_free' = vmm_free
    BY <1>7 DEF ScanVisit, lists
  <2>2. BlocksProper' /\ FreeApart'
    BY <1>4, <2>1 DEF HeapInv, BlocksProper, BlocksDisjoint, FreeApart, End
  <2>3. ScanAhead'
    <3> SUFFICES ASSUME Scanning', NEW i \in 1..Len(vmm_free)
                 PROVE  End(vmm_free[i]) <= Visits[visit+1].virt
      BY <1>2, <1>3, <1>4, <2>1 DEF ScanAhead, End
    <3>1. visit + 1 <= Len(Visits)
      BY <1>2 DEF Scanning
    <3>2. vmm_free[i].virt \in 0..(M-1) /\ vmm_free[i].size \in 0..(M-1)
      BY <1>1, BlockFacts
    <3>3. Visits[visit].virt <= Visits[visit+1].virt
      BY <1>2, <1>6, <3>1
    <3>4. End(vmm_free[i]) <= Visits[visit].virt /\ End(vmm_free[i]) \in Int
      BY <1>3, <3>2 DEF End
    <3> QED
      BY <1>2, <1>6, <3>1, <3>3, <3>4
  <2> QED
    BY <1>5, <2>2, <2>3 DEF HeapInv, BlocksDisjoint
<1>8. CASE ~Visits[visit].present
  <2>1. PICK e \in Block : /\ vmm_free' = Append(vmm_free, e)
                           /\ e.virt = Visits[visit].virt
                           /\ e.size = Visits[visit].size
    <3> DEFINE k == get_unused_node(vmm_free, vmm_used, vmm_unused_nodes)
    <3>1. k \in Nat
      <4>1. Accounted(vmm_free, vmm_used, vmm_unused_nodes)
        BY DEF NodesInv, NodesAccounted, Accounted, UnusedSet, Elements
      <4> QED
        BY <1>1, <4>1, ListFacts, NewNode
    <3>2. vmm_free' = Append(vmm_free, [node |-> k, virt |-> Visits[visit].virt,
                                        size |-> Visits[visit].size])
      BY <1>8 DEF ScanVisit
    <3> HIDE DEF k
    <3>3. [node |-> k, virt |-> Visits[visit].virt, size |-> Visits[visit].size]
            \in Block
      BY <1>2, <3>1 DEF Block
    <3> QED
      BY <3>2, <3>3
  <2>2. /\ Len(vmm_free') = Len(vmm_free) + 1
        /\ \A i \in 1..Len(vmm_free) : vmm_free'[i] = vmm_free[i]
        /\ vmm_free'[Len(vmm_free) + 1] = e
    BY <1>1, <2>1, AppendProperties
  <2>3. BlocksProper'
    <3> SUFFICES ASSUME NEW i \in 1..(Len(vmm_free) + 1)
                 PROVE  vmm_free'[i].size >= 1 /\ End(vmm_free'[i]) < M
      BY <1>3, <1>4, <2>2 DEF BlocksProper, End
    <3>1. CASE i = Len(vmm_free) + 1
      BY <1>2, <2>1, <2>2, <3>1 DEF End
    <3>2. CASE i <= Len(vmm_free)
      <4>1. i \in 1..Len(vmm_free)
        BY <3>2
      <4> QED
        BY <2>2, <4>1 DEF HeapInv, BlocksProper
    <3> QED
      BY <1>1, <3>1, <3>2, BlockFacts
  <2>4. FreeApart'
    <3> SUFFICES ASSUME NEW i \in 1..(Len(vmm_free) + 1),
                        NEW j \in 1..(Len(vmm_free) + 1), i < j
                 PROVE  End(vmm_free'[i]) <= vmm_free'[j].virt
      BY <2>2 DEF FreeApart, End
    <3>0. Len(vmm_free) \in Nat
      BY <1>1, BlockFacts
    <3>1. i \in 1..Len(vmm_free)
      BY <3>0
    <3>2. CASE j = Len(vmm_free) + 1
      BY <1>3, <2>1, <2>2, <3>1, <3>2
    <3>3. CASE j <= Len(vmm_free)
      <4>1. j \in 1..Len(vmm_free)
        BY <3>0, <3>3
      <4> QED
        BY <2>2, <3>1, <4>1 DEF HeapInv, BlocksDisjoint, FreeApart
    <3> QED
      BY <3>0, <3>2, <3>3
  <2>5. ScanAhead'
    <3> SUFFICES ASSUME Scanning', NEW i \in 1..(Len(vmm_free) + 1)
                 PROVE  End(vmm_free'[i]) <= Visits[visit+1].virt
      BY <1>2, <1>3, <1>4, <2>2 DEF ScanAhead, End
    <3>1. /\ visit + 1 <= Len(Visits)
      BY <1>2 DEF Scanning
    <3>2. CASE i = Len(vmm_free) + 1
      BY <1>2, <2>1, <2>2, <3>1, <3>2 DEF End
    <3>3. CASE i <= Len(vmm_free)
      <4>1. i \in 1..Len(vmm_free) /\ vmm_free'[i] = vmm_free[i]
        BY <2>2, <3>3
      <4>2. vmm_free[i].virt \in 0..(M-1) /\ vmm_free[i].size \in 0..(M-1)
        BY <1>1, <4>1, BlockFacts
      <4>3. Visits[visit].virt <= Visits[visit+1].virt
        BY <1>2, <1>6, <3>1
      <4>4. End(vmm_free[i]) <= Visits[visit].virt /\ End(vmm_free[i]) \in Int
        BY <1>3, <4>1, <4>2 DEF End
      <4> QED
        BY <1>2, <1>6, <3>1, <4>1, <4>3, <4>4
    <3> QED
      BY <1>1, <3>2, <3>3, BlockFacts
  <2> QED
    BY <1>5, <2>3, <2>4, <2>5 DEF HeapInv, BlocksDisjoint
<1> QED
  BY <1>7, <1>8

(* A successful malloc: the block is cut off the front of free block i,    *)
(* and at least one byte of that block stays behind it.                    *)
LEMMA MallocTakes ==
    ASSUME SaneSizes, NEW size \in Sizes, NodesInv, HeapInv, Malloc(size),
           wild' = wild
    PROVE  \E i \in 1..Len(vmm_free) :
             /\ size \in 1..(M-2) /\ vmm_free[i].size > size
             /\ \A j \in 1..Len(vmm_free) : vmm_free[j].size > size => i <= j
             /\ ~Scanning
             /\ visit' = visit
             /\ Len(vmm_free') = Len(vmm_free)
             /\ \A j \in 1..Len(vmm_free) : j # i => vmm_free'[j] = vmm_free[j]
             /\ vmm_free'[i].virt = vmm_free[i].virt + size
             /\ vmm_free'[i].size = vmm_free[i].size - size
             /\ Len(vmm_used') = Len(vmm_used) + 1
             /\ \A j \in 1..Len(vmm_used) : vmm_used'[j] = vmm_used[j]
             /\ vmm_used'[Len(vmm_used) + 1].virt = vmm_free[i].virt
             /\ vmm_used'[Len(vmm_used) + 1].size = size
<1>1. TypeOK /\ Accounted(vmm_free, vmm_used, vmm_unused_nodes)
  BY DEF NodesInv, NodesAccounted, Accounted, UnusedSet, Elements
<1>2. size \in 1..(M-2) /\ Add(size, 1) = size + 1
  BY SizesAssumption, MAssumption DEF SaneSizes, Add
<1>3. Idle /\ visit' = visit
  BY DEF Malloc, malloc_above
<1>4. wild = "none"
  BY <1>3 DEF Idle
<1>5. PICK i \in search_free(Add(size, 1), 0) :
          \/ ~NeedsSkip(vmm_free[i], 1, 0)
             /\ TakeBlock(vmm_free, vmm_unused_nodes, i, size)
          \/ NeedsSkip(vmm_free[i], 1, 0)
  BY <1>4 DEF Malloc, malloc_above
<1>6. i \in 1..Len(vmm_free) /\ vmm_free[i].size >= size + 1
  BY <1>1, <1>2, ListFacts DEF search_free, First
<1>7. vmm_free[i].virt \in 0..(M-1) /\ vmm_free[i].size \in 0..(M-1)
  BY <1>1, <1>6, BlockFacts
<1>8. ~NeedsSkip(vmm_free[i], 1, 0)
  <2>1. vmm_free[i].virt % 1 = 0
    BY <1>7, ModuloOne, MAssumption
  <2> QED
    BY <1>7, <2>1, MAssumption DEF NeedsSkip
<1>9. TakeBlock(vmm_free, vmm_unused_nodes, i, size)
  BY <1>5, <1>8
<1>10. size \in 0..(M-1)
  BY SizesAssumption
<1>11. /\ Len(vmm_free') = Len(vmm_free)
       /\ \A j \in 1..Len(vmm_free) : j # i => vmm_free'[j] = vmm_free[j]
       /\ vmm_free'[i].virt = Add(vmm_free[i].virt, size)
       /\ vmm_free'[i].size = Sub(vmm_free[i].size, size)
       /\ Len(vmm_used') = Len(vmm_used) + 1
       /\ \A j \in 1..Len(vmm_used) : vmm_used'[j] = vmm_used[j]
       /\ vmm_used'[Len(vmm_used) + 1].virt = vmm_free[i].virt
       /\ vmm_used'[Len(vmm_used) + 1].size = size
  BY <1>1, <1>6, <1>9, <1>10, ListFacts, TakeBlockEffect
<1>12. Add(vmm_free[i].virt, size) = vmm_free[i].virt + size
  <2>1. vmm_free[i].virt + vmm_free[i].size < M
    BY <1>6 DEF HeapInv, BlocksProper, End
  <2>2. size \in Nat /\ size < vmm_free[i].size
    BY <1>2, <1>6, <1>7, MAssumption
  <2>3. /\ vmm_free[i].virt \in Nat /\ vmm_free[i].size \in Nat
        /\ M \in Nat \ {0}
    BY <1>7, MAssumption
  <2>4. vmm_free[i].virt + size \in 0..(M-1)
    BY ONLY <2>1, <2>2, <2>3
  <2> QED
    BY ONLY <2>3, <2>4 DEF Add
<1>13. Sub(vmm_free[i].size, size) = vmm_free[i].size - size
  BY <1>2, <1>6, <1>7, MAssumption DEF Sub
<1>14. ~Scanning
  BY <1>3 DEF Idle
<1>15. vmm_free[i].size > size
  BY <1>2, <1>6, <1>7, MAssumption
<1>16. ASSUME NEW j \in 1..Len(vmm_free), vmm_free[j].size > size
       PROVE  i <= j
  <2>1. vmm_free[j].virt >= 0 /\ vmm_free[j].size >= Add(size, 1)
    BY <1>1, <1>2, <1>16, BlockFacts
  <2> QED
    BY <1>1, <1>5, <2>1, ListFacts DEF search_free, First
<1> QED
  BY <1>2, <1>3, <1>6, <1>11, <1>12, <1>13, <1>14, <1>15, <1>16

(* It has to give up only when every free block is too short.              *)
LEMMA MallocFails ==
    ASSUME SaneSizes, NEW size \in Sizes, NodesInv, search_free(Add(size, 1), 0) = {}
    PROVE  \A i \in 1..Len(vmm_free) : ~(vmm_free[i].size > size)
<1> DEFINE hits == {i \in DOMAIN vmm_free :
        /\ \/ /\ vmm_free[i].virt <= 0
              /\ Add(vmm_free[i].virt, vmm_free[i].size) > 0
           \/ vmm_free[i].virt >= 0
        /\ vmm_free[i].size >= Add(size, 1)}
<1>1. TypeOK
  BY DEF NodesInv
<1>2. First(hits) = {}
  BY DEF search_free
<1>3. hits \in SUBSET (1..Len(vmm_free)) /\ Len(vmm_free) \in Nat
  BY <1>1, ListFacts
<1> HIDE DEF hits
<1>4. hits = {}
  BY <1>2, <1>3, FirstExists
<1> SUFFICES ASSUME NEW i \in 1..Len(vmm_free), vmm_free[i].size > size
             PROVE  FALSE
  OBVIOUS
<1>5. size \in 1..(M-2) /\ Add(size, 1) = size + 1
  BY SizesAssumption, MAssumption DEF SaneSizes, Add
<1>6. vmm_free[i].virt >= 0 /\ vmm_free[i].size >= Add(size, 1)
  BY <1>1, <1>5, BlockFacts
<1>7. i \in hits
  BY <1>1, <1>6, ListFacts DEF hits
<1> QED
  BY <1>4, <1>7

LEMMA HeapMalloc ==
    ASSUME SaneSizes, NEW size \in Sizes, NodesInv, HeapInv, Malloc(size)
    PROVE  HeapInv'
<1>1. TypeOK
  BY DEF NodesInv
<1>2. visit' = visit
  BY DEF Malloc, malloc_above
<1>3. ASSUME UNCHANGED lists, wild' = "oom"
      PROVE  HeapInv'
  BY <1>2, <1>3 DEF HeapInv, BlocksProper, BlocksDisjoint, FreeApart, UsedApart,
     UsedFreeApart, Headroom, ScanAhead, Scanning, FreeFindsNeighbor, lists, End,
     Apart
<1>4. ASSUME wild' = wild
      PROVE  HeapInv'
  <2> DEFINE L == Len(vmm_free)
             U == Len(vmm_used)
  <2>1. PICK i \in 1..L :
          /\ size \in 1..(M-2) /\ vmm_free[i].size > size
          /\ ~Scanning
          /\ visit' = visit
          /\ Len(vmm_free') = L
          /\ \A j \in 1..L : j # i => vmm_free'[j] = vmm_free[j]
          /\ vmm_free'[i].virt = vmm_free[i].virt + size
          /\ vmm_free'[i].size = vmm_free[i].size - size
          /\ Len(vmm_used') = U + 1
          /\ \A j \in 1..U : vmm_used'[j] = vmm_used[j]
          /\ vmm_used'[U + 1].virt = vmm_free[i].virt
          /\ vmm_used'[U + 1].size = size
    BY <1>4, MallocTakes
  <2>2. /\ L \in Nat /\ U \in Nat /\ M \in Nat /\ M > 1
        /\ \A j \in 1..L : vmm_free[j].virt \in Nat /\ vmm_free[j].size \in Nat
        /\ \A j \in 1..U : vmm_used[j].virt \in Nat /\ vmm_used[j].size \in Nat
    BY <1>1, BlockFacts
  <2> HIDE DEF L, U
  <2>3. /\ \A j \in 1..L : vmm_free[j].size >= 1 /\ End(vmm_free[j]) < M
        /\ \A j \in 1..U : vmm_used[j].size >= 1 /\ End(vmm_used[j]) < M
    BY DEF HeapInv, BlocksProper, L, U
  <2>4. /\ \A j, k \in 1..L : j < k => End(vmm_free[j]) <= vmm_free[k].virt
        /\ \A j, k \in 1..U : j # k => Apart(vmm_used[j], vmm_used[k])
        /\ \A j \in 1..U, k \in 1..L : Apart(vmm_used[j], vmm_free[k])
    BY DEF HeapInv, BlocksDisjoint, FreeApart, UsedApart, UsedFreeApart, L, U
  <2>5. /\ End(vmm_free'[i]) = End(vmm_free[i])
        /\ vmm_free'[i].virt > vmm_free[i].virt
        /\ vmm_free'[i].size >= 1
        /\ End(vmm_used'[U + 1]) = vmm_free'[i].virt
        /\ End(vmm_used'[U + 1]) < End(vmm_free[i])
    <3>1. /\ vmm_free[i].virt \in Nat /\ vmm_free[i].size \in Nat
          /\ size \in Nat /\ size >= 1 /\ vmm_free[i].size > size
      BY <2>1, <2>2
    <3>2. /\ vmm_free'[i].virt = vmm_free[i].virt + size
          /\ vmm_free'[i].size = vmm_free[i].size - size
          /\ vmm_used'[U + 1].virt = vmm_free[i].virt
          /\ vmm_used'[U + 1].size = size
      BY <2>1
    <3> QED
      BY ONLY <3>1, <3>2 DEF End
  <2>6. \A j \in 1..L : /\ vmm_free'[j].virt >= vmm_free[j].virt
                         /\ End(vmm_free'[j]) = End(vmm_free[j])
                         /\ vmm_free'[j].size >= 1
                         /\ vmm_free'[j].virt \in Nat
    <3> TAKE j \in 1..L
    <3>1. CASE j = i
      <4>1. vmm_free[i].virt \in Nat /\ size \in Nat
        BY <2>1, <2>2
      <4> QED
        BY <2>1, <2>2, <2>5, <3>1, <4>1
    <3>2. CASE j # i
      <4>1. vmm_free'[j] = vmm_free[j]
        BY <2>1, <3>2
      <4> QED
        BY <2>2, <2>3, <4>1 DEF End
    <3> QED
      BY <3>1, <3>2
  <2>7. \A k \in 1..(U + 1) : k # U + 1 => k \in 1..U /\ vmm_used'[k] = vmm_used[k]
    BY <2>1, <2>2
  <2>8. BlocksProper'
    <3>1. \A j \in 1..L : vmm_free'[j].size >= 1 /\ End(vmm_free'[j]) < M
      BY <2>3, <2>6
    <3>2. End(vmm_free[i]) \in Int /\ vmm_free'[i].virt \in Int
      BY <2>2, <2>6 DEF End
    <3>3. vmm_used'[U + 1].size >= 1 /\ End(vmm_used'[U + 1]) < M
      BY <2>1, <2>2, <2>3, <2>5, <3>2
    <3>4. \A k \in 1..(U + 1) : vmm_used'[k].size >= 1 /\ End(vmm_used'[k]) < M
      BY <2>3, <2>7, <3>3
    <3> QED
      BY <2>1, <3>1, <3>4 DEF BlocksProper, End
  <2>9. FreeApart'
    <3>1. \A j, k \in 1..L : j < k => End(vmm_free'[j]) <= vmm_free'[k].virt
      <4> TAKE j, k \in 1..L
      <4> HAVE j < k
      <4>1. End(vmm_free[j]) <= vmm_free[k].virt /\ End(vmm_free[j]) \in Int
        BY <2>2, <2>4 DEF End
      <4> QED
        BY <2>2, <2>6, <4>1
    <3> QED
      BY <2>1, <3>1 DEF FreeApart, End
  <2>10. \A k \in 1..U : Apart(vmm_used[k], vmm_used'[U + 1])
    <3> TAKE k \in 1..U
    <3>1. \/ End(vmm_used[k]) <= vmm_free[i].virt
          \/ End(vmm_free[i]) <= vmm_used[k].virt
      BY ONLY <2>1, <2>4 DEF Apart
    <3>2. /\ vmm_used'[U + 1].virt = vmm_free[i].virt
          /\ End(vmm_used'[U + 1]) \in Int /\ End(vmm_free[i]) \in Int
          /\ vmm_used[k].virt \in Int
      BY ONLY <2>1, <2>2, SizesAssumption, MAssumption DEF End
    <3>3. End(vmm_used'[U + 1]) < End(vmm_free[i])
      BY ONLY <2>5
    <3>4. \/ End(vmm_used[k]) <= vmm_used'[U + 1].virt
          \/ End(vmm_used'[U + 1]) <= vmm_used[k].virt
      BY ONLY <3>1, <3>2, <3>3
    <3> QED
      BY ONLY <3>4 DEF Apart
  <2>11. UsedApart'
    <3>1. \A j, k \in 1..(U + 1) : j # k => Apart(vmm_used'[j], vmm_used'[k])
      <4> TAKE j, k \in 1..(U + 1)
      <4> HAVE j # k
      <4>1. CASE j = U + 1
        BY <2>7, <2>10, <4>1 DEF Apart
      <4>2. CASE k = U + 1
        BY <2>7, <2>10, <4>2
      <4>3. CASE j # U + 1 /\ k # U + 1
        BY <2>4, <2>7, <4>3
      <4> QED
        BY <4>1, <4>2, <4>3
    <3> QED
      BY <2>1, <3>1 DEF UsedApart, Apart, End
  <2>12. UsedFreeApart'
    <3>1. \A j \in 1..(U + 1), k \in 1..L : Apart(vmm_used'[j], vmm_free'[k])
      <4> TAKE j \in 1..(U + 1), k \in 1..L
      <4>1. CASE j # U + 1
        <5>1. Apart(vmm_used[j], vmm_free[k]) /\ vmm_used'[j] = vmm_used[j]
              /\ j \in 1..U
          BY <2>4, <2>7, <4>1
        <5> QED
          BY <2>2, <2>6, <5>1 DEF Apart, End
      <4>2. CASE j = U + 1 /\ k = i
        BY <2>5, <2>2, <2>6, <4>2 DEF Apart
      <4>3. CASE j = U + 1 /\ k < i
        <5>1. End(vmm_free[k]) <= vmm_free[i].virt
          BY <2>4, <4>3
        <5>2. End(vmm_free'[k]) <= vmm_used'[j].virt
          BY <2>1, <2>6, <4>3, <5>1
        <5> QED
          BY <5>2 DEF Apart
      <4>4. CASE j = U + 1 /\ k > i
        <5>1. End(vmm_free[i]) <= vmm_free[k].virt
          BY <2>4, <4>4
        <5>2. End(vmm_free[i]) \in Int /\ End(vmm_used'[j]) \in Int
          BY <2>1, <2>2, <4>4 DEF End
        <5>3. End(vmm_used'[j]) <= vmm_free'[k].virt
          BY <2>2, <2>5, <2>6, <4>4, <5>1, <5>2
        <5> QED
          BY <5>3 DEF Apart
      <4> QED
        BY <2>2, <4>1, <4>2, <4>3, <4>4
    <3> QED
      BY <2>1, <3>1 DEF UsedFreeApart, Apart, End
  <2>13. Headroom'
    <3>1. \A u \in 1..(U + 1) : \E f \in 1..L : vmm_free'[f].virt > vmm_used'[u].virt
      <4> TAKE u \in 1..(U + 1)
      <4>1. CASE u = U + 1
        BY <2>1, <2>5, <4>1
      <4>2. CASE u # U + 1
        <5>1. u \in 1..U /\ vmm_used'[u] = vmm_used[u]
          BY <2>7, <4>2
        <5>2. PICK f \in 1..L : vmm_free[f].virt > vmm_used[u].virt
          BY <5>1 DEF HeapInv, Headroom, L, U
        <5> QED
          BY <2>2, <2>6, <5>1, <5>2
      <4> QED
        BY <4>1, <4>2
    <3> QED
      BY <2>1, <3>1 DEF Headroom
  <2> QED
    BY <1>4, <2>1, <2>8, <2>9, <2>11, <2>12, <2>13
       DEF HeapInv, BlocksDisjoint, ScanAhead, Scanning, FreeFindsNeighbor
<1> QED
  BY <1>3, <1>4 DEF Malloc, malloc_above

(* free's first case: the block goes back between the free blocks below    *)
(* and above it.                                                           *)
LEMMA HeapFreeMoves ==
    ASSUME NodesInv, HeapInv, Idle, visit' = visit, wild' = wild,
           NEW u \in 1..Len(vmm_used), NEW n \in search_free_neighbor(vmm_used[u]),
           vmm_free' = InsertAt(vmm_free, n, vmm_used[u]),
           vmm_used' = RemoveAt(vmm_used, u),
           UNCHANGED vmm_unused_nodes
    PROVE  HeapInv'
<1> DEFINE L == Len(vmm_free)
           U == Len(vmm_used)
           b == vmm_used[u]
<1>1. TypeOK /\ NodesAccounted
  BY DEF NodesInv
<1>2. /\ L \in Nat /\ U \in Nat /\ M \in Nat /\ M > 1
      /\ \A j \in 1..L : vmm_free[j].virt \in Nat /\ vmm_free[j].size \in Nat
      /\ \A j \in 1..U : vmm_used[j].virt \in Nat /\ vmm_used[j].size \in Nat
      /\ DOMAIN vmm_free = 1..L
  BY <1>1, BlockFacts, ListFacts
<1>3. /\ n \in 1..L /\ vmm_free[n].virt > b.virt
      /\ \A j \in 1..L : vmm_free[j].virt > b.virt => n <= j
  BY <1>2 DEF search_free_neighbor, First
<1>4. /\ Len(vmm_free') = L + 1
      /\ \A j \in 1..(L + 1) : vmm_free'[j] =
            IF j < n THEN vmm_free[j] ELSE IF j = n THEN b ELSE vmm_free[j-1]
      /\ Len(vmm_used') = U - 1
      /\ \A j \in 1..(U - 1) : vmm_used'[j] =
            IF j < u THEN vmm_used[j] ELSE vmm_used[j+1]
  BY <1>1, <1>3, FreeEffect
<1>5. /\ \A j \in 1..L : vmm_free[j].size >= 1 /\ End(vmm_free[j]) < M
      /\ \A j \in 1..U : vmm_used[j].size >= 1 /\ End(vmm_used[j]) < M
  BY DEF HeapInv, BlocksProper
<1>6. /\ \A j, k \in 1..L : j < k => End(vmm_free[j]) <= vmm_free[k].virt
      /\ \A j, k \in 1..U : j # k => Apart(vmm_used[j], vmm_used[k])
      /\ \A j \in 1..U, k \in 1..L : Apart(vmm_used[j], vmm_free[k])
  BY DEF HeapInv, BlocksDisjoint, FreeApart, UsedApart, UsedFreeApart
<1>7. u \in 1..U /\ b.virt \in Nat /\ b.size \in Nat /\ b.size >= 1 /\ End(b) < M
  BY <1>2, <1>5
<1> HIDE DEF L, U, b
<1>8. ASSUME NEW j \in 1..L, j < n
      PROVE  End(vmm_free[j]) <= b.virt
  <2>1. ~(vmm_free[j].virt > b.virt)
    <3>1. j < n /\ n \in Nat /\ j \in Nat
      BY ONLY <1>2, <1>3, <1>8
    <3>2. ~(n <= j)
      BY ONLY <3>1
    <3> QED
      BY ONLY <1>3, <3>2
  <2>2. Apart(b, vmm_free[j])
    BY <1>6, <1>7 DEF b
  <2>3. vmm_free[j].virt \in Nat /\ vmm_free[j].size \in Nat
    BY <1>2
  <2> QED
    BY <1>7, <2>1, <2>2, <2>3 DEF Apart, End
<1>9. ASSUME NEW j \in 1..L, j >= n
      PROVE  End(b) <= vmm_free[j].virt
  <2>1. vmm_free[j].virt > b.virt
    <3>1. CASE j = n
      BY <1>3, <3>1
    <3>2. CASE j > n
      <4>1. End(vmm_free[n]) <= vmm_free[j].virt
        BY <1>3, <1>6, <3>2
      <4> QED
        BY <1>2, <1>3, <1>7, <4>1 DEF End
    <3> QED
      BY <1>2, <1>3, <1>9, <3>1, <3>2
  <2>2. Apart(b, vmm_free[j])
    BY <1>6, <1>7 DEF b
  <2>3. vmm_free[j].virt \in Nat /\ vmm_free[j].size \in Nat /\ vmm_free[j].size >= 1
    BY <1>2, <1>5
  <2> QED
    BY <1>7, <2>1, <2>2, <2>3 DEF Apart, End
<1>10. ASSUME NEW j \in 1..(L + 1)
       PROVE  \/ j < n /\ j \in 1..L /\ vmm_free'[j] = vmm_free[j]
              \/ j = n /\ vmm_free'[j] = b
              \/ j > n /\ j - 1 \in 1..L /\ j - 1 >= n /\ vmm_free'[j] = vmm_free[j-1]
  BY <1>2, <1>3, <1>4
<1>11. ASSUME NEW j \in 1..(U - 1)
       PROVE  \E k \in 1..U : /\ k # u /\ vmm_used'[j] = vmm_used[k]
                              /\ k = IF j < u THEN j ELSE j + 1
  BY <1>2, <1>4, <1>7
<1>12. BlocksProper'
  <2>1. \A j \in 1..(L + 1) : vmm_free'[j].size >= 1 /\ End(vmm_free'[j]) < M
    BY <1>5, <1>7, <1>10
  <2>2. \A j \in 1..(U - 1) : vmm_used'[j].size >= 1 /\ End(vmm_used'[j]) < M
    BY <1>5, <1>11
  <2> QED
    BY <1>4, <2>1, <2>2 DEF BlocksProper, End
<1>13. FreeApart'
  <2>1. \A j, k \in 1..(L + 1) : j < k => End(vmm_free'[j]) <= vmm_free'[k].virt
    <3> TAKE j, k \in 1..(L + 1)
    <3> HAVE j < k
    <3>1. CASE k < n
      <4>1. /\ j \in 1..L /\ vmm_free'[j] = vmm_free[j]
            /\ k \in 1..L /\ vmm_free'[k] = vmm_free[k]
        BY <1>2, <1>3, <1>10, <3>1
      <4> QED
        BY <1>6, <4>1
    <3>2. CASE k = n
      <4>1. j \in 1..L /\ j < n /\ vmm_free'[j] = vmm_free[j] /\ vmm_free'[k] = b
        BY <1>2, <1>3, <1>10, <3>2
      <4> QED
        BY <1>8, <4>1
    <3>3. CASE k > n
      <4>1. k - 1 \in 1..L /\ k - 1 >= n /\ vmm_free'[k] = vmm_free[k-1]
        BY <1>2, <1>3, <1>10, <3>3
      <4>2. CASE j < n
        <5>1. j \in 1..L /\ vmm_free'[j] = vmm_free[j] /\ j < k - 1
          BY <1>2, <1>3, <1>10, <4>1, <4>2
        <5> QED
          BY <1>6, <4>1, <5>1
      <4>3. CASE j = n
        BY <1>3, <1>4, <1>9, <4>1, <4>3
      <4>4. CASE j > n
        <5>1. j - 1 \in 1..L /\ vmm_free'[j] = vmm_free[j-1] /\ j - 1 < k - 1
          BY <1>2, <1>3, <1>10, <4>4
        <5> QED
          BY <1>6, <4>1, <5>1
      <4> QED
        BY <1>2, <1>3, <4>2, <4>3, <4>4
    <3> QED
      BY <1>2, <1>3, <3>1, <3>2, <3>3
  <2> QED
    BY <1>4, <2>1 DEF FreeApart, End
<1>14. UsedApart'
  <2>1. \A j, k \in 1..(U - 1) : j # k => Apart(vmm_used'[j], vmm_used'[k])
    <3> TAKE j, k \in 1..(U - 1)
    <3> HAVE j # k
    <3>1. PICK p \in 1..U : vmm_used'[j] = vmm_used[p]
                             /\ p = IF j < u THEN j ELSE j + 1
      BY <1>11
    <3>2. PICK q \in 1..U : vmm_used'[k] = vmm_used[q]
                             /\ q = IF k < u THEN k ELSE k + 1
      BY <1>11
    <3>3. p # q
      BY <1>2, <1>7, <3>1, <3>2
    <3> QED
      BY <1>6, <3>1, <3>2, <3>3
  <2> QED
    BY <1>4, <2>1 DEF UsedApart, Apart, End
<1>15. UsedFreeApart'
  <2>1. \A j \in 1..(U - 1), k \in 1..(L + 1) : Apart(vmm_used'[j], vmm_free'[k])
    <3> TAKE j \in 1..(U - 1), k \in 1..(L + 1)
    <3>1. PICK p \in 1..U : p # u /\ vmm_used'[j] = vmm_used[p]
      BY <1>11
    <3>2. Apart(vmm_used[p], b)
      BY <1>6, <1>7, <3>1 DEF b
    <3> QED
      BY <1>6, <1>10, <3>1, <3>2
  <2> QED
    BY <1>4, <2>1 DEF UsedFreeApart, Apart, End
<1>16. Headroom'
  <2>1. \A v \in 1..(U - 1) : \E f \in 1..(L + 1) :
            vmm_free'[f].virt > vmm_used'[v].virt
    <3> TAKE v \in 1..(U - 1)
    <3>1. PICK p \in 1..U : vmm_used'[v] = vmm_used[p]
      BY <1>11
    <3>2. PICK f \in 1..L : vmm_free[f].virt > vmm_used[p].virt
      BY DEF HeapInv, Headroom, L, U
    <3>3. CASE f < n
      <4>1. f \in 1..(L + 1) /\ vmm_free'[f] = vmm_free[f]
        BY <1>2, <1>3, <1>4, <3>3
      <4> QED
        BY <3>1, <3>2, <4>1
    <3>4. CASE f >= n
      <4>1. f + 1 \in 1..(L + 1) /\ vmm_free'[f+1] = vmm_free[f]
        BY <1>2, <1>3, <1>4, <3>4
      <4> QED
        BY <3>1, <3>2, <4>1
    <3> QED
      BY <1>2, <1>3, <3>3, <3>4
  <2> QED
    BY <1>4, <2>1 DEF Headroom
<1> QED
  BY <1>12, <1>13, <1>14, <1>15, <1>16
     DEF HeapInv, BlocksDisjoint, ScanAhead, Scanning, Idle, FreeFindsNeighbor

LEMMA HeapFree ==
    ASSUME NEW addr, NodesInv, HeapInv, Free(addr)
    PROVE  HeapInv'
<1>1. TypeOK
  BY DEF NodesInv
<1>2. /\ DOMAIN vmm_free = 1..Len(vmm_free)
      /\ DOMAIN vmm_used = 1..Len(vmm_used)
      /\ Len(vmm_free) \in Nat
  BY <1>1, ListFacts
<1>3. Idle /\ visit' = visit
  BY DEF Free
<1>4. ASSUME NEW u \in search_used(addr),
             NEW n \in search_free_neighbor(vmm_used[u]),
             vmm_free' = InsertAt(vmm_free, n, vmm_used[u]),
             vmm_used' = RemoveAt(vmm_used, u),
             UNCHANGED <<vmm_unused_nodes, wild>>
      PROVE  HeapInv'
  <2>1. u \in 1..Len(vmm_used)
    BY <1>2 DEF search_used, First
  <2> QED
    BY <1>3, <1>4, <2>1, HeapFreeMoves
<1>5. ASSUME NEW u \in search_used(addr), search_free_neighbor(vmm_used[u]) = {}
      PROVE  FALSE
  <2> DEFINE hits == {i \in DOMAIN vmm_free : vmm_free[i].virt > vmm_used[u].virt}
  <2>1. u \in 1..Len(vmm_used)
    BY <1>2 DEF search_used, First
  <2>2. PICK f \in 1..Len(vmm_free) : vmm_free[f].virt > vmm_used[u].virt
    BY <2>1 DEF HeapInv, Headroom
  <2>3. hits \in SUBSET (1..Len(vmm_free)) /\ hits # {}
    BY <1>2, <2>2
  <2>4. search_free_neighbor(vmm_used[u]) = First(hits)
    BY DEF search_free_neighbor
  <2> HIDE DEF hits
  <2>5. First(hits) # {}
    BY <1>2, <2>3, FirstExists
  <2> QED
    BY <1>5, <2>4, <2>5
<1>6. ASSUME UNCHANGED <<lists, compacting>>, wild' \in {"none", "walk"}
      PROVE  HeapInv'
  BY <1>3, <1>6 DEF HeapInv, BlocksProper, BlocksDisjoint, FreeApart, UsedApart,
     UsedFreeApart, Headroom, ScanAhead, Scanning, FreeFindsNeighbor, lists, End,
     Apart
<1> QED
  BY <1>4, <1>5, <1>6 DEF Free, FreeUsed, FreeUnknown

(* A merge: the first of two blocks that touch takes over the second.      *)
LEMMA HeapMerge ==
    ASSUME TypeOK, HeapInv, NEW i \in 1..(Len(vmm_free) - 1),
           Add(vmm_free[i].virt, vmm_free[i].size) = vmm_free[i+1].virt,
           Len(vmm_free') = Len(vmm_free) - 1,
           \A j \in 1..(Len(vmm_free) - 1) :
              /\ j < i => vmm_free'[j] = vmm_free[j]
              /\ j > i => vmm_free'[j] = vmm_free[j+1],
           vmm_free'[i].virt = vmm_free[i].virt,
           vmm_free'[i].size = Add(vmm_free[i].size, vmm_free[i+1].size),
           UNCHANGED <<vmm_used, visit, wild>>
    PROVE  HeapInv'
<1> DEFINE L == Len(vmm_free)
           U == Len(vmm_used)
<1>1. /\ L \in Nat /\ U \in Nat /\ M \in Nat /\ M > 1
      /\ \A j \in 1..L : vmm_free[j].virt \in Nat /\ vmm_free[j].size \in Nat
      /\ \A j \in 1..U : vmm_used[j].virt \in Nat /\ vmm_used[j].size \in Nat
  BY BlockFacts
<1>2. /\ i \in 1..(L - 1)
      /\ Add(vmm_free[i].virt, vmm_free[i].size) = vmm_free[i+1].virt
  OBVIOUS
<1>3. /\ Len(vmm_free') = L - 1
      /\ \A j \in 1..(L - 1) :
            /\ j < i => vmm_free'[j] = vmm_free[j]
            /\ j > i => vmm_free'[j] = vmm_free[j+1]
      /\ vmm_free'[i].virt = vmm_free[i].virt
      /\ vmm_free'[i].size = Add(vmm_free[i].size, vmm_free[i+1].size)
  OBVIOUS
<1> HIDE DEF L, U
<1>4. /\ \A j \in 1..L : vmm_free[j].size >= 1 /\ End(vmm_free[j]) < M
      /\ \A j \in 1..U : vmm_used[j].size >= 1 /\ End(vmm_used[j]) < M
  BY DEF HeapInv, BlocksProper, L, U
<1>5. /\ \A j, k \in 1..L : j < k => End(vmm_free[j]) <= vmm_free[k].virt
      /\ \A j \in 1..U, k \in 1..L : Apart(vmm_used[j], vmm_free[k])
      /\ \A j \in 1..U : \E f \in 1..L : vmm_free[f].virt > vmm_used[j].virt
  BY DEF HeapInv, BlocksDisjoint, FreeApart, UsedFreeApart, Headroom, L, U
<1>6. i \in 1..L /\ i + 1 \in 1..L 
  BY <1>1, <1>2
<1>7. End(vmm_free[i]) = vmm_free[i+1].virt
  <2>1. /\ vmm_free[i].virt \in Nat /\ vmm_free[i].size \in Nat
        /\ End(vmm_free[i]) < M
    BY <1>1, <1>4, <1>6
  <2> QED
    BY <1>1, <1>2, <2>1 DEF Add, End
<1>8. /\ vmm_free'[i].size = vmm_free[i].size + vmm_free[i+1].size
      /\ End(vmm_free'[i]) = End(vmm_free[i+1])
  <2>1. /\ vmm_free[i].virt \in Nat /\ vmm_free[i].size \in Nat
        /\ vmm_free[i+1].virt \in Nat /\ vmm_free[i+1].size \in Nat
        /\ End(vmm_free[i+1]) < M
    BY <1>1, <1>4, <1>6
  <2>2. vmm_free[i].size + vmm_free[i+1].size < M
    <3>1. M \in Nat
      BY <1>1
    <3> QED
      BY ONLY <1>7, <2>1, <3>1 DEF End
  <2>3. vmm_free'[i].size = vmm_free[i].size + vmm_free[i+1].size
    BY <1>3, <2>1, <2>2 DEF Add
  <2> QED
    BY <1>3, <1>7, <2>1, <2>3 DEF End
<1>9. ASSUME NEW j \in 1..(L - 1)
       PROVE  \/ j < i /\ j \in 1..L /\ vmm_free'[j] = vmm_free[j]
              \/ j = i
              \/ j > i /\ j + 1 \in 1..L /\ vmm_free'[j] = vmm_free[j+1]
  BY <1>1, <1>2, <1>6, <1>3
<1>10. BlocksProper'
  <2>1. \A j \in 1..(L - 1) : vmm_free'[j].size >= 1 /\ End(vmm_free'[j]) < M
    <3> TAKE j \in 1..(L - 1)
    <3>1. CASE j = i
      <4>1. vmm_free[i].size >= 1 /\ vmm_free[i].size \in Nat
            /\ vmm_free[i+1].size \in Nat /\ End(vmm_free[i+1]) < M
        BY <1>1, <1>4, <1>6
      <4> QED
        BY <1>8, <3>1, <4>1
    <3>2. CASE j # i
      BY <1>4, <1>9, <3>2
    <3> QED
      BY <3>1, <3>2
  <2> QED
    BY <1>3, <1>4, <2>1 DEF BlocksProper, End, U
<1>11. FreeApart'
  <2>1. \A j, k \in 1..(L - 1) : j < k => End(vmm_free'[j]) <= vmm_free'[k].virt
    <3> TAKE j, k \in 1..(L - 1)
    <3> HAVE j < k
    <3>1. PICK p \in 1..L : End(vmm_free'[j]) = End(vmm_free[p])
                             /\ p = IF j < i THEN j ELSE j + 1
      <4>1. CASE j < i
        <5>1. j \in 1..L /\ vmm_free'[j] = vmm_free[j]
          BY <1>1, <1>2, <1>3, <4>1
        <5> QED
          BY <4>1, <5>1 DEF End
      <4>2. CASE j = i
        <5>1. ~(j < i) /\ j + 1 \in 1..L /\ End(vmm_free'[j]) = End(vmm_free[j+1])
          BY <1>1, <1>2, <1>6, <1>8, <4>2
        <5> QED
          BY <5>1
      <4>3. CASE j > i
        <5>1. ~(j < i) /\ j + 1 \in 1..L /\ vmm_free'[j] = vmm_free[j+1]
          BY <1>1, <1>2, <1>3, <4>3
        <5> QED
          BY <5>1 DEF End
      <4> QED
        BY <1>1, <1>2, <4>1, <4>2, <4>3
    <3>2. PICK q \in 1..L : vmm_free'[k].virt = vmm_free[q].virt
                             /\ q = IF k <= i THEN k ELSE k + 1
      <4>1. CASE k <= i
        <5>1. k \in 1..L /\ vmm_free'[k].virt = vmm_free[k].virt
          BY <1>1, <1>2, <1>3, <4>1
        <5> QED
          BY <4>1, <5>1
      <4>2. CASE k > i
        <5>1. ~(k <= i) /\ k + 1 \in 1..L /\ vmm_free'[k] = vmm_free[k+1]
          BY <1>1, <1>2, <1>3, <4>2
        <5> QED
          BY <5>1
      <4>3. k <= i \/ k > i
        BY <1>1, <1>2
      <4> QED
        BY ONLY <4>1, <4>2, <4>3
    <3>3. p < q
      BY <1>1, <1>2, <1>6, <3>1, <3>2
    <3> QED
      BY <1>5, <3>1, <3>2, <3>3
  <2> QED
    BY <1>3, <2>1 DEF FreeApart, End
<1>12. UsedFreeApart'
  <2>1. \A j \in 1..U, k \in 1..(L - 1) : Apart(vmm_used[j], vmm_free'[k])
    <3> TAKE j \in 1..U, k \in 1..(L - 1)
    <3>1. CASE k # i
      BY <1>5, <1>9, <3>1
    <3>2. CASE k = i
      <4>1. Apart(vmm_used[j], vmm_free[i]) /\ Apart(vmm_used[j], vmm_free[i+1])
        BY <1>5, <1>6
      <4>2. /\ vmm_used[j].virt \in Nat /\ vmm_used[j].size \in Nat
            /\ vmm_used[j].size >= 1
            /\ vmm_free[i].virt \in Nat /\ vmm_free[i].size \in Nat
            /\ vmm_free[i+1].virt \in Nat /\ vmm_free[i+1].size \in Nat
        BY <1>1, <1>4, <1>6
      <4>3. vmm_free'[i].virt = vmm_free[i].virt
        BY <1>3
      <4>4. \/ End(vmm_used[j]) <= vmm_free[i].virt
            \/ End(vmm_free[i+1]) <= vmm_used[j].virt
        <5>1. \/ End(vmm_used[j]) <= vmm_free[i].virt
              \/ End(vmm_free[i]) <= vmm_used[j].virt
          BY <4>1 DEF Apart
        <5>2. \/ End(vmm_used[j]) <= vmm_free[i+1].virt
              \/ End(vmm_free[i+1]) <= vmm_used[j].virt
          BY <4>1 DEF Apart
        <5>3. ~(/\ End(vmm_free[i]) <= vmm_used[j].virt
                /\ End(vmm_used[j]) <= vmm_free[i+1].virt)
          BY ONLY <1>7, <4>2 DEF End
        <5>4. \/ End(vmm_used[j]) <= vmm_free[i].virt
              \/ End(vmm_free[i+1]) <= vmm_used[j].virt
          BY ONLY <5>1, <5>2, <5>3
        <5> QED
          BY ONLY <5>4
      <4> QED
        BY <1>8, <3>2, <4>3, <4>4 DEF Apart
    <3> QED
      BY <3>1, <3>2
  <2> QED
    BY <1>3, <2>1 DEF UsedFreeApart, Apart, End, U
<1>13. Headroom'
  <2>1. \A u \in 1..U : \E f \in 1..(L - 1) : vmm_free'[f].virt > vmm_used[u].virt
    <3> TAKE u \in 1..U
    <3>1. PICK f \in 1..L : vmm_free[f].virt > vmm_used[u].virt
      BY <1>5
    <3>2. CASE f <= i
      <4>1. f \in 1..(L - 1) /\ (f < i \/ f = i)
        BY ONLY <1>1, <1>2, <3>2
      <4>2. vmm_free'[f].virt = vmm_free[f].virt
        BY ONLY <1>3, <4>1
      <4> QED
        BY ONLY <3>1, <4>1, <4>2
    <3>3. CASE f > i + 1
      <4>1. f - 1 \in 1..(L - 1) /\ vmm_free'[f-1] = vmm_free[f]
        BY <1>1, <1>2, <1>6, <1>3, <3>3
      <4> QED
        BY <3>1, <4>1
    <3>4. CASE f = i + 1
      <4>1. Apart(vmm_used[u], vmm_free[i])
        BY <1>5, <1>6
      <4>2. /\ vmm_used[u].virt \in Nat /\ vmm_used[u].size \in Nat
            /\ vmm_used[u].size >= 1
            /\ vmm_free[i].virt \in Nat /\ vmm_free[i].size \in Nat
        BY <1>1, <1>4, <1>6
      <4>3. vmm_free[i].virt > vmm_used[u].virt
        <5>1. \/ End(vmm_used[u]) <= vmm_free[i].virt
              \/ End(vmm_free[i]) <= vmm_used[u].virt
          BY ONLY <4>1 DEF Apart
        <5>2. End(vmm_free[i]) > vmm_used[u].virt
          BY ONLY <1>7, <3>1, <3>4
        <5>3. End(vmm_free[i]) \in Int
          BY ONLY <4>2 DEF End
        <5>4. End(vmm_used[u]) > vmm_used[u].virt
          BY ONLY <4>2 DEF End
        <5>5. End(vmm_used[u]) \in Int
          BY ONLY <4>2 DEF End
        <5>6. End(vmm_used[u]) <= vmm_free[i].virt
          BY ONLY <4>2, <5>1, <5>2, <5>3
        <5> QED
          BY ONLY <4>2, <5>4, <5>5, <5>6
      <4> QED
        BY <1>2, <1>3, <4>3
    <3> QED
      BY <1>1, <1>2, <1>6, <3>2, <3>3, <3>4
  <2> QED
    BY <1>3, <2>1 DEF Headroom, U
<1>14. ScanAhead'
  <2> SUFFICES ASSUME Scanning
               PROVE  /\ U = 0
                      /\ \A j \in 1..(L - 1) : End(vmm_free'[j]) <= Visits[visit].virt
    BY <1>3 DEF ScanAhead, Scanning, End, U
  <2>1. U = 0 /\ \A j \in 1..L : End(vmm_free[j]) <= Visits[visit].virt
    BY DEF HeapInv, ScanAhead, L, U
  <2>2. \A j \in 1..(L - 1) : \E p \in 1..L : End(vmm_free'[j]) = End(vmm_free[p])
    BY <1>6, <1>8, <1>9 DEF End
  <2> QED
    BY <2>1, <2>2
<1>15. UsedApart' /\ FreeFindsNeighbor'
  BY DEF HeapInv, BlocksDisjoint, UsedApart, FreeFindsNeighbor
<1> QED
  BY <1>10, <1>11, <1>12, <1>13, <1>14, <1>15 DEF HeapInv, BlocksDisjoint

LEMMA HeapCompact == NodesInv /\ HeapInv /\ CompactStep => HeapInv'
<1> SUFFICES ASSUME NodesInv, HeapInv, CompactStep PROVE HeapInv'
  OBVIOUS
<1>1. UNCHANGED <<vmm_used, visit, wild>>
  BY DEF CompactStep
<1>2. TypeOK /\ NodesAccounted
  BY DEF NodesInv
<1>3. ASSUME NEW i \in search_adjacent_free,
             vmm_free' = RemoveAt([vmm_free EXCEPT ![i].size =
                                      Add(@, vmm_free[i+1].size)], i + 1),
             vmm_unused_nodes' = Append(vmm_unused_nodes, vmm_free[i+1].node)
      PROVE  HeapInv'
  <2>1. /\ i \in 1..(Len(vmm_free) - 1)
        /\ Add(vmm_free[i].virt, vmm_free[i].size) = vmm_free[i+1].virt
    BY DEF search_adjacent_free, First
  <2>2. /\ Len(vmm_free') = Len(vmm_free) - 1
        /\ \A j \in 1..(Len(vmm_free) - 1) :
              /\ j < i => vmm_free'[j] = vmm_free[j]
              /\ j > i => vmm_free'[j] = vmm_free[j+1]
        /\ vmm_free'[i].virt = vmm_free[i].virt
        /\ vmm_free'[i].size = Add(vmm_free[i].size, vmm_free[i+1].size)
    BY <1>1, <1>2, <1>3, <2>1, CompactEffect
  <2> QED
    BY <1>1, <1>2, <2>1, <2>2, HeapMerge
<1>4. ASSUME UNCHANGED vmm_free
      PROVE  HeapInv'
  BY <1>1, <1>4 DEF HeapInv, BlocksProper, BlocksDisjoint, FreeApart, UsedApart,
     UsedFreeApart, Headroom, ScanAhead, Scanning, FreeFindsNeighbor, End, Apart
<1> QED
  BY <1>3, <1>4 DEF CompactStep

HeapStep == NodesInv /\ HeapInv /\ [Next]_vars => HeapInv'

LEMMA HeapNext == ASSUME SaneSizes PROVE HeapStep
<1> SUFFICES ASSUME NodesInv, HeapInv, [Next]_vars PROVE HeapInv'
  BY DEF HeapStep
<1>1. CASE ScanVisit
  BY <1>1, HeapScan
<1>2. ASSUME NEW size \in Sizes, Malloc(size) PROVE HeapInv'
  BY <1>2, HeapMalloc
<1>3. ASSUME NEW addr \in 0..(M-1), Free(addr) PROVE HeapInv'
  BY <1>3, HeapFree
<1>4. CASE CompactStep
  BY <1>4, HeapCompact
<1>5. CASE UNCHANGED vars
  BY <1>5 DEF vars, HeapInv, BlocksProper, BlocksDisjoint, FreeApart, UsedApart,
     UsedFreeApart, Headroom, ScanAhead, Scanning, FreeFindsNeighbor, End, Apart
<1> QED
  BY <1>1, <1>2, <1>3, <1>4, <1>5 DEF Next, Lost

LEMMA HeapAlways == ASSUME SaneSizes PROVE Spec => [](NodesInv /\ HeapInv)
<1>1. Init => NodesInv /\ HeapInv
  BY NodesInit, HeapInit
<1>2. NodesInv /\ HeapInv /\ [Next]_vars => (NodesInv /\ HeapInv)'
  BY HeapNext, NodesStep DEF HeapStep, NextAbove
<1> QED
  BY <1>1, <1>2, PTL DEF Spec

(* As long as malloc is asked for at least one byte and "size + 1" does    *)
(* not wrap, malloc (vmm.c:101) and free (vmm.c:140) never let two blocks  *)
(* overlap, on whichever list they are.                                    *)
THEOREM BlocksDisjointAlways == ASSUME SaneSizes PROVE Spec => []BlocksDisjoint
<1>1. NodesInv /\ HeapInv => BlocksDisjoint
  BY DEF HeapInv
<1> QED
  BY <1>1, HeapAlways, PTL

(* Under the same condition search_free_neighbor (vmm.c:322) never returns *)
(* NULL to free, which would hand it on to insert_before.                  *)
THEOREM FreeFindsNeighborAlways ==
    ASSUME SaneSizes PROVE Spec => []FreeFindsNeighbor
<1>1. NodesInv /\ HeapInv => FreeFindsNeighbor
  BY DEF HeapInv
<1> QED
  BY <1>1, HeapAlways, PTL

-----------------------------------------------------------------------------
(***************************************************************************)
(* The lists of Vmm implement Heap: no space is lost, the free list is     *)
(* merged whenever a call returns, and first fit on that list is first fit *)
(* on the addresses.                                                       *)
(***************************************************************************)
(* What the earlier invariants say of the numbers involved. *)
LEMMA Facts ==
    ASSUME NodesInv, HeapInv
    PROVE  /\ TypeOK
           /\ Len(vmm_free) \in Nat /\ Len(vmm_used) \in Nat
           /\ M \in Nat /\ M > 1
           /\ \A i \in 1..Len(vmm_free) :
                 /\ vmm_free[i].virt \in Nat /\ vmm_free[i].size \in Nat
                 /\ vmm_free[i].size >= 1 /\ End(vmm_free[i]) < M
                 /\ End(vmm_free[i]) = vmm_free[i].virt + vmm_free[i].size
           /\ \A i \in 1..Len(vmm_used) :
                 /\ vmm_used[i].virt \in Nat /\ vmm_used[i].size \in Nat
                 /\ vmm_used[i].size >= 1 /\ End(vmm_used[i]) < M
                 /\ End(vmm_used[i]) = vmm_used[i].virt + vmm_used[i].size
           /\ FreeApart /\ UsedApart /\ UsedFreeApart
<1>1. TypeOK
  BY DEF NodesInv
<1>2. BlocksProper /\ BlocksDisjoint
  BY DEF HeapInv
<1>3. /\ Len(vmm_free) \in Nat /\ Len(vmm_used) \in Nat
      /\ M \in Nat /\ M > 1
      /\ \A i \in 1..Len(vmm_free) :
            vmm_free[i].virt \in 0..(M-1) /\ vmm_free[i].size \in 0..(M-1)
      /\ \A i \in 1..Len(vmm_used) :
            vmm_used[i].virt \in 0..(M-1) /\ vmm_used[i].size \in 0..(M-1)
  BY <1>1, BlockFacts
<1>4. \A i \in 1..Len(vmm_free) :
         /\ vmm_free[i].virt \in Nat /\ vmm_free[i].size \in Nat
         /\ vmm_free[i].size >= 1 /\ End(vmm_free[i]) < M
         /\ End(vmm_free[i]) = vmm_free[i].virt + vmm_free[i].size
  BY <1>2, <1>3 DEF BlocksProper, End
<1>5. \A i \in 1..Len(vmm_used) :
         /\ vmm_used[i].virt \in Nat /\ vmm_used[i].size \in Nat
         /\ vmm_used[i].size >= 1 /\ End(vmm_used[i]) < M
         /\ End(vmm_used[i]) = vmm_used[i].virt + vmm_used[i].size
  BY <1>2, <1>3 DEF BlocksProper, End
<1> QED
  BY <1>1, <1>2, <1>3, <1>4, <1>5 DEF BlocksDisjoint

(***************************************************************************)
(* Whenever a call returns, no two free blocks touch.                      *)
(***************************************************************************)
LEMMA CoalescedWhenDone ==
    ASSUME NodesInv, HeapInv, search_adjacent_free = {}
    PROVE  \A i, j \in 1..Len(vmm_free) :
              i < j => End(vmm_free[i]) < vmm_free[j].virt
<1> DEFINE L == Len(vmm_free)
<1>1. /\ L \in Nat
      /\ \A i \in 1..L : /\ vmm_free[i].virt \in Nat /\ vmm_free[i].size \in Nat
                         /\ vmm_free[i].size >= 1 /\ End(vmm_free[i]) < M
                         /\ End(vmm_free[i]) = vmm_free[i].virt + vmm_free[i].size
      /\ \A i, j \in 1..L : i < j => End(vmm_free[i]) <= vmm_free[j].virt
  BY Facts DEF FreeApart
<1>2. ASSUME NEW i \in 1..(L - 1)
      PROVE  End(vmm_free[i]) # vmm_free[i+1].virt
  <2> DEFINE hits == {k \in 1..(L - 1) :
                Add(vmm_free[k].virt, vmm_free[k].size) = vmm_free[k+1].virt}
  <2>1. First(hits) = {}
    BY DEF search_adjacent_free
  <2>2. hits \in SUBSET (1..(L - 1)) /\ L - 1 \in Nat
    BY <1>1
  <2> HIDE DEF hits
  <2>3. hits = {}
    BY <2>1, <2>2, FirstExists
  <2>4. Add(vmm_free[i].virt, vmm_free[i].size) # vmm_free[i+1].virt
    BY <2>3 DEF hits
  <2>5. i \in 1..L
    BY <1>1
  <2> QED
    BY <1>1, <2>4, <2>5 DEF Add
<1> HIDE DEF L
<1>3. ASSUME NEW i \in 1..L, NEW j \in 1..L, i < j
      PROVE  End(vmm_free[i]) < vmm_free[j].virt
  <2>1. i \in 1..(L - 1) /\ i + 1 \in 1..L
    BY <1>1, <1>3
  <2>2. End(vmm_free[i]) < vmm_free[i+1].virt
    <3>1. i < i + 1 /\ End(vmm_free[i]) \in Nat /\ vmm_free[i+1].virt \in Nat
      BY <1>1, <2>1
    <3>2. End(vmm_free[i]) <= vmm_free[i+1].virt
      BY <1>1, <2>1, <3>1
    <3> QED
      BY <1>2, <2>1, <3>1, <3>2
  <2>3. CASE j = i + 1
    BY <2>2, <2>3
  <2>4. CASE j > i + 1
    <3>1. End(vmm_free[i+1]) <= vmm_free[j].virt
      BY <1>1, <2>1, <2>4
    <3>2. vmm_free[i+1].virt < End(vmm_free[i+1])
      BY <1>1, <2>1
    <3>3. /\ End(vmm_free[i]) \in Nat /\ End(vmm_free[i+1]) \in Nat
          /\ vmm_free[i+1].virt \in Nat /\ vmm_free[j].virt \in Nat
      BY <1>1, <2>1
    <3> QED
      BY ONLY <2>2, <3>1, <3>2, <3>3
  <2> QED
    BY <1>3, <2>1, <2>3, <2>4
<1> QED
  BY <1>3 DEF L

LEMMA CoalescedMalloc ==
    ASSUME SaneSizes, NEW size \in Sizes, NodesInv, HeapInv, FreeCoalesced,
           Malloc(size)
    PROVE  FreeCoalesced'
<1>1. compacting' = compacting /\ ~compacting
  BY DEF Malloc, malloc_above, Idle
<1>2. CASE UNCHANGED lists
  BY <1>1, <1>2 DEF FreeCoalesced, lists, End
<1>3. CASE wild' = wild
  <2>1. PICK i \in 1..Len(vmm_free) :
          /\ Len(vmm_free') = Len(vmm_free)
          /\ \A j \in 1..Len(vmm_free) : j # i => vmm_free'[j] = vmm_free[j]
          /\ vmm_free'[i].virt = vmm_free[i].virt + size
          /\ vmm_free'[i].size = vmm_free[i].size - size
          /\ size \in 1..(M-2)
    BY <1>3, MallocTakes
  <2>2. ASSUME NEW j \in 1..Len(vmm_free)
        PROVE  /\ End(vmm_free'[j]) = End(vmm_free[j])
               /\ vmm_free'[j].virt >= vmm_free[j].virt
               /\ vmm_free'[j].virt \in Nat
               /\ vmm_free[j].virt \in Nat /\ End(vmm_free[j]) \in Nat
    <3>1. /\ vmm_free[j].virt \in Nat /\ vmm_free[j].size \in Nat
          /\ size \in Nat /\ size >= 1
      BY <2>1, Facts
    <3>2. CASE j = i
      BY <2>1, <3>1, <3>2 DEF End
    <3>3. CASE j # i
      BY <2>1, <3>1, <3>3 DEF End
    <3> QED
      BY <3>2, <3>3
  <2>3. ASSUME NEW j \in 1..Len(vmm_free), NEW k \in 1..Len(vmm_free), j < k
        PROVE  End(vmm_free'[j]) < vmm_free'[k].virt
    <3>1. End(vmm_free[j]) < vmm_free[k].virt
      BY <1>1, <2>3 DEF FreeCoalesced
    <3> QED
      BY <2>2, <3>1
  <2> QED
    BY <2>1, <2>3 DEF FreeCoalesced, End
<1> QED
  BY <1>2, <1>3 DEF Malloc, malloc_above

LEMMA CoalescedNext ==
    ASSUME SaneSizes, NodesInv, HeapInv, FreeCoalesced, [Next]_vars
    PROVE  FreeCoalesced'
<1>1. CASE ScanVisit
  BY <1>1 DEF ScanVisit, FreeCoalesced, lists, End
<1>2. ASSUME NEW size \in Sizes, Malloc(size) PROVE FreeCoalesced'
  BY <1>2, CoalescedMalloc
<1>3. ASSUME NEW addr \in 0..(M-1), Free(addr) PROVE FreeCoalesced'
  <2>1. compacting' = TRUE \/ UNCHANGED <<lists, compacting>>
    BY <1>3 DEF Free, FreeUsed, FreeUnknown
  <2> QED
    BY <2>1 DEF FreeCoalesced, lists, End
<1>4. CASE CompactStep
  <2>1. CASE UNCHANGED compacting
    BY <1>4, <2>1 DEF CompactStep, FreeCoalesced
  <2>2. CASE search_adjacent_free = {} /\ UNCHANGED vmm_free
    <3>1. \A i, j \in 1..Len(vmm_free) :
              i < j => End(vmm_free[i]) < vmm_free[j].virt
      BY <2>2, CoalescedWhenDone
    <3> QED
      BY <2>2, <3>1 DEF FreeCoalesced, End
  <2> QED
    BY <1>4, <2>1, <2>2 DEF CompactStep
<1>5. CASE UNCHANGED vars
  BY <1>5 DEF vars, FreeCoalesced, End
<1> QED
  BY <1>1, <1>2, <1>3, <1>4, <1>5 DEF Next, Lost

(* Whenever no compaction is under way, that is whenever malloc            *)
(* (vmm.c:101) or free (vmm.c:140) has returned, no two free blocks touch. *)
THEOREM FreeCoalescedAlways == ASSUME SaneSizes PROVE Spec => []FreeCoalesced
<1>1. Init => FreeCoalesced
  <2> SUFFICES ASSUME Init PROVE FreeCoalesced
    OBVIOUS
  <2>1. Len(vmm_free) = 0
    BY DEF Init
  <2> QED
    BY <2>1 DEF FreeCoalesced
<1>2. (NodesInv /\ HeapInv) /\ FreeCoalesced /\ [Next]_vars => FreeCoalesced'
  BY CoalescedNext
<1> QED
  BY <1>1, <1>2, HeapAlways, PTL DEF Spec

(***************************************************************************)
(* No space is lost.                                                       *)
(***************************************************************************)
LEMMA SpaceScan ==
    ASSUME NodesInv, HeapInv, SpaceConserved, ScanVisit
    PROVE  SpaceConserved'
<1> DEFINE L == Len(vmm_free)
           New(x) == ~Visits[visit].present /\ Holds(Visits[visit], x)
<1>1. /\ visit \in 1..Len(Visits) /\ visit' = visit + 1 /\ Len(Visits) \in Nat
      /\ vmm_used' = vmm_used
  BY Facts, VisitFacts DEF ScanVisit, Scanning, lists
<1>2. ASSUME NEW x
      PROVE  Unmapped(x, visit) <=> Unmapped(x, visit - 1) \/ New(x)
  <2>1. \A i \in 1..visit : i \in 1..(visit - 1) \/ i = visit
    BY <1>1
  <2>2. visit \in 1..visit /\ \A i \in 1..(visit - 1) : i \in 1..visit
    BY <1>1
  <2> QED
    BY <2>1, <2>2 DEF Unmapped
<1>3. \A x : InUsed(x)' <=> InUsed(x)
  BY <1>1 DEF InUsed, Holds, End
<1>4. ASSUME NEW x
      PROVE  InFree(x)' <=> InFree(x) \/ New(x)
  <2>1. CASE Visits[visit].present
    <3>1. InFree(x)' <=> InFree(x)
      <4>1. vmm_free' = vmm_free
        BY <2>1 DEF ScanVisit, lists
      <4> QED
        BY <4>1 DEF InFree, Holds, End
    <3>2. ~New(x)
      BY <2>1
    <3> HIDE DEF New
    <3> QED
      BY ONLY <3>1, <3>2
  <2>2. CASE ~Visits[visit].present
    <3> DEFINE e == [node |-> get_unused_node(vmm_free, vmm_used, vmm_unused_nodes),
                     virt |-> Visits[visit].virt, size |-> Visits[visit].size]
    <3>1. /\ vmm_free' = Append(vmm_free, e)
          /\ e.virt = Visits[visit].virt /\ e.size = Visits[visit].size
      BY <2>2 DEF ScanVisit
    <3> HIDE DEF e
    <3>2. /\ L \in Nat /\ Len(vmm_free') = L + 1
          /\ \A i \in 1..L : vmm_free'[i] = vmm_free[i]
          /\ vmm_free'[L + 1] = e
      <4>1. vmm_free \in Seq(Block) /\ L \in Nat
        BY Facts DEF TypeOK
      <4>2. vmm_free \in Seq(Block \cup {e}) /\ e \in Block \cup {e}
        <5>1. DOMAIN vmm_free = 1..L /\ \A i \in 1..L : vmm_free[i] \in Block
          BY <4>1, LenProperties, ElementOfSeq
        <5>2. vmm_free = [i \in 1..L |-> vmm_free[i]]
          BY <4>1, <5>1
        <5>3. vmm_free \in [1..L -> Block \cup {e}]
          BY <5>1, <5>2
        <5> QED
          BY <4>1, <5>3, SeqDef
      <4> QED
        BY <3>1, <4>1, <4>2, AppendProperties
    <3>3. Holds(vmm_free'[L + 1], x) <=> Holds(Visits[visit], x)
      BY <3>1, <3>2 DEF Holds, End
    <3>4. \A i \in 1..(L + 1) : i \in 1..L \/ i = L + 1
      BY <3>2
    <3>5. L + 1 \in 1..(L + 1) /\ \A i \in 1..L : i \in 1..(L + 1)
      BY <3>2
    <3>6. InFree(x)' <=> \E i \in 1..(L + 1) : Holds(vmm_free'[i], x)
      BY <3>2 DEF InFree, Holds, End
    <3>7. InFree(x) <=> \E i \in 1..L : Holds(vmm_free'[i], x)
      BY <3>2 DEF InFree
    <3>8. InFree(x)' <=> InFree(x) \/ Holds(Visits[visit], x)
      BY ONLY <3>3, <3>4, <3>5, <3>6, <3>7
    <3>9. New(x) <=> Holds(Visits[visit], x)
      BY <2>2, Zenon
    <3> HIDE DEF New
    <3> QED
      BY ONLY <3>8, <3>9
  <2> QED
    BY <2>1, <2>2
<1>5. visit' - 1 = visit
  BY <1>1
<1> HIDE DEF New
<1>6. ASSUME NEW x \in 0..(M-1)
      PROVE  Unmapped(x, visit) <=> InFree(x)' \/ InUsed(x)'
  <2>1. Unmapped(x, visit - 1) <=> InFree(x) \/ InUsed(x)
    BY DEF SpaceConserved
  <2>2. InUsed(x)' <=> InUsed(x)
    BY <1>3
  <2>3. /\ Unmapped(x, visit) <=> Unmapped(x, visit - 1) \/ New(x)
        /\ InFree(x)' <=> InFree(x) \/ New(x)
    BY <1>2, <1>4
  <2> QED
    BY ONLY <2>1, <2>2, <2>3
<1> QED
  BY <1>5, <1>6 DEF SpaceConserved, Unmapped, InFree, InUsed, Holds, End

(* A malloc: the addresses at the front of the free block become used.     *)
LEMMA SpaceMalloc ==
    ASSUME SaneSizes, NEW size \in Sizes, NodesInv, HeapInv, SpaceConserved,
           Malloc(size)
    PROVE  SpaceConserved'
<1>1. CASE UNCHANGED lists
  BY <1>1 DEF Malloc, malloc_above, SpaceConserved, Unmapped, InFree, InUsed,
     Holds, End, lists
<1>2. CASE wild' = wild
  <2> DEFINE L == Len(vmm_free)
             U == Len(vmm_used)
  <2>1. PICK i \in 1..L :
          /\ size \in 1..(M-2) /\ vmm_free[i].size > size
          /\ visit' = visit
          /\ Len(vmm_free') = L
          /\ \A j \in 1..L : j # i => vmm_free'[j] = vmm_free[j]
          /\ vmm_free'[i].virt = vmm_free[i].virt + size
          /\ vmm_free'[i].size = vmm_free[i].size - size
          /\ Len(vmm_used') = U + 1
          /\ \A j \in 1..U : vmm_used'[j] = vmm_used[j]
          /\ vmm_used'[U + 1].virt = vmm_free[i].virt
          /\ vmm_used'[U + 1].size = size
    BY <1>2, MallocTakes
  <2>2. /\ U \in Nat /\ vmm_free[i].virt \in Nat /\ vmm_free[i].size \in Nat
        /\ size \in Nat
    BY <2>1, Facts
  <2>3. ASSUME NEW x \in Nat
        PROVE  Holds(vmm_free[i], x) <=>
                  Holds(vmm_free'[i], x) \/ Holds(vmm_used'[U + 1], x)
    <3> DEFINE a == vmm_free[i].virt
               p == vmm_free[i].size
    <3>1. /\ a \in Nat /\ p \in Nat /\ size \in Nat /\ p > size
          /\ vmm_free'[i].virt = a + size /\ vmm_free'[i].size = p - size
          /\ vmm_used'[U + 1].virt = a /\ vmm_used'[U + 1].size = size
      BY <2>1, <2>2
    <3>2. Holds(vmm_free[i], x) <=> a <= x /\ x < a + p
      BY DEF Holds, End
    <3> HIDE DEF a, p
    <3>3. Holds(vmm_free'[i], x) <=> a + size <= x /\ x < (a + size) + (p - size)
      BY <3>1 DEF Holds, End
    <3>4. Holds(vmm_used'[U + 1], x) <=> a <= x /\ x < a + size
      BY <3>1 DEF Holds, End
    <3> QED
      BY ONLY <2>3, <3>1, <3>2, <3>3, <3>4
  <2> HIDE DEF L, U
  <2>4. ASSUME NEW x \in 0..(M-1)
        PROVE  InFree(x) \/ InUsed(x) <=> InFree(x)' \/ InUsed(x)'
    <3>1. InFree(x) <=> \E j \in 1..L : Holds(vmm_free[j], x)
      BY DEF InFree, L
    <3>2. InUsed(x) <=> \E j \in 1..U : Holds(vmm_used[j], x)
      BY DEF InUsed, U
    <3>3. InFree(x)' <=> \E j \in 1..L : Holds(vmm_free'[j], x)
      BY <2>1 DEF InFree, Holds, End
    <3>4. InUsed(x)' <=> \E j \in 1..(U + 1) : Holds(vmm_used'[j], x)
      BY <2>1 DEF InUsed, Holds, End
    <3>5. InUsed(x)' <=> InUsed(x) \/ Holds(vmm_used'[U + 1], x)
      <4>1. \A j \in 1..(U + 1) : j \in 1..U \/ j = U + 1
        BY <2>2
      <4>2. U + 1 \in 1..(U + 1) /\ \A j \in 1..U : j \in 1..(U + 1)
        BY <2>2
      <4>3. \A j \in 1..U : vmm_used'[j] = vmm_used[j]
        BY <2>1
      <4> QED
        BY <3>2, <3>4, <4>1, <4>2, <4>3
    <3>6. Holds(vmm_free[i], x) <=>
              Holds(vmm_free'[i], x) \/ Holds(vmm_used'[U + 1], x)
      BY <2>3
    <3>7. \A j \in 1..L : j # i => vmm_free'[j] = vmm_free[j]
      BY <2>1
    <3> QED
      BY <3>1, <3>3, <3>5, <3>6, <3>7
  <2>5. ASSUME NEW x \in 0..(M-1)
        PROVE  Unmapped(x, visit - 1) <=> InFree(x)' \/ InUsed(x)'
    BY <2>4 DEF SpaceConserved
  <2> QED
    BY <2>1, <2>5 DEF SpaceConserved, Unmapped, InFree, InUsed, Holds, End
<1> QED
  BY <1>1, <1>2 DEF Malloc, malloc_above

(* A free: the block goes from one list to the other.                      *)
LEMMA SpaceFreeMoves ==
    ASSUME NodesInv, HeapInv, SpaceConserved, visit' = visit,
           NEW u \in 1..Len(vmm_used), NEW n \in 1..Len(vmm_free),
           vmm_free' = InsertAt(vmm_free, n, vmm_used[u]),
           vmm_used' = RemoveAt(vmm_used, u),
           UNCHANGED vmm_unused_nodes
    PROVE  SpaceConserved'
<1> DEFINE L == Len(vmm_free)
           U == Len(vmm_used)
<1>1. /\ Len(vmm_free') = L + 1
      /\ \A j \in 1..(L + 1) : vmm_free'[j] =
            IF j < n THEN vmm_free[j] ELSE IF j = n THEN vmm_used[u]
            ELSE vmm_free[j-1]
      /\ Len(vmm_used') = U - 1
      /\ \A j \in 1..(U - 1) : vmm_used'[j] =
            IF j < u THEN vmm_used[j] ELSE vmm_used[j+1]
  BY FreeEffect DEF NodesInv
<1>2. L \in Nat /\ U \in Nat /\ u \in 1..U /\ n \in 1..L
  BY Facts
<1> DEFINE b == vmm_used[u]
<1> HIDE DEF L, U
<1>3. ASSUME NEW x
      PROVE  InFree(x)' <=> InFree(x) \/ Holds(b, x)
  <2>1. InFree(x)' <=> \E j \in 1..(L + 1) : Holds(vmm_free'[j], x)
    BY <1>1 DEF InFree, Holds, End
  <2>2. InFree(x) <=> \E j \in 1..L : Holds(vmm_free[j], x)
    BY DEF InFree, L
  <2>3. \A j \in 1..(L + 1) : \/ j \in 1..L /\ vmm_free'[j] = vmm_free[j]
                              \/ vmm_free'[j] = b
                              \/ j - 1 \in 1..L /\ vmm_free'[j] = vmm_free[j-1]
    BY <1>1, <1>2
  <2>4. \A j \in 1..L : \E k \in 1..(L + 1) : vmm_free'[k] = vmm_free[j]
    <3> TAKE j \in 1..L
    <3>1. CASE j < n
      <4>1. j \in 1..(L + 1) /\ vmm_free'[j] = vmm_free[j]
        BY <1>1, <1>2, <3>1
      <4> QED
        BY <4>1
    <3>2. CASE j >= n
      <4>1. j + 1 \in 1..(L + 1) /\ vmm_free'[j+1] = vmm_free[j]
        BY <1>1, <1>2, <3>2
      <4> QED
        BY <4>1
    <3> QED
      BY <1>2, <3>1, <3>2
  <2>5. n \in 1..(L + 1) /\ vmm_free'[n] = b
    BY <1>1, <1>2
  <2> HIDE DEF b
  <2> QED
    BY <2>1, <2>2, <2>3, <2>4, <2>5
<1>4. ASSUME NEW x
      PROVE  InUsed(x) <=> InUsed(x)' \/ Holds(b, x)
  <2>1. InUsed(x)' <=> \E j \in 1..(U - 1) : Holds(vmm_used'[j], x)
    BY <1>1 DEF InUsed, Holds, End
  <2>2. InUsed(x) <=> \E j \in 1..U : Holds(vmm_used[j], x)
    BY DEF InUsed, U
  <2>3. \A j \in 1..(U - 1) : \/ j \in 1..U /\ vmm_used'[j] = vmm_used[j]
                              \/ j + 1 \in 1..U /\ vmm_used'[j] = vmm_used[j+1]
    BY <1>1, <1>2
  <2>4. \A j \in 1..U : j = u \/ \E k \in 1..(U - 1) : vmm_used'[k] = vmm_used[j]
    <3> TAKE j \in 1..U
    <3>1. CASE j < u
      <4>1. j \in 1..(U - 1) /\ vmm_used'[j] = vmm_used[j]
        BY <1>1, <1>2, <3>1
      <4> QED
        BY <4>1
    <3>2. CASE j > u
      <4>1. j - 1 \in 1..(U - 1) /\ vmm_used'[j-1] = vmm_used[j]
        BY <1>1, <1>2, <3>2
      <4> QED
        BY <4>1
    <3> QED
      BY <1>2, <3>1, <3>2
  <2> QED
    BY <1>2, <2>1, <2>2, <2>3, <2>4
<1>5. ASSUME NEW x \in 0..(M-1)
      PROVE  Unmapped(x, visit - 1) <=> InFree(x)' \/ InUsed(x)'
  BY <1>3, <1>4 DEF SpaceConserved
<1> QED
  BY <1>5 DEF SpaceConserved, Unmapped, InFree, InUsed, Holds, End

(* A merge: the second block's addresses become the first one's.           *)
LEMMA SpaceMerge ==
    ASSUME NodesInv, HeapInv, SpaceConserved, CompactStep,
           NEW i \in 1..(Len(vmm_free) - 1),
           Add(vmm_free[i].virt, vmm_free[i].size) = vmm_free[i+1].virt,
           Len(vmm_free') = Len(vmm_free) - 1,
           \A j \in 1..(Len(vmm_free) - 1) :
              /\ j < i => vmm_free'[j] = vmm_free[j]
              /\ j > i => vmm_free'[j] = vmm_free[j+1],
           vmm_free'[i].virt = vmm_free[i].virt,
           vmm_free'[i].size = Add(vmm_free[i].size, vmm_free[i+1].size)
    PROVE  SpaceConserved'
<1> DEFINE L == Len(vmm_free)
<1>1. /\ L \in Nat /\ M \in Nat
      /\ \A j \in 1..L : /\ vmm_free[j].virt \in Nat /\ vmm_free[j].size \in Nat
                         /\ vmm_free[j].size >= 1 /\ End(vmm_free[j]) < M
                         /\ End(vmm_free[j]) = vmm_free[j].virt + vmm_free[j].size
  BY Facts
<1>2. /\ i \in 1..(L - 1) /\ Len(vmm_free') = L - 1
      /\ \A j \in 1..(L - 1) : /\ j < i => vmm_free'[j] = vmm_free[j]
                               /\ j > i => vmm_free'[j] = vmm_free[j+1]
  OBVIOUS
<1> HIDE DEF L
<1>3. i \in 1..L /\ i + 1 \in 1..L
  BY <1>1, <1>2
<1>4. ASSUME NEW x \in Nat
      PROVE  Holds(vmm_free'[i], x) <=> Holds(vmm_free[i], x) \/ Holds(vmm_free[i+1], x)
  <2> DEFINE a == vmm_free[i].virt
             p == vmm_free[i].size
             q == vmm_free[i+1].size
             c == vmm_free[i+1].virt
  <2>1. /\ a \in Nat /\ p \in Nat /\ q \in Nat /\ c \in Nat
        /\ p >= 1 /\ q >= 1 /\ a + p < M /\ c + q < M
    BY <1>1, <1>3
  <2>2. /\ Add(a, p) = c /\ vmm_free'[i].virt = a /\ vmm_free'[i].size = Add(p, q)
        /\ End(vmm_free[i]) = a + p /\ End(vmm_free[i+1]) = c + q
    BY <1>1, <1>3
  <2> HIDE DEF a, p, q, c
  <2>3. c = a + p
    BY <2>1, <2>2 DEF Add
  <2>4. p + q < M
    BY ONLY <1>1, <2>1, <2>3
  <2>5. End(vmm_free'[i]) = a + (p + q)
    BY <2>2, <2>4 DEF Add, End
  <2>6. Holds(vmm_free'[i], x) <=> a <= x /\ x < a + (p + q)
    BY <2>2, <2>5 DEF Holds
  <2>7. Holds(vmm_free[i], x) <=> a <= x /\ x < a + p
    BY <2>2 DEF Holds, a
  <2>8. Holds(vmm_free[i+1], x) <=> c <= x /\ x < c + q
    BY <2>2 DEF Holds, c
  <2> QED
    BY ONLY <1>4, <2>1, <2>3, <2>6, <2>7, <2>8
<1>5. ASSUME NEW x \in 0..(M-1)
      PROVE  InFree(x)' <=> InFree(x)
  <2>0. x \in Nat
    OBVIOUS
  <2>1. InFree(x)' <=> \E j \in 1..(L - 1) : Holds(vmm_free'[j], x)
    BY <1>2 DEF InFree, Holds, End
  <2>2. InFree(x) <=> \E j \in 1..L : Holds(vmm_free[j], x)
    BY DEF InFree, L
  <2>3. \A j \in 1..(L - 1) : \/ j \in 1..L /\ vmm_free'[j] = vmm_free[j]
                              \/ j = i
                              \/ j + 1 \in 1..L /\ vmm_free'[j] = vmm_free[j+1]
    BY <1>1, <1>2
  <2>4. \A j \in 1..L : \/ j = i \/ j = i + 1
                        \/ \E k \in 1..(L - 1) : vmm_free'[k] = vmm_free[j]
    <3> TAKE j \in 1..L
    <3>1. CASE j < i
      <4>1. j \in 1..(L - 1) /\ vmm_free'[j] = vmm_free[j]
        BY <1>1, <1>2, <3>1
      <4> QED
        BY <4>1
    <3>2. CASE j > i + 1
      <4>1. j - 1 \in 1..(L - 1) /\ vmm_free'[j-1] = vmm_free[j]
        BY <1>1, <1>2, <3>2
      <4> QED
        BY <4>1
    <3> QED
      BY <1>1, <1>2, <3>1, <3>2
  <2>5. Holds(vmm_free'[i], x) <=> Holds(vmm_free[i], x) \/ Holds(vmm_free[i+1], x)
    BY <1>4, <2>0
  <2> QED
    BY <1>2, <1>3, <2>1, <2>2, <2>3, <2>4, <2>5
<1>6. visit' = visit /\ \A x : InUsed(x)' <=> InUsed(x)
  BY DEF CompactStep, InUsed, Holds, End
<1>7. ASSUME NEW x \in 0..(M-1)
      PROVE  Unmapped(x, visit - 1) <=> InFree(x)' \/ InUsed(x)'
  BY <1>5, <1>6 DEF SpaceConserved
<1> QED
  BY <1>6, <1>7 DEF SpaceConserved, Unmapped, InFree, InUsed, Holds, End

LEMMA SpaceNext ==
    ASSUME SaneSizes, NodesInv, HeapInv, SpaceConserved, [Next]_vars
    PROVE  SpaceConserved'
<1>1. CASE ScanVisit
  BY <1>1, SpaceScan
<1>2. ASSUME NEW size \in Sizes, Malloc(size) PROVE SpaceConserved'
  BY <1>2, SpaceMalloc
<1>3. ASSUME vmm_free' = vmm_free, vmm_used' = vmm_used, visit' = visit
      PROVE  SpaceConserved'
  BY <1>3 DEF SpaceConserved, Unmapped, InFree, InUsed, Holds, End
<1>4. ASSUME NEW addr \in 0..(M-1), Free(addr) PROVE SpaceConserved'
  <2>1. visit' = visit
    BY <1>4 DEF Free
  <2>2. ASSUME NEW u \in search_used(addr),
               NEW n \in search_free_neighbor(vmm_used[u]),
               vmm_free' = InsertAt(vmm_free, n, vmm_used[u]),
               vmm_used' = RemoveAt(vmm_used, u),
               UNCHANGED vmm_unused_nodes
        PROVE  SpaceConserved'
    <3>1. u \in 1..Len(vmm_used) /\ n \in 1..Len(vmm_free)
      BY Facts, ListFacts DEF search_used, search_free_neighbor, First
    <3> QED
      BY <2>1, <2>2, <3>1, SpaceFreeMoves
  <2>3. CASE UNCHANGED lists
    BY <1>3, <2>1, <2>3 DEF lists
  <2> QED
    BY <1>4, <2>2, <2>3 DEF Free, FreeUsed, FreeUnknown
<1>5. CASE CompactStep
  <2>1. visit' = visit /\ UNCHANGED vmm_used
    BY <1>5 DEF CompactStep
  <2>2. ASSUME NEW i \in search_adjacent_free,
               vmm_free' = RemoveAt([vmm_free EXCEPT ![i].size =
                                        Add(@, vmm_free[i+1].size)], i + 1),
               vmm_unused_nodes' = Append(vmm_unused_nodes, vmm_free[i+1].node)
        PROVE  SpaceConserved'
    <3>1. /\ i \in 1..(Len(vmm_free) - 1)
          /\ Add(vmm_free[i].virt, vmm_free[i].size) = vmm_free[i+1].virt
      BY DEF search_adjacent_free, First
    <3>2. TypeOK /\ NodesAccounted
      BY DEF NodesInv
    <3>3. /\ Len(vmm_free') = Len(vmm_free) - 1
          /\ \A j \in 1..(Len(vmm_free) - 1) :
                /\ j < i => vmm_free'[j] = vmm_free[j]
                /\ j > i => vmm_free'[j] = vmm_free[j+1]
          /\ vmm_free'[i].virt = vmm_free[i].virt
          /\ vmm_free'[i].size = Add(vmm_free[i].size, vmm_free[i+1].size)
      BY <2>1, <2>2, <3>1, <3>2, CompactEffect
    <3> QED
      BY <1>5, <3>1, <3>3, SpaceMerge
  <2>3. CASE UNCHANGED vmm_free
    BY <1>3, <2>1, <2>3
  <2> QED
    BY <1>5, <2>2, <2>3 DEF CompactStep
<1>6. CASE UNCHANGED vars
  BY <1>3, <1>6 DEF vars
<1> QED
  BY <1>1, <1>2, <1>4, <1>5, <1>6 DEF Next, Lost

(* Every address of an entry that the scan found unmapped (vmm.c:34-73) is *)
(* in a block, free or used, and no other address is.                      *)
THEOREM SpaceConservedAlways == ASSUME SaneSizes PROVE Spec => []SpaceConserved
<1>1. Init => SpaceConserved
  <2> SUFFICES ASSUME Init PROVE SpaceConserved
    OBVIOUS
  <2>1. Len(vmm_free) = 0 /\ Len(vmm_used) = 0 /\ visit - 1 = 0
    BY DEF Init
  <2> QED
    BY <2>1 DEF SpaceConserved, Unmapped, InFree, InUsed
<1>2. (NodesInv /\ HeapInv) /\ SpaceConserved /\ [Next]_vars => SpaceConserved'
  BY SpaceNext
<1> QED
  BY <1>1, <1>2, HeapAlways, PTL DEF Spec

(***************************************************************************)
(* The refinement.  An address is not in use exactly when a free block     *)
(* holds it, and since no two free blocks touch, a run of such addresses   *)
(* lies in one of them.                                                    *)
(***************************************************************************)
LEMMA TakenIsUsed ==
    ASSUME NodesInv, HeapInv, NEW x \in Nat
    PROVE  x \in H!Taken <=> InUsed(x)
<1>1. \A i \in 1..Len(vmm_used) :
        /\ vmm_used[i].virt \in Nat /\ vmm_used[i].size \in Nat
        /\ End(vmm_used[i]) = vmm_used[i].virt + vmm_used[i].size
  BY Facts
<1>2. x \in H!Taken <=> \E b \in Live : x \in b.virt .. (b.virt + b.size - 1)
  BY DEF H!Taken
<1>3. ASSUME NEW i \in 1..Len(vmm_used)
      PROVE  Holds(vmm_used[i], x) <=>
                x \in vmm_used[i].virt .. (vmm_used[i].virt + vmm_used[i].size - 1)
  <2> DEFINE a == vmm_used[i].virt
             p == vmm_used[i].size
  <2>1. a \in Nat /\ p \in Nat /\ End(vmm_used[i]) = a + p
    BY <1>1
  <2>2. Holds(vmm_used[i], x) <=> a <= x /\ x < a + p
    BY <2>1 DEF Holds
  <2> HIDE DEF a, p
  <2>3. (a <= x /\ x < a + p) <=> x \in a .. (a + p - 1)
    BY <2>1
  <2> QED
    BY <2>2, <2>3 DEF a, p
<1>4. ASSUME InUsed(x) PROVE \E b \in Live : x \in b.virt .. (b.virt + b.size - 1)
  <2>1. PICK i \in 1..Len(vmm_used) : Holds(vmm_used[i], x)
    BY <1>4 DEF InUsed
  <2> DEFINE b == [virt |-> vmm_used[i].virt, size |-> vmm_used[i].size]
  <2>2. b \in Live
    BY DEF Live
  <2>3. x \in b.virt .. (b.virt + b.size - 1)
    BY <1>3, <2>1
  <2> HIDE DEF b
  <2> QED
    BY <2>2, <2>3
<1>5. ASSUME NEW b \in Live, x \in b.virt .. (b.virt + b.size - 1)
      PROVE  InUsed(x)
  <2>1. PICK i \in 1..Len(vmm_used) :
            b = [virt |-> vmm_used[i].virt, size |-> vmm_used[i].size]
    BY DEF Live
  <2>2. b.virt = vmm_used[i].virt /\ b.size = vmm_used[i].size
    BY <2>1
  <2>3. Holds(vmm_used[i], x)
    BY <1>3, <1>5, <2>2
  <2> QED
    BY <2>3 DEF InUsed
<1> QED
  BY <1>2, <1>4, <1>5

LEMMA NotTakenIsFree ==
    ASSUME NodesInv, HeapInv, SpaceConserved, ~Scanning, NEW x \in Nat
    PROVE  x \in Space \ H!Taken <=> InFree(x)
<1>1. visit - 1 = Len(Visits)
  BY Facts, VisitFacts DEF Scanning
<1>2. x \in 0..(M-1) => (Unmapped(x, Len(Visits)) <=> InFree(x) \/ InUsed(x))
  BY <1>1 DEF SpaceConserved
<1>3. x \in Space <=> x \in 0..(M-1) /\ Unmapped(x, Len(Visits))
  BY DEF Space
<1>4. ASSUME InFree(x) PROVE x \in 0..(M-1) /\ ~InUsed(x)
  <2>1. PICK i \in 1..Len(vmm_free) : Holds(vmm_free[i], x)
    BY <1>4 DEF InFree
  <2>2. /\ vmm_free[i].virt \in Nat /\ vmm_free[i].size \in Nat
        /\ End(vmm_free[i]) < M /\ M \in Nat
        /\ End(vmm_free[i]) = vmm_free[i].virt + vmm_free[i].size
    BY Facts
  <2>3. x \in 0..(M-1)
    BY <2>1, <2>2 DEF Holds
  <2>4. ASSUME NEW j \in 1..Len(vmm_used), Holds(vmm_used[j], x) PROVE FALSE
    <3>1. Apart(vmm_used[j], vmm_free[i])
      BY Facts DEF UsedFreeApart
    <3>2. End(vmm_free[i]) \in Nat
      BY <2>2
    <3>3. vmm_used[j].virt \in Nat /\ End(vmm_used[j]) \in Nat
      <4>1. /\ vmm_used[j].virt \in Nat /\ vmm_used[j].size \in Nat
            /\ End(vmm_used[j]) = vmm_used[j].virt + vmm_used[j].size
        BY Facts
      <4> QED
        BY ONLY <4>1
    <3> QED
      BY <2>1, <2>2, <2>4, <3>1, <3>2, <3>3 DEF Apart, Holds
  <2> QED
    BY <2>3, <2>4 DEF InUsed
<1> QED
  BY <1>2, <1>3, <1>4, TakenIsUsed

LEMMA PlacesInBlocks ==
    ASSUME NodesInv, HeapInv, FreeCoalesced, SpaceConserved, Idle,
           NEW size \in Nat, NEW a
    PROVE  a \in H!Places(size) <=>
              a \in Nat /\ \E i \in 1..Len(vmm_free) :
                  vmm_free[i].virt <= a /\ a + size < End(vmm_free[i])
<1>1. ~Scanning /\ ~compacting
  BY DEF Idle
<1>2. \A i \in 1..Len(vmm_free) :
        /\ vmm_free[i].virt \in Nat /\ End(vmm_free[i]) \in Nat
        /\ vmm_free[i].virt < End(vmm_free[i])
  BY Facts
<1>3. \A i, j \in 1..Len(vmm_free) : i < j => End(vmm_free[i]) < vmm_free[j].virt
  BY <1>1 DEF FreeCoalesced
<1>4. a \in H!Places(size) <=>
          a \in Space /\ \A y \in a..(a + size) : y \in Space \ H!Taken
  BY DEF H!Places
<1>5. ASSUME a \in H!Places(size)
      PROVE  a \in Nat /\ \E i \in 1..Len(vmm_free) :
                 vmm_free[i].virt <= a /\ a + size < End(vmm_free[i])
  <2>1. a \in Nat
    BY <1>4, <1>5, MAssumption DEF Space
  <2>2. \A y \in a..(a + size) : InFree(y)
    <3> TAKE y \in a..(a + size)
    <3>1. y \in Nat
      BY <2>1
    <3>2. y \in Space \ H!Taken
      BY <1>4, <1>5
    <3> QED
      BY <1>1, <3>1, <3>2, NotTakenIsFree
  <2>3. a \in a..(a + size)
    BY <2>1
  <2>4. PICK i \in 1..Len(vmm_free) : Holds(vmm_free[i], a)
    BY <2>2, <2>3 DEF InFree
  <2> DEFINE e == End(vmm_free[i])
  <2>5. /\ e \in Nat /\ vmm_free[i].virt \in Nat
        /\ vmm_free[i].virt <= a /\ a < e
    BY <1>2, <2>4 DEF Holds
  <2>6. ASSUME ~(a + size < e) PROVE FALSE
    <3>1. e \in a..(a + size)
      BY <2>1, <2>5, <2>6
    <3>2. PICK k \in 1..Len(vmm_free) : Holds(vmm_free[k], e)
      BY <2>2, <3>1 DEF InFree
    <3>3. vmm_free[k].virt <= e /\ e < End(vmm_free[k])
      BY <3>2 DEF Holds
    <3>4. vmm_free[k].virt \in Nat /\ End(vmm_free[k]) \in Nat
      BY <1>2
    <3>5. CASE k = i
      BY <2>5, <3>3, <3>5
    <3>6. CASE i < k
      <4>1. e < vmm_free[k].virt
        BY <1>3, <3>6
      <4> QED
        BY <2>5, <3>3, <3>4, <4>1
    <3>7. CASE k < i
      <4>1. End(vmm_free[k]) < vmm_free[i].virt
        BY <1>3, <3>7
      <4> HIDE DEF e
      <4> QED
        BY ONLY <2>1, <2>5, <3>3, <3>4, <4>1
    <3> QED
      BY <3>5, <3>6, <3>7
  <2> QED
    BY <2>1, <2>5, <2>6
<1>6. ASSUME a \in Nat, NEW i \in 1..Len(vmm_free),
             vmm_free[i].virt <= a, a + size < End(vmm_free[i])
      PROVE  a \in H!Places(size)
  <2>1. \A y \in a..(a + size) : y \in Space \ H!Taken
    <3> TAKE y \in a..(a + size)
    <3>1. y \in Nat /\ Holds(vmm_free[i], y)
      BY <1>2, <1>6 DEF Holds
    <3>2. InFree(y)
      BY <3>1 DEF InFree
    <3> QED
      BY <1>1, <3>1, <3>2, NotTakenIsFree
  <2>2. a \in a..(a + size)
    BY <1>6
  <2> QED
    BY <1>4, <2>1, <2>2
<1> QED
  BY <1>5, <1>6

LEMMA MallocImplemented ==
    ASSUME SaneSizes, NEW size \in Sizes, NodesInv, HeapInv, FreeCoalesced,
           SpaceConserved, Malloc(size)
    PROVE  H!Next
<1>1. Idle /\ wild = "none"
  BY DEF Malloc, malloc_above, Idle
<1>2. size \in Nat
  BY SizesAssumption, MAssumption
<1>3. CASE wild' = wild
  <2> DEFINE L == Len(vmm_free)
             U == Len(vmm_used)
  <2>1. PICK i \in 1..L :
          /\ vmm_free[i].size > size
          /\ \A j \in 1..L : vmm_free[j].size > size => i <= j
          /\ Len(vmm_used') = U + 1
          /\ \A j \in 1..U : vmm_used'[j] = vmm_used[j]
          /\ vmm_used'[U + 1].virt = vmm_free[i].virt
          /\ vmm_used'[U + 1].size = size
    BY <1>3, MallocTakes
  <2> DEFINE a == vmm_free[i].virt
  <2>2. /\ L \in Nat /\ U \in Nat
        /\ \A j \in 1..L : /\ vmm_free[j].virt \in Nat /\ vmm_free[j].size \in Nat
                           /\ End(vmm_free[j]) = vmm_free[j].virt + vmm_free[j].size
        /\ \A j, k \in 1..L : j < k => End(vmm_free[j]) <= vmm_free[k].virt
    BY Facts DEF FreeApart
  <2>3. a \in H!Places(size)
    <3>1. a \in Nat /\ vmm_free[i].virt <= a /\ a + size < End(vmm_free[i])
      BY <1>2, <2>1, <2>2
    <3> QED
      BY <1>1, <1>2, <3>1, PlacesInBlocks
  <2>4. ASSUME NEW b \in H!Places(size) PROVE a <= b
    <3>1. PICK j \in 1..L : vmm_free[j].virt <= b /\ b + size < End(vmm_free[j])
      BY <1>1, <1>2, PlacesInBlocks
    <3>2. b \in Nat
      BY <1>1, <1>2, PlacesInBlocks
    <3>3. vmm_free[j].virt \in Nat /\ vmm_free[j].size \in Nat /\ a \in Nat
      BY <2>2
    <3>4. i <= j
      BY <1>2, <2>1, <2>2, <3>1, <3>2, <3>3
    <3>5. CASE i = j
      BY <3>1, <3>5
    <3>6. CASE i < j
      <4>1. End(vmm_free[i]) <= vmm_free[j].virt
        BY <2>2, <3>6
      <4>2. vmm_free[i].size \in Nat /\ End(vmm_free[i]) = a + vmm_free[i].size
        BY <2>2
      <4> QED
        BY <3>1, <3>2, <3>3, <4>1, <4>2
    <3> QED
      BY <3>4, <3>5, <3>6
  <2>5. Live' = Live \cup {[virt |-> a, size |-> size]}
    <3>1. Live' = {[virt |-> vmm_used'[j].virt, size |-> vmm_used'[j].size] :
                      j \in 1..(U + 1)}
      BY <2>1 DEF Live
    <3>2. Live = {[virt |-> vmm_used[j].virt, size |-> vmm_used[j].size] : j \in 1..U}
      BY DEF Live
    <3>3. \A j \in 1..(U + 1) : j \in 1..U \/ j = U + 1
      BY <2>2
    <3>4. U + 1 \in 1..(U + 1) /\ \A j \in 1..U : j \in 1..(U + 1)
      BY <2>2
    <3> HIDE DEF U, L, a
    <3>5. Live' \subseteq Live \cup {[virt |-> a, size |-> size]}
      BY <2>1, <3>1, <3>2, <3>3 DEF a
    <3>6. Live \subseteq Live'
      BY <2>1, <3>1, <3>2, <3>4
    <3>7. [virt |-> a, size |-> size] \in Live'
      BY <2>1, <3>1, <3>4 DEF a
    <3> QED
      BY <3>5, <3>6, <3>7
  <2> HIDE DEF L, U, a
  <2>6. H!Malloc(size)
    BY <1>1, <1>3, <2>3, <2>4, <2>5 DEF H!Malloc
  <2> QED
    BY <2>6 DEF H!Next
<1>4. CASE /\ search_free(Add(size, 1), 0) = {}
           /\ wild' = "oom" /\ UNCHANGED lists
  <2>1. \A i \in 1..Len(vmm_free) : ~(vmm_free[i].size > size)
    BY <1>4, MallocFails
  <2>2. ASSUME NEW a \in H!Places(size) PROVE FALSE
    <3>1. PICK j \in 1..Len(vmm_free) :
              vmm_free[j].virt <= a /\ a + size < End(vmm_free[j])
      BY <1>1, <1>2, PlacesInBlocks
    <3>2. a \in Nat
      BY <1>1, <1>2, PlacesInBlocks
    <3>3. /\ vmm_free[j].virt \in Nat /\ vmm_free[j].size \in Nat
          /\ End(vmm_free[j]) = vmm_free[j].virt + vmm_free[j].size
      BY Facts
    <3> QED
      BY <1>2, <2>1, <3>1, <3>2, <3>3
  <2>3. Live' = Live
    BY <1>4 DEF Live, lists
  <2>4. H!Malloc(size)
    BY <1>1, <1>4, <2>2, <2>3 DEF H!Malloc
  <2> QED
    BY <2>4 DEF H!Next
<1> QED
  BY <1>3, <1>4 DEF Malloc, malloc_above

LEMMA FreeImplemented ==
    ASSUME SaneSizes, NEW addr \in 0..(M-1), NodesInv, HeapInv, Free(addr)
    PROVE  H!Next \/ UNCHANGED H!vars
<1>1. wild = "none"
  BY DEF Free, Idle
<1>2. wild' # "neighbor"
  BY HeapFree DEF HeapInv, FreeFindsNeighbor
<1>3. ASSUME NEW u \in search_used(addr),
             NEW n \in search_free_neighbor(vmm_used[u]),
             vmm_free' = InsertAt(vmm_free, n, vmm_used[u]),
             vmm_used' = RemoveAt(vmm_used, u),
             UNCHANGED <<vmm_unused_nodes, wild>>
      PROVE  H!Next
  <2> DEFINE U == Len(vmm_used)
             rec(j) == [virt |-> vmm_used[j].virt, size |-> vmm_used[j].size]
  <2>1. u \in 1..U /\ n \in 1..Len(vmm_free) /\ U \in Nat
    BY Facts, ListFacts DEF search_used, search_free_neighbor, First
  <2>2. /\ Len(vmm_used') = U - 1
        /\ \A j \in 1..(U - 1) : vmm_used'[j] =
              IF j < u THEN vmm_used[j] ELSE vmm_used[j+1]
    BY <1>3, <2>1, FreeEffect DEF NodesInv
  <2>3. ASSUME NEW j \in 1..U, j # u PROVE rec(j) # rec(u)
    <3>1. Apart(vmm_used[j], vmm_used[u])
      BY <2>1, <2>3, Facts DEF UsedApart
    <3>2. /\ vmm_used[j].virt \in Nat /\ vmm_used[u].virt \in Nat
          /\ vmm_used[j].size \in Nat /\ vmm_used[u].size \in Nat
          /\ vmm_used[j].size >= 1 /\ vmm_used[u].size >= 1
      BY <2>1, Facts
    <3>3. vmm_used[j].virt # vmm_used[u].virt
      BY <3>1, <3>2 DEF Apart, End
    <3> QED
      BY <3>3
  <2>4. Live = {rec(j) : j \in 1..U}
    BY DEF Live
  <2>5. Live' = {[virt |-> vmm_used'[j].virt, size |-> vmm_used'[j].size] :
                    j \in 1..(U - 1)}
    BY <2>2 DEF Live
  <2> HIDE DEF U
  <2>6. ASSUME NEW j \in 1..(U - 1)
        PROVE  \E k \in 1..U : k # u /\ vmm_used'[j] = vmm_used[k]
    <3>1. CASE j < u
      BY <2>1, <2>2, <3>1
    <3>2. CASE ~(j < u)
      <4>1. j + 1 \in 1..U /\ j + 1 # u /\ vmm_used'[j] = vmm_used[j+1]
        BY <2>1, <2>2, <3>2
      <4> QED
        BY <4>1
    <3> QED
      BY <3>1, <3>2
  <2>7. ASSUME NEW k \in 1..U, k # u
        PROVE  \E j \in 1..(U - 1) : vmm_used'[j] = vmm_used[k]
    <3>1. CASE k < u
      <4>1. k \in 1..(U - 1) /\ vmm_used'[k] = vmm_used[k]
        BY <2>1, <2>2, <3>1
      <4> QED
        BY <4>1
    <3>2. CASE k > u
      <4>1. k - 1 \in 1..(U - 1) /\ vmm_used'[k-1] = vmm_used[k]
        BY <2>1, <2>2, <3>2
      <4> QED
        BY <4>1
    <3> QED
      BY <2>1, <2>7, <3>1, <3>2
  <2>8. Live' \subseteq Live \ {rec(u)}
    <3> SUFFICES ASSUME NEW b \in Live' PROVE b \in Live \ {rec(u)}
      OBVIOUS
    <3>1. PICK j \in 1..(U - 1) :
              b = [virt |-> vmm_used'[j].virt, size |-> vmm_used'[j].size]
      BY <2>5
    <3>2. PICK k \in 1..U : k # u /\ vmm_used'[j] = vmm_used[k]
      BY <2>6
    <3>3. b = rec(k)
      BY <3>1, <3>2
    <3>4. rec(k) # rec(u) /\ rec(k) \in Live
      BY <2>3, <2>4, <3>2
    <3> HIDE DEF rec
    <3> QED
      BY <3>3, <3>4
  <2>9. Live \ {rec(u)} \subseteq Live'
    <3> SUFFICES ASSUME NEW k \in 1..U, rec(k) # rec(u) PROVE rec(k) \in Live'
      BY <2>4
    <3>1. k # u
      OBVIOUS
    <3>2. PICK j \in 1..(U - 1) : vmm_used'[j] = vmm_used[k]
      BY <2>7, <3>1
    <3>3. rec(k) = [virt |-> vmm_used'[j].virt, size |-> vmm_used'[j].size]
      BY <3>2
    <3> HIDE DEF rec
    <3> QED
      BY <2>5, <3>3
  <2>10. rec(u) \in Live
    BY <2>1, <2>4
  <2> HIDE DEF rec
  <2>11. Live' = Live \ {rec(u)}
    BY <2>8, <2>9
  <2>12. H!Free(rec(u))
    BY <1>1, <1>3, <2>11 DEF H!Free
  <2> QED
    BY <2>10, <2>12 DEF H!Next
<1>4. ASSUME UNCHANGED lists, wild' = "none"
      PROVE  UNCHANGED H!vars
  BY <1>1, <1>4 DEF H!vars, Live, lists
<1>5. ASSUME UNCHANGED lists, wild' = "walk", vmm_used = <<>>
      PROVE  H!Next
  <2>1. Len(vmm_used) = 0
    BY <1>5
  <2>2. Live = {} /\ Live' = Live
    BY <1>5, <2>1 DEF Live, lists
  <2>3. H!FreeUnknown
    BY <1>1, <1>5, <2>2 DEF H!FreeUnknown
  <2> QED
    BY <2>3 DEF H!Next
<1> QED
  BY <1>2, <1>3, <1>4, <1>5 DEF Free, FreeUsed, FreeUnknown

LEMMA StepImplemented ==
    ASSUME SaneSizes, NodesInv, HeapInv, FreeCoalesced, SpaceConserved, [Next]_vars
    PROVE  [H!Next]_H!vars
<1>1. ASSUME UNCHANGED <<vmm_used, wild>> PROVE UNCHANGED H!vars
  BY <1>1 DEF H!vars, Live
<1>2. CASE ScanVisit
  BY <1>1, <1>2 DEF ScanVisit, lists
<1>3. ASSUME NEW size \in Sizes, Malloc(size) PROVE H!Next
  BY <1>3, MallocImplemented
<1>4. ASSUME NEW addr \in 0..(M-1), Free(addr) PROVE H!Next \/ UNCHANGED H!vars
  BY <1>4, FreeImplemented
<1>5. CASE CompactStep
  BY <1>1, <1>5 DEF CompactStep
<1>6. CASE UNCHANGED vars
  BY <1>1, <1>6 DEF vars
<1> QED
  BY <1>2, <1>3, <1>4, <1>5, <1>6 DEF Next, Lost

(* malloc (vmm.c:101) and free (vmm.c:140) are an exact first fit over the *)
(* addresses not in use, for every page table the scan can meet and every  *)
(* sequence of calls: malloc takes the lowest place with a byte to spare   *)
(* and fails only when there is none; free gives back just its block.      *)
THEOREM HeapImplemented == ASSUME SaneSizes PROVE Spec => ImplementsHeap
<1>1. Init => H!Init
  <2> SUFFICES ASSUME Init PROVE H!Init
    OBVIOUS
  <2>1. Len(vmm_used) = 0 /\ wild = "none"
    BY DEF Init
  <2>2. Live = {}
    BY <2>1 DEF Live
  <2> QED
    BY <2>1, <2>2 DEF H!Init
<1>2. (NodesInv /\ HeapInv) /\ FreeCoalesced /\ SpaceConserved /\ [Next]_vars
        => [H!Next]_H!vars
  BY StepImplemented
<1> QED
  BY <1>1, <1>2, HeapAlways, FreeCoalescedAlways, SpaceConservedAlways, PTL
     DEF Spec, ImplementsHeap, H!Spec

-----------------------------------------------------------------------------
(* Sizes.  P[k] is the sum of the first k sizes of a list.                 *)
Sized(list) ==
    /\ Len(list) \in Nat /\ DOMAIN list = 1..Len(list)
    /\ \A i \in 1..Len(list) : list[i].size \in Nat

Sums(P, list) ==
    /\ P \in [0..Len(list) -> Nat] /\ P[0] = 0
    /\ \A k \in 1..Len(list) : P[k] = P[k-1] + list[k].size

LEMMA SumsExist ==
    ASSUME NEW list, Sized(list)
    PROVE  \E P : Sums(P, list) /\ TotalSize(list) = P[Len(list)]
<1> DEFINE n == Len(list)
           S == 1..n
           Eq(g) == g = [s \in SUBSET S |->
               IF s = {} THEN 0 ELSE g[s \ {Max(s)}] + list[Max(s)].size]
           f == CHOOSE g : Eq(g)
           step == [i \in 1..n |-> [x \in Nat |-> x + list[i].size]]
<1>1. n \in Nat /\ DOMAIN list = S /\ \A i \in S : list[i].size \in Nat
  BY DEF Sized
<1>2. TotalSize(list) = f[S]
  <2>1. TotalSize(list) = (CHOOSE g : g = [s \in SUBSET DOMAIN list |->
            IF s = {} THEN 0 ELSE g[s \ {Max(s)}] + list[Max(s)].size])[DOMAIN list]
    BY DEF TotalSize, FoldLeft, MapThenFoldSet
  <2> QED BY <1>1, <2>1
<1>3. \E g : Eq(g)
  <2>1. step \in [1..n -> [Nat -> Nat]]  BY <1>1
  <2>2. \A i \in 1..n, x \in Nat : step[i][x] = x + list[i].size  OBVIOUS
  <2> HIDE DEF step
  <2>3. PICK g : Folds(g, n, Nat, 0, step)  BY <1>1, <2>1, FoldExists
  <2>4. ASSUME NEW s \in SUBSET S
        PROVE  g[s] = IF s = {} THEN 0 ELSE g[s \ {Max(s)}] + list[Max(s)].size
    <3>1. CASE s = {}  BY <2>3, <3>1 DEF Folds
    <3>2. CASE s # {}
      <4>1. Max(s) \in 1..n  BY <1>1, <3>2, MaxIn
      <4>2. g[s \ {Max(s)}] \in Nat  BY <2>3 DEF Folds
      <4>3. g[s] = step[Max(s)][g[s \ {Max(s)}]]  BY <2>3, <3>2 DEF Folds
      <4> QED BY <2>2, <3>2, <4>1, <4>2, <4>3
    <3> QED BY <3>1, <3>2
  <2>5. g \in [SUBSET S -> Nat]  BY <2>3 DEF Folds
  <2> HIDE DEF S
  <2>6. Eq(g)  BY <2>4, <2>5
  <2> QED BY <2>6
<1>4. Eq(f)
  <2> HIDE DEF Eq
  <2> QED BY <1>3
<1>5. f[{}] = 0 /\ \A k \in 1..n : f[1..k] = f[1..(k-1)] + list[k].size
  <2>1. \A s \in SUBSET S :
           f[s] = IF s = {} THEN 0 ELSE f[s \ {Max(s)}] + list[Max(s)].size
    BY <1>4
  <2> HIDE DEF f
  <2>2. f[{}] = 0  BY <2>1
  <2>3. ASSUME NEW k \in 1..n PROVE f[1..k] = f[1..(k-1)] + list[k].size
    <3>1. /\ 1..k \in SUBSET (1..n) /\ 1..k # {}
          /\ Max(1..k) = k /\ (1..k) \ {k} = 1..(k-1)
      BY <1>1, FoldSteps
    <3> DEFINE t == 1..k
    <3>2. t \in SUBSET S /\ t # {} /\ Max(t) = k /\ t \ {k} = 1..(k-1)  BY <3>1
    <3> HIDE DEF t, S
    <3>3. f[t] = f[t \ {Max(t)}] + list[Max(t)].size  BY <2>1, <3>2
    <3>4. f[t] = f[1..(k-1)] + list[k].size  BY <3>2, <3>3
    <3> QED BY <3>4 DEF t
  <2> QED BY <2>2, <2>3
<1> HIDE DEF f
<1> DEFINE N == {k \in 0..n : f[1..k] \in Nat}
<1>6. \A k \in 0..n : k \in N
  <2>1. 0 \in N
    <3>1. 1..0 = {}  OBVIOUS
    <3> QED BY <1>1, <1>5, <3>1
  <2>2. ASSUME NEW k \in 1..n, k - 1 \in N PROVE k \in N
    <3>1. f[1..(k-1)] \in Nat /\ list[k].size \in Nat  BY <1>1, <2>2
    <3>2. f[1..k] = f[1..(k-1)] + list[k].size  BY <1>5
    <3>3. f[1..k] \in Nat  BY <3>1, <3>2
    <3> QED BY <3>3
  <2> HIDE DEF N
  <2> QED BY <1>1, <2>1, <2>2, Climbs
<1> DEFINE P == [k \in 0..n |-> f[1..k]]
<1>7. P \in [0..n -> Nat]  BY <1>6
<1>8. P[0] = 0
  <2>1. 1..0 = {}  OBVIOUS
  <2> QED BY <1>1, <1>5, <2>1
<1>9. \A k \in 1..n : P[k] = P[k-1] + list[k].size  BY <1>1, <1>5
<1>10. P[n] = f[S]  BY <1>1
<1> HIDE DEF P
<1>11. Sums(P, list)  BY <1>7, <1>8, <1>9 DEF Sums
<1> QED BY <1>2, <1>10, <1>11

(* Two lists grow alike where their sizes agree, one d behind the other.   *)
Alike(a, b, lo, m, d) == \A k \in (lo+1)..(lo+m) : b[k+d].size = a[k].size
GrowAlike(P, Q, lo, m, d) == Q[lo+m+d] - Q[lo+d] = P[lo+m] - P[lo]

LEMMA SumsShift ==
    ASSUME NEW P, NEW Q, NEW a, NEW b, Sized(a), Sized(b), Sums(P, a), Sums(Q, b),
           NEW lo \in 0..Len(a), NEW m \in Nat, lo + m <= Len(a),
           NEW d \in Int, lo + d >= 0, lo + m + d <= Len(b),
           Alike(a, b, lo, m, d)
    PROVE  GrowAlike(P, Q, lo, m, d)
<1> DEFINE S == {j \in 0..m : Q[lo+j+d] - Q[lo+d] = P[lo+j] - P[lo]}
<1>1. Len(a) \in Nat /\ Len(b) \in Nat  BY DEF Sized
<1>2. /\ \A k \in 0..Len(a) : P[k] \in Nat
      /\ \A k \in 0..Len(b) : Q[k] \in Nat
  BY DEF Sums
<1>3. 0 \in S
  <2>1. lo + 0 = lo /\ lo + 0 + d = lo + d /\ lo + d \in 0..Len(b)  BY <1>1
  <2> QED BY <1>2, <2>1
<1>4. ASSUME NEW j \in 1..m, j - 1 \in S PROVE j \in S
  <2> DEFINE x == lo + j
  <2>1. x \in 1..Len(a) /\ x + d \in 1..Len(b) /\ x \in (lo+1)..(lo+m)
        /\ lo \in 0..Len(a) /\ lo + d \in 0..Len(b)
        /\ lo + (j-1) = x - 1 /\ lo + (j-1) + d = x + d - 1
        /\ x - 1 \in 0..Len(a) /\ x + d - 1 \in 0..Len(b)
    BY <1>1
  <2>2. Q[x+d-1] - Q[lo+d] = P[x-1] - P[lo]  BY <1>4, <2>1
  <2> HIDE DEF x
  <2>3. P[x] = P[x-1] + a[x].size /\ Q[x+d] = Q[x+d-1] + b[x+d].size
    BY <2>1 DEF Sums
  <2>4. b[x+d].size = a[x].size /\ a[x].size \in Nat  BY <2>1 DEF Sized, Alike
  <2>5. /\ P[x] \in Nat /\ P[x-1] \in Nat /\ P[lo] \in Nat
        /\ Q[x+d] \in Nat /\ Q[x+d-1] \in Nat /\ Q[lo+d] \in Nat
    <3>1. x \in 0..Len(a) /\ x + d \in 0..Len(b)  BY <1>1, <2>1
    <3>2. P[x] \in Nat /\ P[x-1] \in Nat /\ P[lo] \in Nat
      BY ONLY <1>2, <2>1, <3>1
    <3>3. Q[x+d] \in Nat /\ Q[x+d-1] \in Nat /\ Q[lo+d] \in Nat
      BY ONLY <1>2, <2>1, <3>1
    <3> QED BY <3>2, <3>3
  <2>6. Q[x+d] - Q[lo+d] = P[x] - P[lo]
    <3> DEFINE p1 == P[x]
               p0 == P[x-1]
               q1 == Q[x+d]
               q0 == Q[x+d-1]
               ph == P[lo]
               qh == Q[lo+d]
               y == a[x].size
    <3>1. /\ q0 - qh = p0 - ph /\ p1 = p0 + y /\ q1 = q0 + y
          /\ p1 \in Nat /\ p0 \in Nat /\ ph \in Nat /\ y \in Nat
          /\ q1 \in Nat /\ q0 \in Nat /\ qh \in Nat
      BY <2>2, <2>3, <2>4, <2>5
    <3> HIDE DEF p1, p0, q1, q0, ph, qh, y
    <3>2. q1 - qh = p1 - ph  BY ONLY <3>1
    <3> QED BY <3>2 DEF p1, q1, ph, qh
  <2> QED BY <2>6 DEF x
<1> HIDE DEF S
<1>5. \A j \in 0..m : j \in S  BY <1>3, <1>4, Climbs
<1>6. m \in S  BY <1>5
<1> QED BY <1>6 DEF S, GrowAlike

LEMMA TotalGap ==
    ASSUME NEW a, NEW b, Sized(a), Sized(b), Len(b) = Len(a) + 1,
           NEW p \in 1..Len(b),
           \A j \in 1..Len(a) : j < p => b[j].size = a[j].size,
           \A j \in 1..Len(a) : j >= p => b[j+1].size = a[j].size
    PROVE  TotalSize(b) = TotalSize(a) + b[p].size /\ TotalSize(a) \in Nat
<1> DEFINE n == Len(a)
<1>1. PICK P : Sums(P, a) /\ TotalSize(a) = P[n]  BY SumsExist
<1>2. PICK Q : Sums(Q, b) /\ TotalSize(b) = Q[n+1]  BY SumsExist
<1>3. n \in Nat /\ p \in 1..(n+1)  BY DEF Sized
<1>4. Q[p-1] - Q[0] = P[p-1] - P[0]
  <2> DEFINE m == p - 1
  <2>1. 0 \in 0..Len(a) /\ m \in Nat /\ 0 + m <= Len(a) /\ 0 \in Int
        /\ 0 + 0 >= 0 /\ 0 + m + 0 <= Len(b)
        /\ Alike(a, b, 0, m, 0)
    BY <1>3 DEF Alike
  <2>2. 0 + m = m /\ 0 + m + 0 = m /\ 0 + 0 = 0  BY <2>1
  <2> HIDE DEF m
  <2>3. GrowAlike(P, Q, 0, m, 0)
    BY ONLY <1>1, <1>2, <2>1, Sized(a), Sized(b), SumsShift
  <2>4. Q[m] - Q[0] = P[m] - P[0]  BY <2>2, <2>3 DEF GrowAlike
  <2> QED BY <2>4 DEF m
<1>5. Q[n+1] - Q[p] = P[n] - P[p-1]
  <2> DEFINE lo == p - 1
             m == n - lo
  <2>1. lo \in 0..Len(a) /\ m \in Nat /\ lo + m <= Len(a) /\ 1 \in Int
        /\ lo + 1 >= 0 /\ lo + m + 1 <= Len(b)
        /\ Alike(a, b, lo, m, 1)
    BY <1>3 DEF Alike
  <2>2. lo + m = n /\ lo + m + 1 = n + 1 /\ lo + 1 = p  BY <1>3
  <2> HIDE DEF lo, m
  <2>3. GrowAlike(P, Q, lo, m, 1)
    BY ONLY <1>1, <1>2, <2>1, Sized(a), Sized(b), SumsShift
  <2>4. Q[n+1] - Q[p] = P[n] - P[lo]  BY <2>2, <2>3 DEF GrowAlike
  <2> QED BY <2>4 DEF lo
<1>6. /\ P[0] = 0 /\ Q[0] = 0 /\ Q[p] = Q[p-1] + b[p].size
      /\ P[p-1] \in Nat /\ P[n] \in Nat
      /\ Q[p-1] \in Nat /\ Q[p] \in Nat /\ Q[n+1] \in Nat /\ b[p].size \in Nat
  <2>1. /\ p - 1 \in 0..Len(a) /\ n \in 0..Len(a)
        /\ p - 1 \in 0..Len(b) /\ p \in 0..Len(b) /\ n + 1 \in 0..Len(b)
        /\ p \in 1..Len(b)
    BY <1>3 DEF Sized
  <2>2. P[0] = 0 /\ \A i \in 0..Len(a) : P[i] \in Nat  BY <1>1 DEF Sums
  <2>3. /\ Q[0] = 0 /\ \A i \in 0..Len(b) : Q[i] \in Nat
        /\ \A i \in 1..Len(b) : Q[i] = Q[i-1] + b[i].size
    BY <1>2 DEF Sums
  <2>4. \A i \in 1..Len(b) : b[i].size \in Nat  BY DEF Sized
  <2> QED BY ONLY <2>1, <2>2, <2>3, <2>4
<1> DEFINE ph == P[p-1]
           pn == P[n]
           qh == Q[p-1]
           qp == Q[p]
           qn == Q[n+1]
           y  == b[p].size
<1>7. /\ qh - 0 = ph - 0 /\ qn - qp = pn - ph /\ qp = qh + y
      /\ ph \in Nat /\ pn \in Nat /\ qh \in Nat /\ qp \in Nat /\ qn \in Nat
      /\ y \in Nat
  BY <1>4, <1>5, <1>6
<1>8. TotalSize(a) = pn /\ TotalSize(b) = qn  BY <1>1, <1>2
<1> HIDE DEF ph, pn, qh, qp, qn, y
<1>9. qn = pn + y /\ pn \in Nat  BY ONLY <1>7
<1> QED BY <1>8, <1>9 DEF y

LEMMA TotalSame ==
    ASSUME NEW a, NEW b, Sized(a), Sized(b), Len(b) = Len(a),
           NEW p \in 1..Len(a),
           \A j \in 1..Len(a) : j # p => b[j].size = a[j].size
    PROVE  TotalSize(b) = TotalSize(a) - a[p].size + b[p].size
           /\ TotalSize(a) \in Nat
<1> DEFINE n == Len(a)
<1>1. PICK P : Sums(P, a) /\ TotalSize(a) = P[n]  BY SumsExist
<1>2. PICK Q : Sums(Q, b) /\ TotalSize(b) = Q[n]  BY SumsExist
<1>3. n \in Nat /\ p \in 1..n  BY DEF Sized
<1>4. Q[p-1] - Q[0] = P[p-1] - P[0]
  <2> DEFINE m == p - 1
  <2>1. 0 \in 0..Len(a) /\ m \in Nat /\ 0 + m <= Len(a) /\ 0 \in Int
        /\ 0 + 0 >= 0 /\ 0 + m + 0 <= Len(b)
        /\ Alike(a, b, 0, m, 0)
    BY <1>3 DEF Alike
  <2>2. 0 + m = m /\ 0 + m + 0 = m /\ 0 + 0 = 0  BY <2>1
  <2> HIDE DEF m
  <2>3. GrowAlike(P, Q, 0, m, 0)
    BY ONLY <1>1, <1>2, <2>1, Sized(a), Sized(b), SumsShift
  <2>4. Q[m] - Q[0] = P[m] - P[0]  BY <2>2, <2>3 DEF GrowAlike
  <2> QED BY <2>4 DEF m
<1>5. Q[n] - Q[p] = P[n] - P[p]
  <2> DEFINE m == n - p
  <2>1. p \in 0..Len(a) /\ m \in Nat /\ p + m <= Len(a) /\ 0 \in Int
        /\ p + 0 >= 0 /\ p + m + 0 <= Len(b)
        /\ Alike(a, b, p, m, 0)
    BY <1>3 DEF Alike
  <2>2. p + m = n /\ p + m + 0 = n /\ p + 0 = p  BY <1>3
  <2> HIDE DEF m
  <2>3. GrowAlike(P, Q, p, m, 0)
    BY ONLY <1>1, <1>2, <2>1, Sized(a), Sized(b), SumsShift
  <2> QED BY <2>2, <2>3 DEF GrowAlike
<1>6. /\ P[0] = 0 /\ Q[0] = 0
      /\ P[p] = P[p-1] + a[p].size /\ Q[p] = Q[p-1] + b[p].size
      /\ P[p-1] \in Nat /\ P[n] \in Nat /\ P[p] \in Nat
      /\ Q[p-1] \in Nat /\ Q[p] \in Nat /\ Q[n] \in Nat
      /\ a[p].size \in Nat /\ b[p].size \in Nat
  <2>1. /\ p - 1 \in 0..Len(a) /\ p \in 0..Len(a) /\ n \in 0..Len(a)
        /\ p - 1 \in 0..Len(b) /\ p \in 0..Len(b) /\ n \in 0..Len(b)
        /\ p \in 1..Len(a) /\ p \in 1..Len(b)
    BY <1>3 DEF Sized
  <2>2. /\ P[0] = 0 /\ \A i \in 0..Len(a) : P[i] \in Nat
        /\ \A i \in 1..Len(a) : P[i] = P[i-1] + a[i].size
    BY <1>1 DEF Sums
  <2>3. /\ Q[0] = 0 /\ \A i \in 0..Len(b) : Q[i] \in Nat
        /\ \A i \in 1..Len(b) : Q[i] = Q[i-1] + b[i].size
    BY <1>2 DEF Sums
  <2>4. /\ \A i \in 1..Len(a) : a[i].size \in Nat
        /\ \A i \in 1..Len(b) : b[i].size \in Nat
    BY DEF Sized
  <2> QED BY ONLY <2>1, <2>2, <2>3, <2>4
<1> DEFINE ph == P[p-1]
           pp == P[p]
           pn == P[n]
           qh == Q[p-1]
           qp == Q[p]
           qn == Q[n]
           x  == a[p].size
           y  == b[p].size
<1>7. /\ qh - 0 = ph - 0 /\ qn - qp = pn - pp /\ pp = ph + x /\ qp = qh + y
      /\ ph \in Nat /\ pp \in Nat /\ pn \in Nat /\ qh \in Nat /\ qp \in Nat
      /\ qn \in Nat /\ x \in Nat /\ y \in Nat
  BY <1>4, <1>5, <1>6
<1>8. TotalSize(a) = pn /\ TotalSize(b) = qn  BY <1>1, <1>2
<1> HIDE DEF ph, pp, pn, qh, qp, qn, x, y
<1>9. qn = pn - x + y /\ pn \in Nat  BY ONLY <1>7
<1> QED BY <1>8, <1>9 DEF x, y

LEMMA WrapMod ==
    ASSUME NEW a \in Nat, NEW b \in Nat, NEW c \in Int, a = b + c * M
    PROVE  a % M = b % M
<1> DEFINE q == b \div M
           r == b % M
           k == q + c
<1>1. M \in Nat /\ M > 0  BY MAssumption
<1>2. q \in Nat /\ r \in 0..(M-1) /\ b = q * M + r  BY <1>1, DivMod
<1> HIDE DEF q, r
<1>3. k \in Int /\ a = k * M + r
  <2>1. k * M = q * M + c * M  BY <1>1, <1>2
  <2>2. c * M \in Int /\ q * M \in Int  BY <1>1, <1>2
  <2> HIDE DEF k
  <2>3. a = k * M + r  BY <1>1, <1>2, <2>1, <2>2
  <2>4. k \in Int  BY <1>2 DEF k
  <2> QED BY <2>3, <2>4
<1> HIDE DEF k
<1>4. k >= 0
  <2> SUFFICES ASSUME k < 0 PROVE FALSE
    BY <1>3
  <2> DEFINE e == -k - 1
  <2>1. e \in Nat /\ k = -1 - e  BY <1>3
  <2> HIDE DEF e
  <2>2. k * M = -M - e * M  BY <1>1, <2>1
  <2>3. e * M \in Nat  BY <1>1, <2>1
  <2> QED BY <1>1, <1>2, <1>3, <2>2, <2>3
<1>5. k \in Nat  BY <1>3, <1>4
<1>6. (k * M + r) % M = r  BY <1>1, <1>2, <1>5, DivUnique
<1> QED BY <1>3, <1>6 DEF r

LEMMA SizedBlocks ==
    ASSUME NEW s \in Seq(Block)
    PROVE  Sized(s) /\ \A i \in 1..Len(s) : s[i].size \in 0..(M-1)
<1>1. \A i \in 1..Len(s) : s[i] \in Block  BY ElementOfSeq
<1>2. \A i \in 1..Len(s) : s[i].size \in 0..(M-1)  BY <1>1 DEF Block
<1> QED BY <1>2, LenProperties, MAssumption DEF Sized

(* What an addition or a subtraction that wraps puts in or leaves out.     *)
LEMMA Wrapped ==
    ASSUME NEW a \in 0..(M-1), NEW b \in 0..(M-1)
    PROVE  /\ \E k \in {0, -1} : Add(a, b) = a + b + k * M
           /\ \E k \in {0, 1} : Sub(a, b) = a - b + k * M
           /\ Add(a, b) \in 0..(M-1) /\ Sub(a, b) \in 0..(M-1)
<1>1. 0 * M = 0 /\ 1 * M = M /\ (-1) * M = -M /\ M \in Nat  BY MAssumption
<1>2. \E k \in {0, -1} : Add(a, b) = a + b + k * M  BY <1>1 DEF Add
<1>3. \E k \in {0, 1} : Sub(a, b) = a - b + k * M  BY <1>1 DEF Sub
<1> QED BY <1>1, <1>2, <1>3, WrapType

LEMMA ResizeTotal ==
    ASSUME NEW s \in Seq(Block), NEW i \in 1..Len(s), NEW n \in 0..(M-1)
    PROVE  /\ [s EXCEPT ![i].size = n] \in Seq(Block)
           /\ Len([s EXCEPT ![i].size = n]) = Len(s)
           /\ TotalSize([s EXCEPT ![i].size = n]) = TotalSize(s) - s[i].size + n
           /\ TotalSize(s) \in Nat
<1> DEFINE kept == [node |-> s[i].node, virt |-> s[i].virt, size |-> n]
           r == [s EXCEPT ![i].size = n]
<1>1. /\ r \in Seq(Block)
      /\ Len(r) = Len(s)
      /\ \A j \in 1..Len(s) : r[j] = IF j = i THEN kept ELSE s[j]
      /\ NodesOf(r) = NodesOf(s)
  BY Resize
<1> HIDE DEF r
<1>2. Sized(s) /\ Sized(r)  BY <1>1, SizedBlocks
<1>3. \A j \in 1..Len(s) : j # i => r[j].size = s[j].size  BY <1>1
<1>4. r[i].size = n  BY <1>1
<1>5. TotalSize(r) = TotalSize(s) - s[i].size + r[i].size /\ TotalSize(s) \in Nat
  BY <1>1, <1>2, <1>3, TotalSame
<1> QED BY <1>1, <1>4, <1>5 DEF r

(* A split adds nothing, or one wrap when more is split off than is there. *)
LEMMA SplitTotal ==
    ASSUME NEW s \in Seq(Block), NEW i \in 1..Len(s), NEW n \in 0..(M-1),
           NEW node \in Nat
    PROVE  \E k \in {0, 1} : TotalSize(split_free(s, i, n, node)) = TotalSize(s) + k * M
<1> DEFINE kept == [node |-> s[i].node, virt |-> s[i].virt, size |-> n]
           r == [s EXCEPT ![i].size = n]
           t == split_free(s, i, n, node)
           p == i + 1
<1>1. /\ r \in Seq(Block) /\ Len(r) = Len(s)
      /\ TotalSize(r) = TotalSize(s) - s[i].size + n /\ TotalSize(s) \in Nat
  BY ResizeTotal
<1>2. /\ r \in Seq(Block)
      /\ Len(r) = Len(s)
      /\ \A j \in 1..Len(s) : r[j] = IF j = i THEN kept ELSE s[j]
      /\ NodesOf(r) = NodesOf(s)
  BY Resize
<1>3. /\ t \in Seq(Block) /\ Len(t) = Len(s) + 1
      /\ \A j \in 1..(Len(s) + 1) : t[j] =
            IF j < i THEN s[j]
            ELSE IF j = i THEN [node |-> s[i].node, virt |-> s[i].virt, size |-> n]
            ELSE IF j = i + 1 THEN [node |-> node, virt |-> Add(s[i].virt, n),
                                    size |-> Sub(s[i].size, n)]
            ELSE s[j-1]
  BY SplitFree
<1>4. Len(s) \in Nat /\ s[i].size \in 0..(M-1)  BY SizedBlocks, LenProperties
<1> HIDE DEF r, t
<1>5. TotalSize(t) = TotalSize(r) + t[p].size
  <2>1. Sized(r) /\ Sized(t) /\ Len(t) = Len(r) + 1 /\ p \in 1..Len(t)
    BY <1>1, <1>3, <1>4, SizedBlocks
  <2>2. \A j \in 1..Len(r) : j < p => t[j].size = r[j].size
    BY <1>1, <1>2, <1>3, <1>4
  <2>3. \A j \in 1..Len(r) : j >= p => t[j+1].size = r[j].size
    <3> TAKE j \in 1..Len(r)
    <3> HAVE j >= p
    <3>1. j + 1 \in 1..(Len(s) + 1) /\ j # i /\ ~(j + 1 < i) /\ j + 1 # i /\ j + 1 # i + 1
          /\ (j + 1) - 1 = j /\ j \in 1..Len(s)
      BY <1>1, <1>4
    <3> HIDE DEF p
    <3>2. t[j+1] = s[j] /\ r[j] = s[j]  BY <1>2, <1>3, <3>1
    <3> QED BY <3>2
  <2> HIDE DEF p
  <2> QED BY <2>1, <2>2, <2>3, TotalGap
<1>6. t[p].size = Sub(s[i].size, n)
  <2>1. p \in 1..(Len(s) + 1) /\ ~(p < i) /\ p # i  BY <1>4
  <2> QED BY <1>3, <2>1
<1>7. PICK k \in {0, 1} : Sub(s[i].size, n) = s[i].size - n + k * M  BY <1>4, Wrapped
<1> DEFINE x == s[i].size
           y == Sub(s[i].size, n)
           z == k * M
           f == TotalSize(s)
           g == TotalSize(r)
<1>8. y = x - n + z /\ g = f - x + n /\ TotalSize(t) = g + y
      /\ x \in Int /\ z \in Int /\ f \in Int /\ n \in Int
  BY <1>1, <1>4, <1>5, <1>6, <1>7, MAssumption
<1> HIDE DEF x, y, z, f, g
<1>9. TotalSize(t) = f + z  BY ONLY <1>8
<1> QED BY <1>9 DEF f, z, t

FoundIs ==
    /\ Sized(Found) /\ Len(Found) = visit - 1
    /\ \A i \in 1..(visit - 1) : Found[i].size
          = IF Visits[i].present THEN 0 ELSE Visits[i].size

LEMMA FoundSized == TypeOK => FoundIs
<1> SUFFICES ASSUME TypeOK PROVE FoundIs
  OBVIOUS
<1>1. visit \in 1..(Len(Visits) + 1) /\ Len(Visits) \in Nat
  BY VisitsAssumption, LenProperties DEF TypeOK
<1>2. \A i \in 1..Len(Visits) : Visits[i] \in Visit  BY VisitsAssumption, ElementOfSeq
<1> DEFINE n == visit - 1
<1>3. n \in Nat /\ DOMAIN Found = 1..n /\ n <= Len(Visits)  BY <1>1 DEF Found
<1>4. \A i \in 1..n : /\ Found[i] \in [size : Nat]
                      /\ Found[i].size = IF Visits[i].present THEN 0 ELSE Visits[i].size
  BY <1>2, <1>3, MAssumption DEF Found, Visit
<1>5. Found \in [1..n -> [size : Nat]]  BY <1>3, <1>4 DEF Found
<1> HIDE DEF n
<1>6. Found \in Seq([size : Nat])  BY <1>3, <1>5, SeqDef
<1>7. Len(Found) = n
  <2>1. Len(Found) \in Nat /\ DOMAIN Found = 1..Len(Found)  BY <1>6, LenProperties
  <2> QED BY <1>3, <2>1
<1> QED BY <1>3, <1>4, <1>7 DEF Sized, FoundIs, n

(* The sizes on the lists and the sizes found, up to a number of wraps.    *)
Wraps(x, y) == \E c \in Int : x = y + c * M
SizeInv == Wraps(TotalSize(vmm_free) + TotalSize(vmm_used), TotalSize(Found))

LEMMA TotalNat ==
    ASSUME TypeOK
    PROVE  TotalSize(vmm_free) \in Nat /\ TotalSize(vmm_used) \in Nat
           /\ TotalSize(Found) \in Nat
<1>1. \A list : Sized(list) => TotalSize(list) \in Nat
  <2> SUFFICES ASSUME NEW list, Sized(list) PROVE TotalSize(list) \in Nat
    OBVIOUS
  <2>1. PICK P : Sums(P, list) /\ TotalSize(list) = P[Len(list)]  BY SumsExist
  <2> QED BY <2>1 DEF Sums, Sized
<1> QED BY <1>1, SizedBlocks, FoundSized DEF TypeOK, FoundIs

LEMMA SizeInvMeans == ASSUME TypeOK, SizeInv PROVE SizeConserved
<1> DEFINE a == TotalSize(vmm_free) + TotalSize(vmm_used)
           b == TotalSize(Found)
<1>1. a \in Nat /\ b \in Nat  BY TotalNat
<1>2. PICK c \in Int : a = b + c * M  BY DEF SizeInv, Wraps
<1> HIDE DEF a, b
<1>3. a % M = b % M  BY <1>1, <1>2, WrapMod
<1> QED BY <1>3 DEF SizeConserved, a, b

(* A step that moves sizes between the lists, up to a number of wraps, and *)
(* reads an entry or none.                                                 *)
LEMMA SizeStep ==
    ASSUME TypeOK, TypeOK', SizeInv, NEW k \in Int, NEW z \in Int,
           TotalSize(vmm_free') + TotalSize(vmm_used')
               = TotalSize(vmm_free) + TotalSize(vmm_used) + z + k * M,
           TotalSize(Found') = TotalSize(Found) + z
    PROVE  SizeInv'
<1> DEFINE a == TotalSize(vmm_free) + TotalSize(vmm_used)
           a2 == TotalSize(vmm_free') + TotalSize(vmm_used')
           b == TotalSize(Found)
           b2 == TotalSize(Found')
<1>1. a \in Nat /\ b \in Nat  BY TotalNat
<1>2. PICK c \in Int : a = b + c * M  BY DEF SizeInv, Wraps
<1>3. a2 = a + z + k * M /\ b2 = b + z  OBVIOUS
<1> HIDE DEF a, a2, b, b2
<1>4. M \in Nat /\ (c + k) * M = c * M + k * M /\ c * M \in Int /\ k * M \in Int
  BY <1>2, MAssumption
<1>5. a2 = b2 + (c + k) * M /\ c + k \in Int  BY <1>1, <1>2, <1>3, <1>4
<1>6. Wraps(a2, b2)  BY <1>5 DEF Wraps
<1> QED BY <1>6 DEF SizeInv, a2, b2

LEMMA AppendTotal ==
    ASSUME NEW s \in Seq(Block), NEW e, Append(s, e) \in Seq(Block)
    PROVE  TotalSize(Append(s, e)) = TotalSize(s) + e.size /\ TotalSize(s) \in Nat
<1> DEFINE b == Append(s, e)
           p == Len(s) + 1
           U == Block \cup {e}
<1>1. s \in Seq(U)
  <2>1. s \in [1..Len(s) -> Block] /\ Len(s) \in Nat  BY LenProperties
  <2>2. s \in [1..Len(s) -> U]  BY <2>1
  <2> HIDE DEF U
  <2> QED BY <2>1, <2>2, SeqDef
<1>2. /\ Len(b) = Len(s) + 1
      /\ \A j \in 1..Len(s) : b[j] = s[j]
      /\ b[p] = e
  <2>1. e \in U  OBVIOUS
  <2> HIDE DEF U
  <2> QED BY <1>1, <2>1, AppendProperties
<1> HIDE DEF b
<1>3. Len(s) \in Nat /\ Sized(s) /\ Sized(b)  BY SizedBlocks DEF b, Sized
<1>4. /\ p \in 1..Len(b)
      /\ \A j \in 1..Len(s) : j < p => b[j].size = s[j].size
      /\ \A j \in 1..Len(s) : j >= p => b[j+1].size = s[j].size
  BY <1>2, <1>3
<1> HIDE DEF p
<1>5. TotalSize(b) = TotalSize(s) + b[p].size /\ TotalSize(s) \in Nat
  BY <1>2, <1>3, <1>4, TotalGap
<1> QED BY <1>2, <1>5 DEF b

LEMMA SizeScan ==
    ASSUME NodesInv, NodesInv', SizeInv, ScanVisit
    PROVE  SizeInv'
<1>1. TypeOK /\ TypeOK'  BY DEF NodesInv
<1>2. /\ visit' = visit + 1 /\ visit \in 1..Len(Visits) /\ visit \in Nat
      /\ vmm_used' = vmm_used
  BY <1>1 DEF ScanVisit, Scanning, TypeOK, lists
<1>3. Visits[visit].size \in Nat
  <2>1. Visits[visit] \in Visit  BY <1>2, VisitsAssumption, ElementOfSeq
  <2> QED BY <2>1, MAssumption DEF Visit
<1> DEFINE z == IF Visits[visit].present THEN 0 ELSE Visits[visit].size
<1>4. TotalSize(Found') = TotalSize(Found) + z
  <2>1. FoundIs /\ FoundIs'
    <3>1. FoundIs  BY <1>1, FoundSized
    <3>2. FoundIs'  BY <1>1, FoundSized, PTL
    <3> QED BY <3>1, <3>2
  <2> DEFINE a == Found
             b == Found'
  <2>3. /\ Sized(a) /\ Sized(b) /\ Len(b) = Len(a) + 1 /\ visit \in 1..Len(b)
        /\ Len(a) = visit - 1 /\ b[visit].size = z
        /\ \A j \in 1..(visit - 1) : b[j].size = a[j].size
    BY <1>2, <2>1 DEF FoundIs
  <2> HIDE DEF a, b, z
  <2>4. /\ \A j \in 1..Len(a) : j < visit => b[j].size = a[j].size
        /\ \A j \in 1..Len(a) : j >= visit => b[j+1].size = a[j].size
    BY <1>2, <2>3
  <2>5. TotalSize(b) = TotalSize(a) + b[visit].size  BY <2>3, <2>4, TotalGap
  <2> QED BY <2>3, <2>5 DEF a, b
<1>5. TotalSize(vmm_free') = TotalSize(vmm_free) + z /\ TotalSize(vmm_free) \in Nat
  <2>1. TotalSize(vmm_free) \in Nat  BY <1>1, TotalNat
  <2>2. CASE Visits[visit].present
    <3>1. vmm_free' = vmm_free  BY <2>2 DEF ScanVisit, lists
    <3> QED BY <2>1, <2>2, <3>1
  <2>3. CASE ~Visits[visit].present
    <3>1. PICK e : vmm_free' = Append(vmm_free, e) /\ e.size = Visits[visit].size
      <4>1. vmm_free' = Append(vmm_free,
                [node |-> get_unused_node(vmm_free, vmm_used, vmm_unused_nodes),
                 virt |-> Visits[visit].virt,
                 size |-> Visits[visit].size])
        BY <2>3 DEF ScanVisit
      <4> QED BY <4>1
    <3>2. vmm_free \in Seq(Block) /\ Append(vmm_free, e) \in Seq(Block)
      BY <1>1, <3>1 DEF TypeOK
    <3>3. TotalSize(vmm_free') = TotalSize(vmm_free) + e.size
      BY <3>1, <3>2, AppendTotal
    <3> QED BY <2>1, <2>3, <3>1, <3>3
  <2> QED BY <2>2, <2>3
<1>6. TotalSize(vmm_used') = TotalSize(vmm_used) /\ TotalSize(vmm_used) \in Nat
  BY <1>1, <1>2, TotalNat
<1> HIDE DEF z
<1>7. z \in Int  BY <1>3 DEF z
<1>8. TotalSize(vmm_free') + TotalSize(vmm_used')
         = TotalSize(vmm_free) + TotalSize(vmm_used) + z + 0 * M
  <2>1. 0 * M = 0  BY MAssumption
  <2> QED BY <1>5, <1>6, <1>7, <2>1
<1>9. 0 \in Int  OBVIOUS
<1> QED BY <1>1, <1>4, <1>7, <1>8, <1>9, SizeStep

LEMMA RemoveTotal ==
    ASSUME NEW s \in Seq(Block), NEW i \in 1..Len(s)
    PROVE  TotalSize(s) = TotalSize(RemoveAt(s, i)) + s[i].size
           /\ TotalSize(RemoveAt(s, i)) \in Nat
<1> DEFINE a == RemoveAt(s, i)
<1>1. /\ a \in Seq(Block)
      /\ Len(a) = Len(s) - 1
      /\ \A j \in 1..(Len(s) - 1) : a[j] = IF j < i THEN s[j] ELSE s[j+1]
  BY RemoveAtProperties
<1> HIDE DEF a
<1>2. Sized(a) /\ Sized(s) /\ Len(s) \in Nat  BY <1>1, SizedBlocks DEF Sized
<1>3. /\ Len(s) = Len(a) + 1
      /\ \A j \in 1..Len(a) : j < i => s[j].size = a[j].size
      /\ \A j \in 1..Len(a) : j >= i => s[j+1].size = a[j].size
  BY <1>1, <1>2
<1>4. TotalSize(s) = TotalSize(a) + s[i].size /\ TotalSize(a) \in Nat
  BY <1>2, <1>3, TotalGap
<1> QED BY <1>4 DEF a

LEMMA InsertTotal ==
    ASSUME NEW s \in Seq(Block), NEW e \in Block, NEW i \in 1..(Len(s) + 1)
    PROVE  TotalSize(InsertAt(s, i, e)) = TotalSize(s) + e.size
           /\ TotalSize(s) \in Nat
<1> DEFINE b == InsertAt(s, i, e)
<1>1. /\ b \in Seq(Block)
      /\ Len(b) = Len(s) + 1
      /\ \A j \in 1..(Len(s) + 1) :
            b[j] = IF j < i THEN s[j] ELSE IF j = i THEN e ELSE s[j-1]
  BY InsertAtProperties
<1> HIDE DEF b
<1>2. Sized(b) /\ Sized(s) /\ Len(s) \in Nat  BY <1>1, SizedBlocks DEF Sized
<1>3. /\ i \in 1..Len(b) /\ b[i].size = e.size
      /\ \A j \in 1..Len(s) : j < i => b[j].size = s[j].size
      /\ \A j \in 1..Len(s) : j >= i => b[j+1].size = s[j].size
  BY <1>1, <1>2
<1>4. TotalSize(b) = TotalSize(s) + b[i].size /\ TotalSize(s) \in Nat
  BY <1>1, <1>2, <1>3, TotalGap
<1> QED BY <1>3, <1>4 DEF b

(* The end of malloc_above moves a block: the split may wrap.              *)
LEMMA TakeTotal ==
    ASSUME NEW s \in Seq(Block), NEW u \in Seq(Nat), vmm_used \in Seq(Block),
           Accounted(s, vmm_used, u), NEW i \in 1..Len(s), NEW n \in 0..(M-1),
           TakeBlock(s, u, i, n), vmm_used' \in Seq(Block)
    PROVE  \E k \in {0, 1} : TotalSize(vmm_free') + TotalSize(vmm_used')
                                = TotalSize(s) + TotalSize(vmm_used) + k * M
<1> DEFINE node == get_unused_node(s, vmm_used, u)
           t == split_free(s, i, n, node)
<1>1. vmm_free' = RemoveAt(t, i) /\ vmm_used' = Append(vmm_used, t[i])
  BY DEF TakeBlock
<1>2. node \in Nat  BY NewNode
<1> HIDE DEF node
<1>3. PICK k \in {0, 1} : TotalSize(t) = TotalSize(s) + k * M
  BY <1>2, SplitTotal
<1>4. t \in Seq(Block) /\ i \in 1..Len(t) /\ TotalSize(s) \in Nat
  <2>1. t \in Seq(Block) /\ Len(t) = Len(s) + 1
    <3> DEFINE kept == [node |-> s[i].node, virt |-> s[i].virt, size |-> n]
               rest == [node |-> node, virt |-> Add(s[i].virt, n),
                        size |-> Sub(s[i].size, n)]
    <3>1. /\ t \in Seq(Block)
          /\ Len(t) = Len(s) + 1
          /\ \A j \in 1..(Len(s) + 1) : t[j] =
                IF j < i THEN s[j] ELSE IF j = i THEN kept
                ELSE IF j = i + 1 THEN rest ELSE s[j-1]
          /\ NodesOf(t) = NodesOf(s) \cup {node}
          /\ kept \in Block /\ rest \in Block
      BY <1>2, SplitFree
    <3> QED BY <3>1
  <2>2. Len(s) \in Nat  BY LenProperties
  <2>3. TotalSize(s) \in Nat  BY ResizeTotal
  <2> QED BY <2>1, <2>2, <2>3
<1> HIDE DEF t
<1> DEFINE f == TotalSize(RemoveAt(t, i))
           v == TotalSize(vmm_used)
           x == t[i].size
<1>5. TotalSize(t) = f + x /\ f \in Nat  BY <1>4, RemoveTotal
<1>6. TotalSize(Append(vmm_used, t[i])) = v + x /\ v \in Nat  BY <1>1, AppendTotal
<1>7. x \in Nat /\ k * M \in Int  BY <1>4, MAssumption, SizedBlocks DEF Sized
<1>8. TotalSize(vmm_free') = f /\ TotalSize(vmm_used') = v + x
  BY <1>1, <1>6
<1> HIDE DEF f, v, x
<1>9. f + (v + x) = TotalSize(s) + v + k * M
  <2> DEFINE y == TotalSize(s)
             z == k * M
             w == TotalSize(t)
  <2>1. /\ w = y + z /\ w = f + x
        /\ f \in Nat /\ v \in Nat /\ x \in Nat /\ y \in Nat /\ z \in Int
    BY <1>3, <1>4, <1>5, <1>6, <1>7
  <2> HIDE DEF w, y, z
  <2>2. f + (v + x) = y + v + z  BY ONLY <2>1
  <2> QED BY <2>2 DEF y, z
<1> QED BY <1>8, <1>9 DEF v

LEMMA SizeMalloc ==
    ASSUME NEW size \in Sizes, NEW align, NEW above,
           NodesInv, NodesInv', SizeInv, malloc_above(size, align, above)
    PROVE  SizeInv'
<1>1. TypeOK /\ TypeOK' /\ NodesAccounted  BY DEF NodesInv
<1>2. /\ vmm_free \in Seq(Block) /\ vmm_used \in Seq(Block)
      /\ vmm_unused_nodes \in Seq(Nat) /\ vmm_used' \in Seq(Block)
      /\ Len(vmm_free) \in Nat
      /\ DOMAIN vmm_free = 1..Len(vmm_free)
  BY <1>1, ListFacts DEF TypeOK
<1>3. Accounted(vmm_free, vmm_used, vmm_unused_nodes)
  BY <1>1 DEF NodesAccounted, Accounted, UnusedSet, Elements
<1>4. size \in 0..(M-1) /\ visit' = visit
  BY SizesAssumption DEF malloc_above
<1>5. Found' = Found  BY <1>4 DEF Found
<1> DEFINE a == TotalSize(vmm_free) + TotalSize(vmm_used)
           a2 == TotalSize(vmm_free') + TotalSize(vmm_used')
<1>6. TotalSize(vmm_free) \in Nat /\ TotalSize(vmm_used) \in Nat
      /\ TotalSize(Found) \in Nat /\ a \in Nat /\ M \in Nat
  BY <1>1, TotalNat, MAssumption
<1>7. ASSUME NEW k \in Int, a2 = a + k * M PROVE SizeInv'
  <2>1. a2 = a + 0 + k * M /\ 0 \in Int  BY <1>6, <1>7
  <2>2. TotalSize(Found') = TotalSize(Found) + 0  BY <1>5, <1>6
  <2> QED BY <1>1, <2>1, <2>2, SizeStep
<1>8. ASSUME NEW i \in search_free(Add(size, align), above),
             TakeBlock(vmm_free, vmm_unused_nodes, i, size)
      PROVE  SizeInv'
  <2>1. i \in 1..Len(vmm_free)  BY <1>2, <1>8 DEF search_free, First
  <2>2. PICK k \in {0, 1} : a2 = a + k * M
    BY <1>2, <1>3, <1>4, <1>8, <2>1, TakeTotal
  <2> HIDE DEF a, a2
  <2> QED BY <1>7, <2>2
<1>9. ASSUME NEW i \in search_free(Add(size, align), above),
             TakeBlock(split_free(vmm_free, i, size,
                          get_unused_node(vmm_free, vmm_used, vmm_unused_nodes)),
                       WithoutFirst(vmm_unused_nodes), i + 1, size)
      PROVE  SizeInv'
  <2> DEFINE node == get_unused_node(vmm_free, vmm_used, vmm_unused_nodes)
             w == WithoutFirst(vmm_unused_nodes)
             t == split_free(vmm_free, i, size, node)
             p == i + 1
  <2>1. i \in 1..Len(vmm_free)  BY <1>2, <1>9 DEF search_free, First
  <2>2. /\ node \in Nat
        /\ w \in Seq(Nat)
        /\ NodesOf(vmm_free) \cup NodesOf(vmm_used) \cup {node} \cup Elements(w)
              = 1..(Len(vmm_free) + Len(vmm_used) + 1 + Len(w))
    BY <1>2, <1>3, NewNode
  <2>3. TakeBlock(t, w, p, size)  BY <1>9
  <2> HIDE DEF node, w
  <2>4. /\ t \in Seq(Block)
        /\ Len(t) = Len(vmm_free) + 1
        /\ NodesOf(t) = NodesOf(vmm_free) \cup {node}
    <3> DEFINE kept == [node |-> vmm_free[i].node, virt |-> vmm_free[i].virt,
                        size |-> size]
               rest == [node |-> node, virt |-> Add(vmm_free[i].virt, size),
                        size |-> Sub(vmm_free[i].size, size)]
    <3>1. /\ vmm_free \in Seq(Block) /\ i \in 1..Len(vmm_free)
          /\ size \in 0..(M-1) /\ node \in Nat
      BY <1>2, <1>4, <2>1, <2>2
    <3>2. /\ t \in Seq(Block)
          /\ Len(t) = Len(vmm_free) + 1
          /\ \A j \in 1..(Len(vmm_free) + 1) : t[j] =
                IF j < i THEN vmm_free[j] ELSE IF j = i THEN kept
                ELSE IF j = i + 1 THEN rest ELSE vmm_free[j-1]
          /\ NodesOf(t) = NodesOf(vmm_free) \cup {node}
          /\ kept \in Block /\ rest \in Block
      BY <3>1, SplitFree
    <3> QED BY <3>2
  <2>5. PICK j \in {0, 1} : TotalSize(t) = TotalSize(vmm_free) + j * M
    BY <1>2, <1>4, <2>1, <2>2, SplitTotal
  <2>6. p \in 1..Len(t)  BY <1>2, <2>1, <2>4
  <2> HIDE DEF t, p
  <2>7. Accounted(t, vmm_used, w)
    <3>1. NodesOf(t) \cup NodesOf(vmm_used) \cup Elements(w)
            = NodesOf(vmm_free) \cup NodesOf(vmm_used) \cup {node} \cup Elements(w)
      BY <2>4
    <3>2. Len(w) \in Nat /\ Len(vmm_used) \in Nat  BY <1>2, <2>2, LenProperties
    <3>3. Len(t) + Len(vmm_used) + Len(w)
            = Len(vmm_free) + Len(vmm_used) + 1 + Len(w)
      BY <1>2, <2>4, <3>2
    <3> QED BY <2>2, <3>1, <3>3 DEF Accounted
  <2>8. PICK k \in {0, 1} : a2 = TotalSize(t) + TotalSize(vmm_used) + k * M
    BY <1>2, <1>4, <2>2, <2>3, <2>4, <2>6, <2>7, TakeTotal
  <2>9. a2 = a + (j + k) * M /\ j + k \in Int
    <3>1. (j + k) * M = j * M + k * M /\ j * M \in Int /\ k * M \in Int  BY <1>6
    <3> HIDE DEF a2
    <3> QED BY <1>6, <2>5, <2>8, <3>1
  <2> HIDE DEF a, a2
  <2> QED BY <1>7, <2>9
<1>10. ASSUME UNCHANGED lists PROVE SizeInv'
  <2>1. a2 = a + 0 * M  BY <1>6, <1>10 DEF lists
  <2> HIDE DEF a, a2
  <2> QED BY <1>7, <2>1
<1> QED BY <1>8, <1>9, <1>10 DEF malloc_above

LEMMA SizeFree ==
    ASSUME NEW addr, NodesInv, NodesInv', SizeInv, Free(addr)
    PROVE  SizeInv'
<1>1. TypeOK /\ TypeOK'  BY DEF NodesInv
<1>2. /\ vmm_free \in Seq(Block) /\ vmm_used \in Seq(Block)
      /\ Len(vmm_free) \in Nat
      /\ DOMAIN vmm_free = 1..Len(vmm_free) /\ DOMAIN vmm_used = 1..Len(vmm_used)
      /\ \A i \in 1..Len(vmm_used) : vmm_used[i] \in Block
  BY <1>1, ListFacts
<1>3. Found' = Found  BY DEF Found, Free
<1>4. TotalSize(vmm_free) \in Nat /\ TotalSize(vmm_used) \in Nat
      /\ TotalSize(Found) \in Nat /\ 0 * M = 0
  BY <1>1, TotalNat, MAssumption
<1>5. ASSUME TotalSize(vmm_free') + TotalSize(vmm_used')
                = TotalSize(vmm_free) + TotalSize(vmm_used)
      PROVE  SizeInv'
  <2>1. /\ TotalSize(vmm_free') + TotalSize(vmm_used')
               = TotalSize(vmm_free) + TotalSize(vmm_used) + 0 + 0 * M
        /\ TotalSize(Found') = TotalSize(Found) + 0 /\ 0 \in Int
    BY <1>3, <1>4, <1>5
  <2> QED BY <1>1, <2>1, SizeStep
<1>6. ASSUME NEW u \in search_used(addr), NEW n \in search_free_neighbor(vmm_used[u]),
             vmm_free' = InsertAt(vmm_free, n, vmm_used[u]),
             vmm_used' = RemoveAt(vmm_used, u)
      PROVE  SizeInv'
  <2>1. u \in 1..Len(vmm_used) /\ n \in 1..(Len(vmm_free) + 1)
    BY <1>2, <1>6 DEF search_used, search_free_neighbor, First
  <2> DEFINE x == vmm_used[u].size
             f == TotalSize(vmm_free)
             v == TotalSize(vmm_used)
             f2 == TotalSize(vmm_free')
             v2 == TotalSize(vmm_used')
  <2>2. f2 = f + x  BY <1>2, <1>6, <2>1, InsertTotal
  <2>3. v = v2 + x /\ v2 \in Nat  BY <1>2, <1>6, <2>1, RemoveTotal
  <2>4. x \in Nat /\ f \in Nat  BY <1>2, <1>4, <2>1, MAssumption DEF Block
  <2>5. f2 + v2 = f + v
    <3> HIDE DEF x, f, v, f2, v2
    <3> QED BY <2>2, <2>3, <2>4
  <2> QED BY <1>5, <2>5
<1>7. ASSUME UNCHANGED lists PROVE SizeInv'  BY <1>5, <1>7 DEF lists
<1> QED BY <1>6, <1>7 DEF Free, FreeUsed, FreeUnknown

LEMMA SizeCompact ==
    ASSUME NodesInv, NodesInv', SizeInv, CompactStep
    PROVE  SizeInv'
<1>1. TypeOK /\ TypeOK'  BY DEF NodesInv
<1>2. vmm_free \in Seq(Block) /\ Len(vmm_free) \in Nat
      /\ \A i \in 1..Len(vmm_free) : vmm_free[i] \in Block
  BY <1>1, ListFacts
<1>3. Found' = Found /\ vmm_used' = vmm_used  BY DEF Found, CompactStep
<1>4. TotalSize(vmm_free) \in Nat /\ TotalSize(vmm_used) \in Nat
      /\ TotalSize(Found) \in Nat /\ 0 * M = 0 /\ M \in Nat
  BY <1>1, TotalNat, MAssumption
<1>5. ASSUME NEW k \in Int, TotalSize(vmm_free') = TotalSize(vmm_free) + k * M
      PROVE  SizeInv'
  <2>1. k * M \in Int  BY <1>4
  <2>2. /\ TotalSize(vmm_free') + TotalSize(vmm_used')
               = TotalSize(vmm_free) + TotalSize(vmm_used) + 0 + k * M
        /\ TotalSize(Found') = TotalSize(Found) + 0 /\ 0 \in Int
    BY <1>3, <1>4, <1>5, <2>1
  <2> QED BY <1>1, <2>2, SizeStep
<1>6. ASSUME NEW i \in search_adjacent_free,
             vmm_free' = RemoveAt([vmm_free EXCEPT ![i].size =
                                      Add(@, vmm_free[i+1].size)], i + 1)
      PROVE  SizeInv'
  <2>1. i \in 1..Len(vmm_free) /\ i + 1 \in 1..Len(vmm_free)
    BY <1>2 DEF search_adjacent_free, First
  <2> DEFINE x == vmm_free[i].size
             p == i + 1
             y == vmm_free[p].size
             n == Add(x, y)
             t == [vmm_free EXCEPT ![i].size = n]
  <2>2. x \in 0..(M-1) /\ y \in 0..(M-1)  BY <1>2, <2>1 DEF Block
  <2>3. vmm_free' = RemoveAt(t, p)  BY <1>6
  <2> HIDE DEF x, y
  <2>4. PICK k \in {0, -1} : n = x + y + k * M  BY <2>2, Wrapped
  <2>5. n \in 0..(M-1)  BY <2>2, Wrapped
  <2> HIDE DEF n
  <2>6. /\ t \in Seq(Block) /\ Len(t) = Len(vmm_free)
        /\ TotalSize(t) = TotalSize(vmm_free) - vmm_free[i].size + n
    BY <1>2, <2>1, <2>5, ResizeTotal
  <2>7. t[p].size = y
    <3>1. /\ t \in Seq(Block)
          /\ Len(t) = Len(vmm_free)
          /\ \A j \in 1..Len(vmm_free) : t[j] =
                IF j = i THEN [node |-> vmm_free[i].node, virt |-> vmm_free[i].virt,
                               size |-> n]
                ELSE vmm_free[j]
          /\ NodesOf(t) = NodesOf(vmm_free)
      BY <1>2, <2>1, <2>5, Resize
    <3>2. p # i /\ p \in 1..Len(vmm_free)  BY <1>2, <2>1
    <3> QED BY <3>1, <3>2 DEF y
  <2> HIDE DEF t
  <2>8. TotalSize(t) = TotalSize(RemoveAt(t, p)) + t[p].size
        /\ TotalSize(RemoveAt(t, p)) \in Nat
    <3>1. p \in 1..Len(t)  BY <2>1, <2>6
    <3> HIDE DEF p
    <3> QED BY <2>6, <3>1, RemoveTotal
  <2> DEFINE f == TotalSize(vmm_free)
             f2 == TotalSize(vmm_free')
             z == k * M
  <2>9. /\ f - x + n = f2 + y /\ n = x + y + z
        /\ f \in Nat /\ f2 \in Nat /\ x \in Int /\ y \in Int /\ z \in Int
    BY <1>4, <2>2, <2>3, <2>4, <2>6, <2>7, <2>8 DEF x
  <2> HIDE DEF f, f2, z
  <2>10. f2 = f + z  BY ONLY <2>9
  <2> QED BY <1>5, <2>10 DEF f, f2, z
<1>7. ASSUME UNCHANGED vmm_free PROVE SizeInv'
  <2>1. TotalSize(vmm_free') = TotalSize(vmm_free) + 0 * M  BY <1>4, <1>7
  <2> QED BY <1>5, <2>1
<1> QED BY <1>6, <1>7 DEF CompactStep

LEMMA SizeNext ==
    ASSUME NodesInv, NodesInv', SizeInv, [NextAbove]_vars
    PROVE  SizeInv'
<1>1. CASE ScanVisit  BY <1>1, SizeScan
<1>2. ASSUME NEW size \in Sizes, Malloc(size) PROVE SizeInv'
  BY <1>2, SizeMalloc DEF Malloc
<1>3. ASSUME NEW addr \in 0..(M-1), Free(addr) PROVE SizeInv'
  BY <1>3, SizeFree
<1>4. CASE CompactStep  BY <1>4, SizeCompact
<1>5. CASE UNCHANGED vars  BY <1>5 DEF vars, SizeInv, Found
<1>6. ASSUME NEW size \in Sizes, NEW align \in Aligns, NEW above \in Aboves,
             malloc_above(size, align, above)
      PROVE  SizeInv'
  BY <1>6, SizeMalloc
<1> QED
  BY <1>1, <1>2, <1>3, <1>4, <1>5, <1>6 DEF NextAbove, Next, Lost

(* Whatever the allocator is called with, the sizes on its lists add up to *)
(* the space that the scan found, modulo the width of u32int: the splits   *)
(* of malloc_above (vmm.c:101) that wrap and the merges of                 *)
(* compact_all_free lose and invent nothing.                               *)
THEOREM SizeConservedAlways == SpecAbove => []SizeConserved
<1>1. Init => SizeInv
  <2> SUFFICES ASSUME Init PROVE SizeInv
    OBVIOUS
  <2>1. NodesInv  BY NodesInit
  <2>2. TypeOK /\ vmm_free = <<>> /\ vmm_used = <<>> /\ visit = 1
    BY <2>1 DEF Init, NodesInv
  <2>3. ASSUME NEW list, Sized(list), Len(list) = 0 PROVE TotalSize(list) = 0
    <3>1. PICK P : Sums(P, list) /\ TotalSize(list) = P[Len(list)]
      BY <2>3, SumsExist
    <3> QED BY <2>3, <3>1 DEF Sums
  <2>4. Sized(Found) /\ Len(Found) = 0  BY <2>2, FoundSized DEF FoundIs
  <2>5. Sized(vmm_free) /\ Len(vmm_free) = 0 /\ Sized(vmm_used) /\ Len(vmm_used) = 0
    BY <2>2, SizedBlocks DEF TypeOK
  <2>6. TotalSize(Found) = 0 /\ TotalSize(vmm_free) = 0 /\ TotalSize(vmm_used) = 0
    BY <2>3, <2>4, <2>5
  <2>7. 0 + 0 = 0 + 0 * M /\ 0 \in Int  BY MAssumption
  <2> QED BY <2>6, <2>7 DEF SizeInv, Wraps
<1>2. NodesInv /\ NodesInv' /\ SizeInv /\ [NextAbove]_vars => SizeInv'
  BY SizeNext
<1>3. NodesInv /\ SizeInv => SizeConserved
  BY SizeInvMeans DEF NodesInv
<1> QED
  BY <1>1, <1>2, <1>3, NodesAlways, PTL DEF SpecAbove
=============================================================================
