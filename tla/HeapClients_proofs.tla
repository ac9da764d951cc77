------------------------- MODULE HeapClients_proofs -------------------------
(***************************************************************************)
(* What the heap's callers see and what they do.  First that the size      *)
(* classes are the stacks of LifoHeap; then the commands of the shell over *)
(* the heap, for every number and order of commands, every FRAG_N and      *)
(* every size of the large buffers that keeps the order of the code's.     *)
(***************************************************************************)
EXTENDS HeapClients, HeapRefinesLifo, HeapDomains_proofs

-----------------------------------------------------------------------------
(* The stack of blocks that the size classes promise. *)

\* A list as a sequence, newest first.
Shown(s, n) == [i \in 1 .. n |-> s[n + 1 - i]]

\* A memory word and the links from it determine a list.
LEMMA ListUnique ==
    ASSUME NEW mem, NEW first, NEW s, NEW n, IsList(mem, first, s, n),
           NEW t, NEW k, IsList(mem, first, t, k)
    PROVE  n = k /\ Shown(s, n) = Shown(t, k)
<1>1. /\ n \in Nat /\ first = IF n = 0 THEN NULL ELSE s[n]
      /\ \A j \in 1 .. n : s[j] # NULL /\ WordAt(mem, s[j]) = IF j = 1 THEN NULL ELSE s[j - 1]
  BY DEF IsList
<1>2. /\ k \in Nat /\ first = IF k = 0 THEN NULL ELSE t[k]
      /\ \A j \in 1 .. k : t[j] # NULL /\ WordAt(mem, t[j]) = IF j = 1 THEN NULL ELSE t[j - 1]
  BY DEF IsList
<1>3. ASSUME NEW j \in Nat, j < n, j < k PROVE s[n - j] = t[k - j]
  <2>. DEFINE T == {i \in Nat : i < n /\ i < k /\ s[n - i] # t[k - i]}
              l == Min(T)
  <2>. SUFFICES ASSUME T # {} PROVE FALSE
    BY <1>3
  <2>1. l \in T /\ \A i \in T : l <= i
    BY MinOfNats
  <2>. HIDE DEF l
  <2>2. l \in Nat /\ l < n /\ l < k /\ s[n - l] # t[k - l]
    BY <2>1
  <2>3. CASE l = 0
    BY <1>1, <1>2, <2>2, <2>3
  <2>4. CASE l # 0
    <3>1. l - 1 \in Nat /\ l - 1 < n /\ l - 1 < k /\ ~(l <= l - 1)
      BY <1>1, <1>2, <2>2, <2>4
    <3>2. s[n - (l - 1)] = t[k - (l - 1)]
      BY <2>1, <3>1
    <3>. DEFINE x == n - (l - 1)
                y == k - (l - 1)
    <3>3. x \in 1 .. n /\ x # 1 /\ x - 1 = n - l /\ y \in 1 .. k /\ y # 1 /\ y - 1 = k - l
      BY <1>1, <1>2, <2>2, <2>4
    <3>4. s[x] = t[y]
      BY <3>2
    <3>. HIDE DEF x, y
    <3>5. WordAt(mem, s[x]) = s[x - 1] /\ WordAt(mem, t[y]) = t[y - 1]
      BY <1>1, <1>2, <3>3
    <3>. QED
      BY <2>2, <3>3, <3>4, <3>5
  <2>. QED
    BY <2>3, <2>4
<1>4. ASSUME n < k PROVE FALSE
  <2>1. CASE n = 0
    BY <1>1, <1>2, <1>4, <2>1
  <2>2. CASE n # 0
    <3>1. n - 1 \in Nat /\ n - 1 < n /\ n - 1 < k /\ n - (n - 1) = 1
      BY <1>1, <1>2, <1>4, <2>2
    <3>. DEFINE y == k - (n - 1)
    <3>2. s[1] = t[y] /\ y \in 1 .. k /\ y # 1 /\ y - 1 \in 1 .. k /\ 1 \in 1 .. n
      BY <1>1, <1>2, <1>3, <1>4, <2>2, <3>1
    <3>. HIDE DEF y
    <3>. QED
      BY <1>1, <1>2, <3>2
  <2>. QED
    BY <2>1, <2>2
<1>5. ASSUME k < n PROVE FALSE
  <2>1. CASE k = 0
    BY <1>1, <1>2, <1>5, <2>1
  <2>2. CASE k # 0
    <3>1. k - 1 \in Nat /\ k - 1 < k /\ k - 1 < n /\ k - (k - 1) = 1
      BY <1>1, <1>2, <1>5, <2>2
    <3>. DEFINE y == n - (k - 1)
    <3>2. t[1] = s[y] /\ y \in 1 .. n /\ y # 1 /\ y - 1 \in 1 .. n /\ 1 \in 1 .. k
      BY <1>1, <1>2, <1>3, <1>5, <2>2, <3>1
    <3>. HIDE DEF y
    <3>. QED
      BY <1>1, <1>2, <3>2
  <2>. QED
    BY <2>1, <2>2
<1>6. n = k
  BY <1>1, <1>2, <1>4, <1>5
<1>7. ASSUME NEW i \in 1 .. n PROVE s[n + 1 - i] = t[k + 1 - i]
  <2>1. /\ i - 1 \in Nat /\ i - 1 < n /\ i - 1 < k
        /\ n - (i - 1) = n + 1 - i /\ k - (i - 1) = k + 1 - i
    BY <1>1, <1>6
  <2>. QED
    BY <1>3, <2>1
<1>. QED
  BY <1>6, <1>7 DEF Shown

\* Every list of a class that memory holds is the one the code walks.
ListsRead ==
    \A d \in Domains : \A s, n : IsList(m, head[d], s, n) => Stack(d) = Shown(s, n)

\* It is, by the invariant.
LEMMA InvListsRead ==
    ASSUME Fits, IInv
    PROVE  ListsRead
<1>. SUFFICES ASSUME NEW d \in Domains, NEW s, NEW n, IsList(m, head[d], s, n)
              PROVE  Stack(d) = Shown(s, n)
  BY DEF ListsRead
<1>1. PICK stk, dep, len, use, from : Inv(stk, dep, len, use, from)
  BY DEF IInv
<1>2. /\ Typed /\ Cursors /\ IsList(m, head[d], stk[d], dep[d]) /\ dep[d] \in Nat
      /\ Members(stk[d], dep[d]) \cup {a.ptr : a \in Held(d)} = Blocks(d)
      /\ d \in Heaps /\ BootOrder /\ Sound(m, dir, Started, Own(stk, dep)) /\ Lists(stk, dep)
  BY <1>1 DEF Inv, Lists, BlocksSplit, Heaps
<1>3. Shown(s, n) = Shown(stk[d], dep[d])
  BY <1>2, ListUnique
<1>4. CASE d \notin Started
  <2>1. dep[d] = 0
    BY <1>2, <1>4, NoList
  <2>2. Shown(stk[d], dep[d]) = <<>>
    BY <2>1 DEF Shown
  <2>. QED
    BY <1>3, <1>4, <2>2 DEF Stack
<1>5. CASE d \in Started
  <2>1. Carved(d) = Blocks(d) /\ IsFiniteSet(Carved(d))
    BY <1>2, <1>5, CarvedBlocks
  <2>2. Members(stk[d], dep[d]) \subseteq Carved(d)
    BY <1>2, <2>1
  <2>3. dep[d] <= Cardinality(Carved(d)) /\ Cardinality(Carved(d)) \in Nat
    BY <1>2, <2>1, <2>2, ListBound
  <2>. DEFINE N == Cardinality(Carved(d)) + 1
              c == Chain(d, N)
              k == Cardinality({i \in 0 .. N : c[i] # NULL})
              t == stk[d]
              e == dep[d]
  <2>4. N \in Nat /\ e <= N /\ e < N /\ e \in Nat
    BY <1>2, <2>3
  <2>5. FreeList(d) = [i \in 1 .. k |-> c[i - 1]]
    BY DEF FreeList
  <2>6. \A i \in 0 .. N : c[i] = IF i < e THEN t[e - i] ELSE NULL
    <3>. HIDE DEF N
    <3>. QED
      BY <1>1, <1>2, <2>4, ListSteps
  <2>. HIDE DEF N, c, t, e
  <2>7. IsList(m, head[d], t, e)
    BY <1>2 DEF t, e
  <2>8. \A i \in 1 .. e : t[i] # NULL
    BY <2>7 DEF IsList
  <2>9. {i \in 0 .. N : c[i] # NULL} = 0 .. e - 1
    <3>1. ASSUME NEW i \in 0 .. N PROVE c[i] # NULL <=> i \in 0 .. e - 1
      <4>1. i < e => e - i \in 1 .. e
        BY <2>4
      <4>. QED
        BY <2>4, <2>6, <2>8, <4>1
    <3>. QED
      BY <2>4, <3>1
  <2>10. k = e
    <3>1. Cardinality(0 .. e - 1) = e
      BY <2>4, FS_Interval
    <3>. QED
      BY <2>9, <3>1
  <2>11. ASSUME NEW i \in 1 .. e PROVE c[i - 1] = t[e + 1 - i]
    <3>1. i - 1 \in 0 .. N /\ i - 1 < e /\ e - (i - 1) = e + 1 - i
      BY <2>4
    <3>. QED
      BY <2>6, <3>1
  <2>. HIDE DEF k
  <2>12. FreeList(d) = Shown(t, e)
    BY <2>5, <2>10, <2>11 DEF Shown
  <2>. QED
    BY <1>3, <1>5, <2>12 DEF Stack, t, e
<1>. QED
  BY <1>4, <1>5

\* A list as a sequence has its length and its members.
LEMMA ShownSeq ==
    ASSUME NEW s \in [Nat -> Nat], NEW n \in Nat
    PROVE  /\ Shown(s, n) \in Seq(Nat) /\ Len(Shown(s, n)) = n
           /\ \A i \in 1 .. n : Shown(s, n)[i] = s[n + 1 - i]
<1>1. ASSUME NEW i \in 1 .. n PROVE s[n + 1 - i] \in Nat
  <2>1. n + 1 - i \in Nat
    OBVIOUS
  <2>. QED
    BY <2>1
<1>. QED
  BY <1>1 DEF Shown

\* Taking the newest off.
LEMMA ShownPop ==
    ASSUME NEW s \in [Nat -> Nat], NEW n \in Nat \ {0}
    PROVE  /\ Shown(s, n) # <<>> /\ Head(Shown(s, n)) = s[n]
           /\ Tail(Shown(s, n)) = Shown(s, n - 1)
<1>. DEFINE q == Shown(s, n)
            r == Shown(s, n - 1)
<1>1. q \in Seq(Nat) /\ Len(q) = n /\ \A i \in 1 .. n : q[i] = s[n + 1 - i]
  BY ShownSeq
<1>2. r \in Seq(Nat) /\ Len(r) = n - 1 /\ \A i \in 1 .. n - 1 : r[i] = s[(n - 1) + 1 - i]
  <2>. DEFINE e == n - 1
  <2>1. e \in Nat
    OBVIOUS
  <2>. HIDE DEF e
  <2>2. Shown(s, e) \in Seq(Nat) /\ Len(Shown(s, e)) = e
        /\ \A i \in 1 .. e : Shown(s, e)[i] = s[e + 1 - i]
    BY <2>1, ShownSeq
  <2>. QED
    BY <2>2 DEF e
<1>. HIDE DEF q, r
<1>3. q # <<>>
  BY <1>1
<1>4. Head(q) = s[n]
  <2>1. Head(q) = q[1] /\ n + 1 - 1 = n
    BY <1>1, <1>3
  <2>. QED
    BY <1>1, <2>1
<1>5. Tail(q) \in Seq(Nat) /\ Len(Tail(q)) = n - 1 /\ \A i \in 1 .. n - 1 : Tail(q)[i] = q[i + 1]
  BY <1>1, <1>3
<1>6. ASSUME NEW i \in 1 .. n - 1 PROVE Tail(q)[i] = r[i]
  <2>1. i + 1 \in 1 .. n /\ n + 1 - (i + 1) = (n - 1) + 1 - i
    OBVIOUS
  <2>. QED
    BY <1>1, <1>2, <1>5, <2>1
<1>7. Tail(q) = r
  BY <1>2, <1>5, <1>6, SeqEqual
<1>. QED
  BY <1>3, <1>4, <1>7 DEF q, r

\* Putting one on.
LEMMA ShownPush ==
    ASSUME NEW s \in [Nat -> Nat], NEW n \in Nat, NEW x \in Nat
    PROVE  Shown(Pushed(s, n, x), n + 1) = <<x>> \o Shown(s, n)
<1>. DEFINE t == Pushed(s, n, x)
            q == Shown(t, n + 1)
            r == <<x>> \o Shown(s, n)
<1>1. t \in [Nat -> Nat] /\ t[n + 1] = x /\ \A k \in 1 .. n : t[k] = s[k]
  BY DEF Pushed
<1>. HIDE DEF t
<1>2. Shown(s, n) \in Seq(Nat) /\ Len(Shown(s, n)) = n
      /\ \A i \in 1 .. n : Shown(s, n)[i] = s[n + 1 - i]
  BY ShownSeq
<1>3. q \in Seq(Nat) /\ Len(q) = n + 1 /\ \A i \in 1 .. n + 1 : q[i] = t[(n + 1) + 1 - i]
  <2>. DEFINE e == n + 1
  <2>1. e \in Nat
    OBVIOUS
  <2>. HIDE DEF e
  <2>2. Shown(t, e) \in Seq(Nat) /\ Len(Shown(t, e)) = e
        /\ \A i \in 1 .. e : Shown(t, e)[i] = t[e + 1 - i]
    BY <1>1, <2>1, ShownSeq
  <2>. QED
    BY <2>2 DEF e
<1>4. r \in Seq(Nat) /\ Len(r) = n + 1 /\ r[1] = x
      /\ \A i \in 2 .. n + 1 : r[i] = Shown(s, n)[i - 1]
  <2>. DEFINE w == Shown(s, n)
  <2>. HIDE DEF w
  <2>1. w \in Seq(Nat) /\ Len(w) = n /\ <<x>> \in Seq(Nat) /\ Len(<<x>>) = 1 /\ <<x>>[1] = x
    BY <1>2 DEF w
  <2>2. /\ <<x>> \o w \in Seq(Nat) /\ Len(<<x>> \o w) = 1 + n
        /\ \A i \in 1 .. 1 + n : (<<x>> \o w)[i] = IF i <= 1 THEN <<x>>[i] ELSE w[i - 1]
    BY <2>1, ConcatProperties
  <2>3. (\A i \in 2 .. n + 1 : i \in 1 .. 1 + n /\ ~(i <= 1)) /\ 1 \in 1 .. 1 + n /\ 1 + n = n + 1
    OBVIOUS
  <2>. QED
    BY <2>1, <2>2, <2>3 DEF w
<1>. HIDE DEF q, r
<1>5. ASSUME NEW i \in 1 .. n + 1 PROVE q[i] = r[i]
  <2>1. CASE i = 1
    BY <1>1, <1>3, <1>4, <2>1
  <2>2. CASE i # 1
    <3>1. i \in 2 .. n + 1 /\ i - 1 \in 1 .. n /\ (n + 1) + 1 - i \in 1 .. n
          /\ n + 1 - (i - 1) = (n + 1) + 1 - i
      BY <2>2
    <3>. QED
      BY <1>1, <1>2, <1>3, <1>4, <3>1
  <2>. QED
    BY <2>1, <2>2
<1>6. q = r
  BY <1>3, <1>4, <1>5, SeqEqual
<1>. QED
  BY <1>6 DEF q, r, t

\* Putting the blocks of a page on.
LEMMA ShownCut ==
    ASSUME NEW d \in Domains, NEW s \in [Nat -> Nat], NEW n \in Nat, NEW virt \in Nat
    PROVE  /\ Lifo!PageBlocks(d, virt) \in Seq(Nat)
           /\ Shown(CutPage(s, n, virt, ClassSize[d], BlocksPerPage(d)), n + BlocksPerPage(d))
                 = Lifo!PageBlocks(d, virt) \o Shown(s, n)
           /\ CutPage(s, n, virt, ClassSize[d], BlocksPerPage(d)) \in [Nat -> Nat]
<1>. DEFINE b == ClassSize[d]
            K == BlocksPerPage(d)
            t == CutPage(s, n, virt, b, K)
            q == Shown(t, n + K)
            u == Lifo!PageBlocks(d, virt)
            r == u \o Shown(s, n)
<1>1. b \in Nat /\ K \in Nat \ {0}
  BY PageDivided
<1>2. u = [i \in 1 .. K |-> virt + (i - 1) * b]
  BY DEF Lifo!PageBlocks, BlocksPerPage
<1>. HIDE DEF b, K, u
<1>3. \A i \in Int : i >= 0 => virt + i * b \in Nat
  <2>. SUFFICES ASSUME NEW i \in Nat PROVE virt + i * b \in Nat
    OBVIOUS
  <2>1. i * b \in Nat
    BY <1>1
  <2>. QED
    BY <2>1
<1>4. u \in Seq(Nat) /\ Len(u) = K /\ \A i \in 1 .. K : u[i] = virt + (i - 1) * b
  <2>1. ASSUME NEW i \in 1 .. K PROVE virt + (i - 1) * b \in Nat
    <3>1. i - 1 \in Int /\ i - 1 >= 0
      BY <1>1
    <3>. QED
      BY <1>3, <3>1
  <2>. QED
    BY <1>1, <1>2, <2>1
<1>5. /\ \A i \in 1 .. n : t[i] = s[i]
      /\ \A i \in n + 1 .. n + K : t[i] = virt + (n + K - i) * b
      /\ t \in [Nat -> Nat]
  <2>1. ASSUME NEW i \in Nat
        PROVE  (IF i <= n THEN s[i] ELSE IF i <= n + K THEN virt + (n + K - i) * b ELSE 0) \in Nat
    <3>1. CASE i <= n
      BY <3>1
    <3>2. CASE ~(i <= n) /\ i <= n + K
      <4>1. n + K - i \in Int /\ n + K - i >= 0
        BY <1>1, <3>2
      <4>. QED
        BY <1>3, <3>2, <4>1
    <3>. QED
      BY <3>1, <3>2
  <2>2. t \in [Nat -> Nat]
    BY <2>1 DEF CutPage
  <2>3. (\A i \in 1 .. n : i \in Nat /\ i <= n)
        /\ (\A i \in n + 1 .. n + K : i \in Nat /\ ~(i <= n) /\ i <= n + K)
    BY <1>1
  <2>. QED
    BY <2>2, <2>3 DEF CutPage
<1>. HIDE DEF t
<1>6. Shown(s, n) \in Seq(Nat) /\ Len(Shown(s, n)) = n
      /\ \A i \in 1 .. n : Shown(s, n)[i] = s[n + 1 - i]
  BY ShownSeq
<1>7. n + K \in Nat
  BY <1>1
<1>8. q \in Seq(Nat) /\ Len(q) = n + K /\ \A i \in 1 .. n + K : q[i] = t[n + K + 1 - i]
  <2>. DEFINE e == n + K
  <2>. HIDE DEF e
  <2>1. e \in Nat
    BY <1>7 DEF e
  <2>2. /\ Shown(t, e) \in Seq(Nat) /\ Len(Shown(t, e)) = e
        /\ \A i \in 1 .. e : Shown(t, e)[i] = t[e + 1 - i]
    BY <1>5, <2>1, ShownSeq
  <2>3. \A i \in 1 .. e : e + 1 - i = n + K + 1 - i
    BY <1>1 DEF e
  <2>4. \A i \in 1 .. e : Shown(t, e)[i] = t[n + K + 1 - i]
    BY <2>2, <2>3
  <2>. QED
    BY <2>2, <2>4 DEF e
<1>9. /\ r \in Seq(Nat) /\ Len(r) = n + K
      /\ \A i \in 1 .. K : r[i] = u[i]
      /\ \A i \in K + 1 .. n + K : r[i] = Shown(s, n)[i - K]
  <2>. DEFINE w == Shown(s, n)
  <2>. HIDE DEF w
  <2>1. w \in Seq(Nat) /\ Len(w) = n
    BY <1>6 DEF w
  <2>2. /\ u \o w \in Seq(Nat) /\ Len(u \o w) = K + n
        /\ \A i \in 1 .. K + n : (u \o w)[i] = IF i <= K THEN u[i] ELSE w[i - K]
    BY <1>4, <2>1, ConcatProperties
  <2>3. /\ \A i \in 1 .. K : i \in 1 .. K + n /\ i <= K
        /\ \A i \in K + 1 .. n + K : i \in 1 .. K + n /\ ~(i <= K)
        /\ K + n = n + K
    BY <1>1
  <2>. QED
    BY <2>2, <2>3 DEF w
<1>. HIDE DEF q, r
<1>10. ASSUME NEW i \in 1 .. n + K PROVE q[i] = r[i]
  <2>1. CASE i \in 1 .. K
    <3>1. n + K + 1 - i \in n + 1 .. n + K /\ n + K - (n + K + 1 - i) = i - 1
      BY <1>1, <2>1
    <3>2. t[n + K + 1 - i] = virt + (i - 1) * b
      BY <1>5, <3>1
    <3>. QED
      BY <1>4, <1>8, <1>9, <2>1, <3>2
  <2>2. CASE i \in K + 1 .. n + K
    <3>1. n + K + 1 - i \in 1 .. n /\ i - K \in 1 .. n /\ n + 1 - (i - K) = n + K + 1 - i
      BY <1>1, <2>2
    <3>. QED
      BY <1>5, <1>6, <1>8, <1>9, <2>2, <3>1
  <2>. QED
    BY <1>1, <2>1, <2>2
<1>11. q = r
  BY <1>8, <1>9, <1>10, SeqEqual
<1>. QED
  BY <1>4, <1>5, <1>11 DEF q, r, t, b, K, u
\* The size classes other than d look as before.
OthersAlike(d) ==
    \A e \in Domains : e # d =>
        Stack(e)' = Stack(e) /\ HeldBlocks(e)' = HeldBlocks(e) /\ NextPage(e)' = NextPage(e)

\* A step that shows nothing in any class.
LEMMA LifoStutters ==
    ASSUME OthersAlike(Large)
    PROVE  [Lifo!LifoNext]_(Lifo!lifoVars)
<1>1. \A e \in Domains : e # Large
  BY HeapNumbers
<1>. QED
  BY <1>1 DEF OthersAlike, Lifo!lifoVars

\* kmalloc takes the top of a stack.
LEMMA LifoPops ==
    ASSUME NEW d \in Domains, OthersAlike(d), Stack(d) # <<>>,
           Stack(d)' = Tail(Stack(d)),
           HeldBlocks(d)' = HeldBlocks(d) \cup {Head(Stack(d))},
           NextPage(d)' = NextPage(d)
    PROVE  [Lifo!LifoNext]_(Lifo!lifoVars)
<1>1. Lifo!Pop(d)
  BY DEF Lifo!Pop, OthersAlike
<1>2. d \in Lifo!Classes
  BY DEF Lifo!Classes, Domains
<1>. QED
  BY <1>1, <1>2 DEF Lifo!LifoNext

\* kmalloc adds a page to an empty stack.
LEMMA LifoGrows ==
    ASSUME NEW d \in Domains, OthersAlike(d), Stack(d) = <<>>,
           Stack(d)' = Tail(Lifo!PageBlocks(d, NextPage(d))),
           HeldBlocks(d)' = HeldBlocks(d) \cup {NextPage(d)},
           NextPage(d)' = NextPage(d) + PageWords
    PROVE  [Lifo!LifoNext]_(Lifo!lifoVars)
<1>1. Lifo!Grow(d)
  BY DEF Lifo!Grow, OthersAlike
<1>2. d \in Lifo!Classes
  BY DEF Lifo!Classes, Domains
<1>. QED
  BY <1>1, <1>2 DEF Lifo!LifoNext

\* Boot adds a page.
LEMMA LifoPremaps ==
    ASSUME NEW d \in Domains, OthersAlike(d),
           Stack(d)' = Lifo!PageBlocks(d, NextPage(d)) \o Stack(d),
           HeldBlocks(d)' = HeldBlocks(d),
           NextPage(d)' = NextPage(d) + PageWords
    PROVE  [Lifo!LifoNext]_(Lifo!lifoVars)
<1>1. Lifo!Premap(d)
  BY DEF Lifo!Premap, OthersAlike
<1>2. d \in Lifo!Classes
  BY DEF Lifo!Classes, Domains
<1>. QED
  BY <1>1, <1>2 DEF Lifo!LifoNext

\* kfree puts a block on top.
LEMMA LifoPushes ==
    ASSUME NEW d \in Domains, OthersAlike(d), NEW b \in HeldBlocks(d),
           Stack(d)' = <<b>> \o Stack(d),
           HeldBlocks(d)' = HeldBlocks(d) \ {b},
           NextPage(d)' = NextPage(d)
    PROVE  [Lifo!LifoNext]_(Lifo!lifoVars)
<1>1. Lifo!Push(d, b)
  BY DEF Lifo!Push, OthersAlike
<1>2. d \in Lifo!Classes
  BY DEF Lifo!Classes, Domains
<1>3. b \in [e \in Domains |-> HeldBlocks(e)][d]
  OBVIOUS
<1>. QED
  BY <1>1, <1>2, <1>3 DEF Lifo!LifoNext

\* What the classes look like at boot.
LEMMA LifoStarts ==
    ASSUME Init
    PROVE  Lifo!LifoInit
<1>1. Started = {} /\ live = {}
  BY DEF Started, Init
<1>2. \A d \in Domains : Stack(d) = <<>> /\ HeldBlocks(d) = {} /\ NextPage(d) = Base(d)
  BY <1>1 DEF Stack, HeldBlocks, NextPage, Held
<1>3. Lifo!Classes = Domains
  BY DEF Lifo!Classes, Domains
<1>. QED
  BY <1>2, <1>3 DEF Lifo!LifoInit, Base

\* The lists that a step leaves alone.
LEMMA ListsStay ==
    ASSUME ListsRead, ListsRead', NEW stk, NEW dep, Lists(stk, dep), NEW d,
           OtherLists(stk, dep, d)
    PROVE  \A e \in Domains : e # d => Stack(e)' = Stack(e)
<1>. SUFFICES ASSUME NEW e \in Domains, e # d PROVE Stack(e)' = Stack(e)
  OBVIOUS
<1>1. IsList(m, head[e], stk[e], dep[e]) /\ IsList(m', head'[e], stk[e], dep[e])
  BY DEF Lists, OtherLists, Heaps
<1>2. Stack(e) = Shown(stk[e], dep[e])
  BY <1>1 DEF ListsRead
<1>3. Stack(e)' = Shown(stk[e], dep[e])
  BY <1>1 DEF ListsRead
<1>. QED
  BY <1>2, <1>3

\* A step that leaves all size classes alone.
LEMMA QuietStep ==
    ASSUME ListsRead, ListsRead', NEW stk, NEW dep, Lists(stk, dep),
           OtherLists(stk, dep, Large), dir' = dir,
           \A e \in Domains : cursor'[e] = cursor[e] /\ Held(e)' = Held(e)
    PROVE  [Lifo!LifoNext]_(Lifo!lifoVars)
<1>1. Started' = Started
  BY DEF Started
<1>2. OthersAlike(Large)
  BY <1>1, ListsStay DEF OthersAlike, HeldBlocks, NextPage
<1>. QED
  BY <1>2, LifoStutters

\* A step that also leaves memory alone.
LEMMA StillStep ==
    ASSUME ListsRead, ListsRead', NEW stk, NEW dep, Lists(stk, dep),
           m' = m, dir' = dir,
           \A e \in Domains :
              head'[e] = head[e] /\ cursor'[e] = cursor[e] /\ Held(e)' = Held(e)
    PROVE  [Lifo!LifoNext]_(Lifo!lifoVars)
<1>1. OtherLists(stk, dep, Large)
  BY DEF OtherLists, Lists, Heaps
<1>. QED
  BY <1>1, QuietStep

\* init_heap_domain sets up an empty stack.
LEMMA InitLifo ==
    ASSUME Fits, NEW stk, NEW dep, NEW len, NEW use, NEW from,
           Inv(stk, dep, len, use, from), ListsRead, ListsRead', Sane, cpu' = "run",
           NEW h, h = op.heap, init_heap
    PROVE  [Lifo!LifoNext]_(Lifo!lifoVars)
<1>1. /\ Typed /\ BootOrder /\ Lists(stk, dep)
  BY DEF Inv
<1>2. op \in [kind : {"init"}, heap : Heaps] /\ op.kind = "init"
  BY <1>1, CallKinds DEF init_heap, Typed
<1>3. h \in Heaps /\ h \in Nat
  BY <1>2, HeapNumbers
<1>4. PICK f : f = NextKernelFrame(m.bitmap)
  OBVIOUS
<1>5. /\ dir' = [dir EXCEPT ![h] = f] /\ f # NoFrame
      /\ cursor' = [cursor EXCEPT ![h] = Base(h)] /\ live' = live
  BY <1>4 DEF init_heap, Stop
<1>6. h \notin Started
  <2>1. Started = 1 .. h - 1
    BY <1>1, <1>2 DEF BootOrder
  <2>. QED
    BY <1>3, <2>1
<1>7. OtherLists(stk, dep, Large)
  BY InitStep
<1>8. ASSUME NEW e \in Domains
      PROVE  NextPage(e)' = NextPage(e) /\ HeldBlocks(e)' = HeldBlocks(e)
  <2>1. e \in Heaps
    BY DEF Heaps
  <2>2. Held(e)' = Held(e)
    BY <1>5 DEF Held
  <2>3. CASE e = h
    <3>1. dir'[e] # 0 /\ cursor'[e] = Base(e)
      BY <1>1, <1>3, <1>5, <2>1, <2>3 DEF Typed, NoFrame
    <3>2. e \in Started'
      BY <2>1, <3>1 DEF Started
    <3>. QED
      BY <1>6, <2>2, <2>3, <3>1, <3>2 DEF NextPage, HeldBlocks
  <2>4. CASE e # h
    <3>1. dir'[e] = dir[e] /\ cursor'[e] = cursor[e]
      BY <1>1, <1>3, <1>5, <2>1, <2>4 DEF Typed
    <3>2. e \in Started' <=> e \in Started
      BY <3>1 DEF Started
    <3>. QED
      BY <2>2, <3>1, <3>2 DEF NextPage, HeldBlocks
  <2>. QED
    BY <2>3, <2>4
<1>9. OthersAlike(Large)
  BY <1>1, <1>7, <1>8, ListsStay DEF OthersAlike
<1>. QED
  BY <1>9, LifoStutters

\* heap_domain_alloc pops.
LEMMA FastLifo ==
    ASSUME Fits, NEW stk, NEW dep, NEW len, NEW use, NEW from,
           Inv(stk, dep, len, use, from), ListsRead, ListsRead', cpu' = "run",
           NEW size \in Sizes, NEW d, d = ClassOf(size), alloc_fast(size)
    PROVE  [Lifo!LifoNext]_(Lifo!lifoVars)
<1>1. /\ Typed /\ Lists(stk, dep) /\ Sound(m, dir, Started, Own(stk, dep))
  BY DEF Inv
<1>2. /\ d \in Domains /\ d \in Heaps /\ head[d] # NULL
      /\ head' = [head EXCEPT ![d] = Read(m, head[d])]
      /\ live' = live \cup {[ptr |-> head[d], size |-> size]}
      /\ m' = m /\ dir' = dir /\ cursor' = cursor
  BY DEF alloc_fast, Stop, Return, Heaps
<1>3. IsList(m, head[d], stk[d], dep[d]) /\ stk[d] \in [Nat -> Nat] /\ dep[d] \in Nat
  BY <1>1, <1>2 DEF Lists
<1>. DEFINE v == head[d]
            s == stk[d]
            n == dep[d]
<1>. HIDE DEF v, s, n
<1>4. IsList(m, v, s, n) /\ v # NULL /\ s \in [Nat -> Nat]
  BY <1>2, <1>3 DEF v, s, n
<1>5. Popped(m, v, s, n) /\ n \in Nat \ {0} /\ v = s[n]
  BY <1>4, ListPop DEF IsList
<1>6. Read(m, v) = WordAt(m, v)
  <2>1. v \in Owned(Started, Own(stk, dep))
    BY <1>2, <1>5, KnownWords DEF Popped, s, n
  <2>. QED
    BY <1>1, <2>1, OwnedAddress
<1>7. IsList(m', head'[d], s, n - 1)
  BY <1>1, <1>2, <1>5, <1>6 DEF Typed, Popped, v
<1>8. Stack(d) = Shown(s, n)
  BY <1>2, <1>4 DEF ListsRead, v
<1>9. Stack(d)' = Shown(s, n - 1)
  BY <1>2, <1>7 DEF ListsRead
<1>10. Stack(d) # <<>> /\ Head(Stack(d)) = v /\ Stack(d)' = Tail(Stack(d))
  BY <1>4, <1>5, <1>8, <1>9, ShownPop
<1>11. Started' = Started
  BY <1>2 DEF Started
<1>. DEFINE a == [ptr |-> v, size |-> size]
<1>12. a.ptr = v /\ a.size = size /\ live' = live \cup {a}
  BY <1>2 DEF v
<1>. HIDE DEF a
<1>13. HeldBlocks(d)' = HeldBlocks(d) \cup {v}
  BY <1>12 DEF HeldBlocks, Held
<1>14. OthersAlike(d)
  <2>1. OtherLists(stk, dep, d)
    BY <1>1, <1>2 DEF OtherLists, Lists, Typed, Heaps
  <2>2. \A e \in Domains : e # d => Held(e)' = Held(e)
    BY <1>12 DEF Held
  <2>3. \A e \in Domains : e # d => Stack(e)' = Stack(e)
    BY <1>1, <2>1, ListsStay
  <2>. QED
    BY <1>2, <1>11, <2>2, <2>3 DEF OthersAlike, HeldBlocks, NextPage
<1>15. NextPage(d)' = NextPage(d)
  BY <1>2, <1>11 DEF NextPage
<1>. QED
  BY <1>2, <1>10, <1>13, <1>14, <1>15, LifoPops

\* heap_domain_alloc grows an empty stack, or changes nothing.
LEMMA SlowLifo ==
    ASSUME Fits, NEW stk, NEW dep, NEW len, NEW use, NEW from,
           Inv(stk, dep, len, use, from), ListsRead, ListsRead', Sane', cpu' = "run",
           NEW size \in Sizes, NEW d, d = ClassOf(size), NEW virt, virt = cursor[d],
           alloc_slow(size)
    PROVE  [Lifo!LifoNext]_(Lifo!lifoVars)
<1>1. /\ Typed /\ Lists(stk, dep) /\ BootOrder
  BY DEF Inv
<1>2. CASE ProcessFrame = NoFrame
  <2>1. UNCHANGED vars
    BY <1>2 DEF alloc_slow, Stop
  <2>2. m' = m /\ dir' = dir /\ head' = head /\ cursor' = cursor /\ live' = live
    BY <2>1 DEF vars
  <2>3. \A e \in Domains :
           head'[e] = head[e] /\ cursor'[e] = cursor[e] /\ Held(e)' = Held(e)
    BY <2>2 DEF Held
  <2>. QED
    BY <1>1, <2>2, <2>3, StillStep
<1>3. CASE ProcessFrame # NoFrame
  <2>1. /\ d \in Domains /\ d \in Heaps /\ head[d] = NULL /\ op = Idle
        /\ cursor' = [cursor EXCEPT ![d] = virt + PageWords] /\ dir' = dir
        /\ live' = live \cup {[ptr |-> virt, size |-> size]}
    BY <1>3 DEF alloc_slow, Stop, Return, Heaps
  <2>2. Started = Heaps /\ Started' = Started
    BY <1>1, <2>1, CallKinds DEF BootOrder, Started, Typed
  <2>. DEFINE s == stk[d]
              K == BlocksPerPage(d)
              t == CutPage(stk[d], dep[d], virt, ClassSize[d], BlocksPerPage(d))
              N == dep[d] + BlocksPerPage(d)
  <2>3. NewList(stk, dep, d, t, N - 1)
    BY <1>3, SlowStep
  <2>4. IsList(m, head[d], s, dep[d]) /\ s \in [Nat -> Nat] /\ dep[d] \in Nat
    BY <1>1, <2>1 DEF Lists
  <2>5. dep[d] = 0
    <3>1. dep[d] # 0 => dep[d] \in 1 .. dep[d]
      BY <2>4
    <3>. QED
      BY <2>1, <2>4, <3>1 DEF IsList
  <2>6. virt \in Nat
    BY <1>1, <2>1 DEF Typed
  <2>7. /\ Lifo!PageBlocks(d, virt) \in Seq(Nat) /\ t \in [Nat -> Nat]
        /\ Shown(t, N) = Lifo!PageBlocks(d, virt) \o Shown(s, dep[d])
    <3>. DEFINE u == stk[d]
                k == dep[d]
    <3>. HIDE DEF u, k
    <3>1. d \in Domains /\ u \in [Nat -> Nat] /\ k \in Nat /\ virt \in Nat
      BY <2>1, <2>4, <2>6 DEF u, k
    <3>2. /\ Lifo!PageBlocks(d, virt) \in Seq(Nat)
          /\ Shown(CutPage(u, k, virt, ClassSize[d], BlocksPerPage(d)), k + BlocksPerPage(d))
                = Lifo!PageBlocks(d, virt) \o Shown(u, k)
          /\ CutPage(u, k, virt, ClassSize[d], BlocksPerPage(d)) \in [Nat -> Nat]
      BY ONLY <3>1, ShownCut
    <3>. QED
      BY <3>2 DEF u, k
  <2>8. N \in Nat \ {0}
    BY <2>1, <2>4, PageDivided
  <2>9. Stack(d) = Shown(s, dep[d])
    BY <2>1, <2>4 DEF ListsRead
  <2>10. Shown(s, dep[d]) = <<>>
    BY <2>5 DEF Shown
  <2>. HIDE DEF t, N, s
  <2>11. Stack(d)' = Shown(t, N - 1)
    <3>1. IsList(m', head'[d], t, N - 1)
      BY <2>3 DEF NewList
    <3>. QED
      BY <2>1, <3>1 DEF ListsRead
  <2>12. Tail(Shown(t, N)) = Shown(t, N - 1)
    BY <2>7, <2>8, ShownPop
  <2>13. Shown(t, N) = Lifo!PageBlocks(d, virt)
    <3>. DEFINE u == Lifo!PageBlocks(d, virt)
    <3>. HIDE DEF u
    <3>1. u \in Seq(Nat) /\ Shown(t, N) = u \o <<>>
      BY <2>7, <2>10 DEF u
    <3>2. Shown(t, N) = u
      BY <3>1, ConcatEmptySeq
    <3>. QED
      BY <3>2 DEF u
  <2>14. NextPage(d) = virt /\ NextPage(d)' = virt + PageWords
    BY <1>1, <2>1, <2>2 DEF NextPage, Typed
  <2>. DEFINE a == [ptr |-> virt, size |-> size]
  <2>15. a.ptr = virt /\ a.size = size /\ live' = live \cup {a}
    BY <2>1
  <2>. HIDE DEF a
  <2>16. HeldBlocks(d)' = HeldBlocks(d) \cup {virt}
    BY <2>15 DEF HeldBlocks, Held
  <2>17. OthersAlike(d)
    <3>1. \A e \in Domains : e # d => Held(e)' = Held(e) /\ cursor'[e] = cursor[e]
      BY <1>1, <2>1, <2>15 DEF Held, Typed, Heaps
    <3>2. \A e \in Domains : e # d => Stack(e)' = Stack(e)
      BY <1>1, <2>3, ListsStay DEF NewList
    <3>. QED
      BY <2>2, <3>1, <3>2 DEF OthersAlike, HeldBlocks, NextPage
  <2>18. Stack(d) = <<>>
    BY <2>9, <2>10
  <2>19. /\ Stack(d)' = Tail(Lifo!PageBlocks(d, NextPage(d)))
         /\ HeldBlocks(d)' = HeldBlocks(d) \cup {NextPage(d)}
         /\ NextPage(d)' = NextPage(d) + PageWords
    BY <2>11, <2>12, <2>13, <2>14, <2>16
  <2>. QED
    BY <2>1, <2>17, <2>18, <2>19, LifoGrows
<1>. QED
  BY <1>2, <1>3

\* A round of the pre-map loop stacks a page.
LEMMA PremapLifo ==
    ASSUME Fits, NEW stk, NEW dep, NEW len, NEW use, NEW from,
           Inv(stk, dep, len, use, from), ListsRead, ListsRead', Sane, Sane', cpu' = "run",
           NEW d, d = op.heap, NEW virt, virt = cursor[d], premap
    PROVE  [Lifo!LifoNext]_(Lifo!lifoVars)
<1>1. /\ Typed /\ Lists(stk, dep) /\ BootOrder
  BY DEF Inv
<1>2. CASE op.i = PremapPages
  <2>1. m' = m /\ dir' = dir /\ head' = head /\ cursor' = cursor /\ live' = live
    BY <1>2 DEF premap
  <2>2. \A e \in Domains :
           head'[e] = head[e] /\ cursor'[e] = cursor[e] /\ Held(e)' = Held(e)
    BY <2>1 DEF Held
  <2>. QED
    BY <1>1, <2>1, <2>2, StillStep
<1>3. CASE op.i # PremapPages
  <2>1. /\ cursor' = [cursor EXCEPT ![d] = virt + PageWords] /\ dir' = dir /\ live' = live
    BY <1>3 DEF premap, Stop
  <2>2. op \in [kind : {"premap"}, heap : Domains, i : 0 .. PremapPages]
    BY <1>1, CallKinds DEF premap, Typed
  <2>3. d \in Domains /\ d \in Heaps /\ d \in Nat
    BY <2>2, HeapNumbers DEF Heaps
  <2>4. d \in Started /\ Started' = Started
    <3>1. Started = 1 .. d
      BY <1>1 DEF BootOrder, premap
    <3>. QED
      BY <2>1, <2>3, <3>1, HeapNumbers DEF Started
  <2>. DEFINE s == stk[d]
              n == dep[d]
              t == CutPage(stk[d], dep[d], virt, ClassSize[d], BlocksPerPage(d))
              N == dep[d] + BlocksPerPage(d)
  <2>5. NewList(stk, dep, d, t, N)
    BY <1>3, PremapStep
  <2>6. IsList(m, head[d], s, n) /\ s \in [Nat -> Nat] /\ n \in Nat
    BY <1>1, <2>3 DEF Lists
  <2>7. virt \in Nat
    BY <1>1, <2>3 DEF Typed
  <2>8. Shown(t, N) = Lifo!PageBlocks(d, virt) \o Shown(s, n)
    <3>. DEFINE u == stk[d]
                k == dep[d]
    <3>. HIDE DEF u, k
    <3>1. d \in Domains /\ u \in [Nat -> Nat] /\ k \in Nat /\ virt \in Nat
      BY <2>3, <2>6, <2>7 DEF u, k
    <3>2. Shown(CutPage(u, k, virt, ClassSize[d], BlocksPerPage(d)), k + BlocksPerPage(d))
             = Lifo!PageBlocks(d, virt) \o Shown(u, k)
      BY ONLY <3>1, ShownCut
    <3>. QED
      BY <3>2 DEF u, k
  <2>9. Stack(d) = Shown(s, n)
    BY <2>3, <2>6 DEF ListsRead
  <2>. HIDE DEF t, N, s, n
  <2>10. Stack(d)' = Shown(t, N)
    <3>1. IsList(m', head'[d], t, N)
      BY <2>5 DEF NewList
    <3>. QED
      BY <2>3, <3>1 DEF ListsRead
  <2>11. NextPage(d) = virt /\ NextPage(d)' = virt + PageWords
    BY <1>1, <2>1, <2>3, <2>4 DEF NextPage, Typed
  <2>12. \A e \in Domains : HeldBlocks(e)' = HeldBlocks(e)
    BY <2>1 DEF HeldBlocks, Held
  <2>13. OthersAlike(d)
    <3>1. \A e \in Domains : e # d => cursor'[e] = cursor[e]
      BY <1>1, <2>1 DEF Typed, Heaps
    <3>2. \A e \in Domains : e # d => Stack(e)' = Stack(e)
      BY <1>1, <2>5, ListsStay DEF NewList
    <3>. QED
      BY <2>4, <2>12, <3>1, <3>2 DEF OthersAlike, NextPage
  <2>14. /\ Stack(d)' = Lifo!PageBlocks(d, NextPage(d)) \o Stack(d)
         /\ HeldBlocks(d)' = HeldBlocks(d)
         /\ NextPage(d)' = NextPage(d) + PageWords
    BY <2>3, <2>8, <2>9, <2>10, <2>11, <2>12
  <2>. QED
    BY <2>3, <2>13, <2>14, LifoPremaps
<1>. QED
  BY <1>2, <1>3

\* heap_domain_free pushes.
LEMMA FreeLifo ==
    ASSUME Fits, NEW stk, NEW dep, NEW len, NEW use, NEW from,
           Inv(stk, dep, len, use, from), ListsRead, ListsRead', cpu' = "run",
           NEW a \in live, NEW d, d = ClassOf(a.size), free_small(a)
    PROVE  [Lifo!LifoNext]_(Lifo!lifoVars)
<1>1. /\ Typed /\ Lists(stk, dep) /\ BlocksSplit(stk, dep)
  BY DEF Inv
<1>2. Route(a.ptr) = d
  BY RouteOfHeld
<1>3. d \in Domains /\ d \in Heaps /\ live' = live \ {a} /\ dir' = dir /\ cursor' = cursor
  BY <1>2 DEF free_small, Stop, Heaps
<1>4. Started' = Started
  BY <1>3 DEF Started
<1>. DEFINE x == a.ptr
            s == stk[d]
            n == dep[d]
            t == Pushed(stk[d], dep[d], a.ptr)
<1>5. NewList(stk, dep, d, t, n + 1)
  BY FreeStep
<1>6. IsList(m, head[d], s, n) /\ s \in [Nat -> Nat] /\ n \in Nat /\ x \in Nat
  BY <1>1, <1>3 DEF Lists, Typed
<1>7. Shown(t, n + 1) = <<x>> \o Shown(s, n)
  BY <1>6, ShownPush
<1>8. Stack(d) = Shown(s, n)
  BY <1>3, <1>6 DEF ListsRead
<1>9. x \in HeldBlocks(d)
  BY DEF HeldBlocks, Held
<1>10. HeldBlocks(d)' = HeldBlocks(d) \ {x}
  BY <1>1, <1>3 DEF HeldBlocks, Held, BlocksSplit
<1>. HIDE DEF t, n, s, x
<1>11. Stack(d)' = Shown(t, n + 1)
  <2>1. IsList(m', head'[d], t, n + 1)
    BY <1>5 DEF NewList
  <2>. QED
    BY <1>3, <2>1 DEF ListsRead
<1>12. Stack(d)' = <<x>> \o Stack(d)
  BY <1>7, <1>8, <1>11
<1>13. OthersAlike(d)
  <2>1. \A e \in Domains : e # d => Held(e)' = Held(e)
    BY <1>3 DEF Held
  <2>2. \A e \in Domains : e # d => Stack(e)' = Stack(e)
    BY <1>1, <1>5, ListsStay DEF NewList
  <2>. QED
    BY <1>3, <1>4, <2>1, <2>2 DEF OthersAlike, HeldBlocks, NextPage
<1>14. NextPage(d)' = NextPage(d)
  BY <1>3, <1>4 DEF NextPage
<1>. QED
  BY <1>3, <1>9, <1>10, <1>12, <1>13, <1>14, LifoPushes

\* Every step of the heap is a step of the stacks or leaves them alone.
LEMMA LifoStep ==
    ASSUME Fits, IInv, IInv', ListsRead, ListsRead', Sane, Sane', [Next]_vars
    PROVE  [Lifo!LifoNext]_(Lifo!lifoVars)
<1>1. PICK stk, dep, len, use, from : Inv(stk, dep, len, use, from)
  BY DEF IInv
<1>2. /\ Typed /\ Lists(stk, dep) /\ CallUses(use) /\ cpu = "run"
  BY <1>1 DEF Inv, Typed
<1>3. cpu' = "run"
  BY DEF IInv, Inv, Typed
<1>4. \A d \in Domains : d \in Heaps /\ d # Large
  BY HeapNumbers DEF Heaps
<1>5. CASE UNCHANGED vars
  <2>1. m' = m /\ dir' = dir /\ head' = head /\ cursor' = cursor /\ live' = live
    BY <1>5 DEF vars
  <2>2. \A e \in Domains :
           head'[e] = head[e] /\ cursor'[e] = cursor[e] /\ Held(e)' = Held(e)
    BY <2>1 DEF Held
  <2>. QED
    BY <1>2, <2>1, <2>2, StillStep
<1>6. CASE init_heap
  <2>1. PICK h : h = op.heap
    OBVIOUS
  <2>. QED
    BY <1>1, <1>3, <1>6, <2>1, InitLifo
<1>7. CASE premap
  <2>1. PICK d : d = op.heap
    OBVIOUS
  <2>2. PICK v : v = cursor[d]
    OBVIOUS
  <2>. QED
    BY <1>1, <1>3, <1>7, <2>1, <2>2, PremapLifo
<1>8. CASE large_map
  <2>1. PICK s, i, n, z : s = op.start /\ i = op.i /\ n = op.pages /\ z = op.size
    OBVIOUS
  <2>2. dir' = dir /\ head' = head /\ cursor' = cursor /\ live' = live
    BY <1>2, <1>3, <1>8 DEF large_map, Stop
  <2>3. \A e \in Domains :
           head'[e] = head[e] /\ cursor'[e] = cursor[e] /\ Held(e)' = Held(e)
    BY <2>2 DEF Held
  <2>4. CASE ProcessFrame = NoFrame
    <3>1. m' = m
      BY <1>3, <1>8, <2>4 DEF large_map, Stop
    <3>. QED
      BY <1>2, <2>2, <2>3, <3>1, StillStep
  <2>5. CASE ProcessFrame # NoFrame
    <3>1. OtherLists(stk, dep, Large)
      BY <1>1, <1>8, <2>1, <2>5, MapGrows
    <3>. QED
      BY <1>2, <2>2, <2>3, <3>1, QuietStep
  <2>. QED
    BY <2>4, <2>5
<1>9. CASE large_return
  <2>1. PICK s, n, z : s = op.start /\ n = op.pages /\ z = op.size
    OBVIOUS
  <2>2. /\ dir' = dir /\ head' = head /\ cursor' = cursor
        /\ live' = live \cup {[ptr |-> s + 1, size |-> z]} /\ ClassOf(z) = Large
    BY <1>2, <1>3, <1>9, <2>1 DEF large_return, Stop, Return, CallUses
  <2>. DEFINE a == [ptr |-> s + 1, size |-> z]
  <2>3. a.size = z /\ live' = live \cup {a}
    BY <2>2
  <2>. HIDE DEF a
  <2>4. \A e \in Domains :
           head'[e] = head[e] /\ cursor'[e] = cursor[e] /\ Held(e)' = Held(e)
    BY <1>4, <2>2, <2>3 DEF Held
  <2>5. OtherLists(stk, dep, Large)
    BY <1>1, <1>9, <2>1, ReturnStep
  <2>. QED
    BY <1>2, <2>2, <2>4, <2>5, QuietStep
<1>10. CASE large_unmap
  <2>1. PICK s, i, n : s = op.start /\ i = op.i /\ n = op.pages
    OBVIOUS
  <2>2. dir' = dir /\ head' = head /\ cursor' = cursor /\ live' = live
    BY <1>10 DEF large_unmap
  <2>3. \A e \in Domains :
           head'[e] = head[e] /\ cursor'[e] = cursor[e] /\ Held(e)' = Held(e)
    BY <2>2 DEF Held
  <2>4. OtherLists(stk, dep, Large)
    BY <1>1, <1>10, <2>1, UnmapStep
  <2>. QED
    BY <1>2, <2>2, <2>3, <2>4, QuietStep
<1>11. CASE large_free_return
  <2>1. PICK s, n : s = op.start /\ n = op.pages
    OBVIOUS
  <2>2. /\ dir' = dir /\ head' = [head EXCEPT ![Large] = op.start]
        /\ cursor' = cursor /\ live' = live
    BY <1>2, <1>3, <1>11 DEF large_free_return, Stop
  <2>3. \A e \in Domains :
           head'[e] = head[e] /\ cursor'[e] = cursor[e] /\ Held(e)' = Held(e)
    BY <1>2, <1>4, <2>2 DEF Held, Typed
  <2>4. OtherLists(stk, dep, Large)
    BY <1>1, <1>11, <2>1, FreeReturns
  <2>. QED
    BY <1>2, <2>2, <2>3, <2>4, QuietStep
<1>12. CASE user_fill
  <2>1. PICK a : a = op.of
    OBVIOUS
  <2>2. dir' = dir /\ head' = head /\ cursor' = cursor /\ live' = live
    BY <1>2, <1>3, <1>12 DEF user_fill, Stop
  <2>3. \A e \in Domains :
           head'[e] = head[e] /\ cursor'[e] = cursor[e] /\ Held(e)' = Held(e)
    BY <2>2 DEF Held
  <2>4. OtherLists(stk, dep, Large)
    BY <1>1, <1>12, <2>1, FillStep
  <2>. QED
    BY <1>2, <2>2, <2>3, <2>4, QuietStep
<1>13. ASSUME NEW size \in Sizes, alloc_fast(size)
       PROVE  [Lifo!LifoNext]_(Lifo!lifoVars)
  <2>1. PICK d : d = ClassOf(size)
    OBVIOUS
  <2>. QED
    BY <1>1, <1>3, <1>13, <2>1, FastLifo
<1>14. ASSUME NEW size \in Sizes, alloc_slow(size)
       PROVE  [Lifo!LifoNext]_(Lifo!lifoVars)
  <2>1. PICK d, v : d = ClassOf(size) /\ v = cursor[d]
    OBVIOUS
  <2>. QED
    BY <1>1, <1>3, <1>14, <2>1, SlowLifo
<1>15. ASSUME NEW size \in Sizes, large_begin(size)
       PROVE  [Lifo!LifoNext]_(Lifo!lifoVars)
  <2>1. PICK slot : slot = head[Large]
    OBVIOUS
  <2>. DEFINE reuse == SlotFits(head[Large], PagesFor(size))
  <2>2. /\ dir' = dir /\ live' = live
        /\ m' = IF reuse THEN UnmapPage(m, dir[Large], head[Large]) ELSE m
        /\ head' = IF reuse THEN [head EXCEPT ![Large] = Read(m, head[Large])] ELSE head
        /\ cursor' = IF reuse THEN cursor
                     ELSE [cursor EXCEPT ![Large] = AfterPages(@, PagesFor(size))]
    BY <1>2, <1>3, <1>15 DEF large_begin, Stop
  <2>3. \A e \in Domains :
           head'[e] = head[e] /\ cursor'[e] = cursor[e] /\ Held(e)' = Held(e)
    <3>. HIDE DEF reuse
    <3>. QED
      BY <1>2, <1>4, <2>2 DEF Held, Typed
  <2>4. CASE reuse
    <3>1. OtherLists(stk, dep, Large)
      BY <1>1, <1>15, <2>1, <2>4, BeginReuse
    <3>. QED
      BY <1>2, <2>2, <2>3, <3>1, QuietStep
  <2>5. CASE ~reuse
    <3>1. m' = m
      BY <2>2, <2>5
    <3>. QED
      BY <1>2, <2>2, <2>3, <3>1, StillStep
  <2>. QED
    BY <2>4, <2>5
<1>16. ASSUME NEW a \in live, free_small(a)
       PROVE  [Lifo!LifoNext]_(Lifo!lifoVars)
  <2>1. PICK d : d = ClassOf(a.size)
    OBVIOUS
  <2>. QED
    BY <1>1, <1>3, <1>16, <2>1, FreeLifo
<1>17. ASSUME NEW a \in live, large_free_begin(a)
       PROVE  [Lifo!LifoNext]_(Lifo!lifoVars)
  <2>1. /\ m' = m /\ dir' = dir /\ head' = head /\ cursor' = cursor
        /\ live' = live \ {a} /\ Route(a.ptr) = Large
    BY <1>2, <1>3, <1>17 DEF large_free_begin, Stop
  <2>2. ClassOf(a.size) = Large
    BY <1>1, <2>1, RouteOfHeld
  <2>3. \A e \in Domains :
           head'[e] = head[e] /\ cursor'[e] = cursor[e] /\ Held(e)' = Held(e)
    BY <1>4, <2>1, <2>2 DEF Held
  <2>. QED
    BY <1>2, <2>1, <2>3, StillStep
<1>. QED
  BY <1>5, <1>6, <1>7, <1>8, <1>9, <1>10, <1>11, <1>12, <1>13, <1>14, <1>15, <1>16, <1>17
     DEF Next, Step

\* "This is a LIFO free list. The most recently freed block is the next to be
\* allocated": while every table has a frame and callers hold what a region holds,
\* every step of kmalloc_heap, kfree_heap and the boot code, page tables,
\* links and large domain included, is a push, a pop or a page of the stacks
\* of LifoHeap, or leaves them alone.
THEOREM StacksAsPromised ==
    ASSUME Fits
    PROVE  Spec /\ []Supplied => LifoPromise
<1>1. Spec /\ []Supplied => [](IInv /\ Sane)
  BY HeapInvariant
<1>2. IInv => ListsRead
  BY InvListsRead
<1>3. IInv /\ IInv' /\ ListsRead /\ ListsRead' /\ Sane /\ Sane' /\ [Next]_vars
         => [Lifo!LifoNext]_(Lifo!lifoVars)
  BY LifoStep
<1>4. Init => Lifo!LifoInit
  BY LifoStarts
<1>. QED
  BY <1>1, <1>2, <1>3, <1>4, PTL DEF Spec, LifoPromise, Lifo!LifoSpec
-----------------------------------------------------------------------------
(* Programs with a note at every place: R relates the note before an       *)
(* instruction to the one after it.                                        *)

Argv   == Var("argv")
Buffer == Var("buffer")

Instructions ==
    [do : {"alloc"}, var : Vars, size : Sizes, onNull : {"fault", "report", "ignore"}]
    \cup [do : {"free"}, var : Vars]
    \cup [do : {"verify"}, vars : SUBSET Vars, stops : BOOLEAN]
    \cup [do : {"above"}, var : Vars, than : Vars]

Runs(R, prog, a, z) ==
    /\ prog \in Seq(Instructions)
    /\ \E n : /\ n[0] = a /\ n[Len(prog)] = z
              /\ \A k \in 1 .. Len(prog) : <<n[k - 1], prog[k], n[k]>> \in R

\* A program without instructions leaves the note as it is.
LEMMA RunsNone ==
    ASSUME NEW R, NEW a
    PROVE  Runs(R, <<>>, a, a)
<1>. DEFINE n == [k \in {0} |-> a]
<1>1. n[0] = a /\ Len(<<>>) = 0 /\ <<>> \in Seq(Instructions)
  OBVIOUS
<1>2. n[Len(<<>>)] = a /\ \A k \in 1 .. Len(<<>>) : <<n[k - 1], <<>>[k], n[k]>> \in R
  BY <1>1
<1>. QED
  BY <1>1, <1>2 DEF Runs

\* A program of one instruction takes the step of that instruction.
LEMMA RunsOne ==
    ASSUME NEW R, NEW a, NEW b, NEW i \in Instructions, <<a, i, b>> \in R
    PROVE  Runs(R, <<i>>, a, b)
<1>. DEFINE n == [k \in {0, 1} |-> IF k = 0 THEN a ELSE b]
<1>1. n[0] = a /\ n[1] = b /\ Len(<<i>>) = 1 /\ <<i>> \in Seq(Instructions) /\ <<i>>[1] = i
  OBVIOUS
<1>. HIDE DEF n
<1>2. \A k \in 1 .. 1 : k = 1 /\ k - 1 = 0
  OBVIOUS
<1>3. \A k \in 1 .. Len(<<i>>) : <<n[k - 1], <<i>>[k], n[k]>> \in R
  BY <1>1, <1>2
<1>. QED
  BY <1>1, <1>3 DEF Runs

\* One program after another.
LEMMA RunsJoin ==
    ASSUME NEW R, NEW a, NEW b, NEW z, NEW p, NEW q, Runs(R, p, a, b), Runs(R, q, b, z)
    PROVE  Runs(R, p \o q, a, z)
<1>1. PICK n : /\ n[0] = a /\ n[Len(p)] = b
               /\ \A k \in 1 .. Len(p) : <<n[k - 1], p[k], n[k]>> \in R
  BY DEF Runs
<1>2. PICK l : /\ l[0] = b /\ l[Len(q)] = z
               /\ \A k \in 1 .. Len(q) : <<l[k - 1], q[k], l[k]>> \in R
  BY DEF Runs
<1>3. /\ p \in Seq(Instructions) /\ q \in Seq(Instructions) /\ p \o q \in Seq(Instructions)
      /\ Len(p) \in Nat /\ Len(q) \in Nat /\ Len(p \o q) = Len(p) + Len(q)
      /\ \A k \in 1 .. Len(p) + Len(q) :
            (p \o q)[k] = IF k <= Len(p) THEN p[k] ELSE q[k - Len(p)]
  BY DEF Runs
<1>. DEFINE j == [k \in 0 .. Len(p) + Len(q) |-> IF k <= Len(p) THEN n[k] ELSE l[k - Len(p)]]
<1>4. /\ \A k \in 0 .. Len(p) : j[k] = n[k]
      /\ \A k \in Len(p) + 1 .. Len(p) + Len(q) : j[k] = l[k - Len(p)]
  BY <1>3
<1>5. j[Len(p)] = l[0]
  BY <1>1, <1>2, <1>3, <1>4
<1>. HIDE DEF j
<1>6. j[0] = a /\ j[Len(p) + Len(q)] = z
  <2>1. j[0] = n[0]
    BY <1>3, <1>4
  <2>2. CASE Len(q) = 0
    <3>1. Len(p) + Len(q) = Len(p)
      BY <1>3, <2>2
    <3>. QED
      BY <1>1, <1>2, <1>5, <2>1, <2>2, <3>1
  <2>3. CASE Len(q) # 0
    <3>1. j[Len(p) + Len(q)] = l[(Len(p) + Len(q)) - Len(p)]
      BY <1>3, <1>4, <2>3
    <3>2. (Len(p) + Len(q)) - Len(p) = Len(q)
      BY <1>3
    <3>. QED
      BY <1>1, <1>2, <2>1, <3>1, <3>2
  <2>. QED
    BY <1>1, <2>1, <2>2, <2>3
<1>7. ASSUME NEW k \in 1 .. Len(p) + Len(q)
      PROVE  <<j[k - 1], (p \o q)[k], j[k]>> \in R
  <2>1. CASE k <= Len(p)
    <3>1. j[k - 1] = n[k - 1] /\ j[k] = n[k] /\ (p \o q)[k] = p[k] /\ k \in 1 .. Len(p)
      BY <1>3, <1>4, <2>1
    <3>. QED
      BY <1>1, <3>1
  <2>2. CASE k > Len(p)
    <3>1. PICK x : x = k - Len(p)
      OBVIOUS
    <3>2. x \in 1 .. Len(q) /\ (p \o q)[k] = q[x] /\ j[k] = l[x]
      BY <1>3, <1>4, <2>2, <3>1
    <3>3. j[k - 1] = l[x - 1]
      <4>1. CASE x = 1
        <5>1. k - 1 = Len(p) /\ x - 1 = 0
          BY <1>3, <3>1, <4>1
        <5>. QED
          BY <1>5, <5>1
      <4>2. CASE x # 1
        <5>1. k - 1 \in Len(p) + 1 .. Len(p) + Len(q) /\ (k - 1) - Len(p) = x - 1
          BY <1>3, <3>1, <3>2, <4>2
        <5>. QED
          BY <1>4, <5>1
      <4>. QED
        BY <4>1, <4>2
    <3>. QED
      BY <1>2, <3>2, <3>3
  <2>3. k <= Len(p) \/ k > Len(p)
    <3>1. k \in Int /\ Len(p) \in Int
      BY <1>3
    <3>. QED
      BY <3>1
  <2>. QED
    BY <2>1, <2>2, <2>3
<1>. QED
  BY <1>3, <1>6, <1>7 DEF Runs

\* A program takes the step of its first instruction, and the rest is a program.
LEMMA RunsTail ==
    ASSUME NEW R, NEW a, NEW z, NEW p, Runs(R, p, a, z), p # <<>>
    PROVE  /\ Head(p) \in Instructions
           /\ \E b : <<a, Head(p), b>> \in R /\ Runs(R, Tail(p), b, z)
<1>1. PICK n : /\ n[0] = a /\ n[Len(p)] = z
               /\ \A k \in 1 .. Len(p) : <<n[k - 1], p[k], n[k]>> \in R
  BY DEF Runs
<1>2. /\ p \in Seq(Instructions) /\ Tail(p) \in Seq(Instructions) /\ Len(p) \in Nat \ {0}
      /\ Head(p) \in Instructions /\ Head(p) = p[1] /\ Len(Tail(p)) = Len(p) - 1
      /\ \A k \in 1 .. Len(p) - 1 : Tail(p)[k] = p[k + 1]
  BY DEF Runs
<1>. DEFINE l == [k \in 0 .. Len(p) - 1 |-> n[k + 1]]
<1>3. \A k \in 0 .. Len(p) - 1 : l[k] = n[k + 1]
  BY <1>2
<1>. HIDE DEF l
<1>4. <<a, Head(p), l[0]>> \in R
  <2>1. 1 \in 1 .. Len(p) /\ 1 - 1 = 0 /\ 0 \in 0 .. Len(p) - 1 /\ 0 + 1 = 1
    BY <1>2
  <2>. QED
    BY <1>1, <1>2, <1>3, <2>1
<1>5. l[Len(Tail(p))] = z
  <2>1. Len(p) - 1 \in 0 .. Len(p) - 1 /\ (Len(p) - 1) + 1 = Len(p)
    BY <1>2
  <2>. QED
    BY <1>1, <1>2, <1>3, <2>1
<1>6. ASSUME NEW k \in 1 .. Len(Tail(p))
      PROVE  <<l[k - 1], Tail(p)[k], l[k]>> \in R
  <2>1. /\ k \in 1 .. Len(p) - 1 /\ k - 1 \in 0 .. Len(p) - 1 /\ k \in 0 .. Len(p) - 1
        /\ (k - 1) + 1 = k /\ k + 1 \in 1 .. Len(p) /\ (k + 1) - 1 = k
    BY <1>2
  <2>2. <<n[(k + 1) - 1], p[k + 1], n[k + 1]>> \in R
    BY <1>1, <2>1
  <2>. QED
    BY <1>2, <1>3, <2>1, <2>2
<1>7. Runs(R, Tail(p), l[0], z)
  BY <1>2, <1>5, <1>6 DEF Runs
<1>. QED
  BY <1>2, <1>4, <1>7
-----------------------------------------------------------------------------
(* Which variables a command may hold memory in, from place to place.      *)

\* The instruction takes memory for a variable that lets its memory go for good:
\* argv of a refused command, or the buffer of diskR.
Tracked(i) ==
    /\ i.var \in {Argv, Buffer} => i.onNull = "fault"
    /\ i.var = Argv => i.size = SizeOf["argv"]
    /\ i.var = Buffer => i.size # SizeOf["argv"]

OwnRule ==
    {t \in (SUBSET Vars) \X Instructions \X (SUBSET Vars) :
        \/ /\ t[2].do = "alloc" /\ t[2].var \notin t[1] /\ Tracked(t[2])
           /\ t[3] = t[1] \cup {t[2].var}
        \/ /\ t[2].do = "free" /\ t[2].var # Buffer
           /\ t[3] = t[1] \ {t[2].var}
        \/ /\ t[2].do \in {"verify", "above"} /\ t[3] = t[1]}

\* The instructions of the model are instructions.
LEMMA Instr ==
    /\ \A v \in Vars : \A s \in Sizes : \A n \in {"fault", "report", "ignore"} :
          /\ Alloc(v, s, n) \in Instructions /\ Alloc(v, s, n).do = "alloc"
          /\ Alloc(v, s, n).var = v /\ Alloc(v, s, n).size = s /\ Alloc(v, s, n).onNull = n
    /\ \A v \in Vars :
          Free(v) \in Instructions /\ Free(v).do = "free" /\ Free(v).var = v
    /\ \A vs \in SUBSET Vars : \A b \in BOOLEAN :
          Verify(vs, b) \in Instructions /\ Verify(vs, b).do = "verify"
    /\ \A v, w \in Vars : Above(v, w) \in Instructions /\ Above(v, w).do = "above"
BY DEF Instructions, Alloc, Free, Verify, Above

\* The names and the sizes of the model.
LEMMA Names ==
    /\ ToSet(TableNames) = {"s64", "s128", "s256", "s512", "s1024"}
    /\ \A n \in DOMAIN SizeOf : SizeOf[n] \in Sizes /\ Var(n) \in Vars
    /\ Buffer \in Vars /\ ReadSizes \subseteq Sizes
    /\ \A n \in {"s64", "s128", "s256", "s512", "s1024", "table", "sample", "argv",
                 "buf64k", "buf1m", "tbuf", "tbuf8", "tbig"} : n \in DOMAIN SizeOf
    /\ \A n \in ToSet(TableNames) : \A i \in 1 .. FragN : Block(n, i) \in Vars
<1>1. ToSet(TableNames) = {"s64", "s128", "s256", "s512", "s1024"}
  BY DEF ToSet, TableNames
<1>. QED
  BY <1>1, ClientsAssumption DEF Range, Vars, Buffer

\* A variable that holds nothing is given memory.
LEMMA OwnAlloc ==
    ASSUME NEW a \in SUBSET Vars, NEW v \in Vars, v \notin a, NEW s \in Sizes,
           NEW n \in {"fault", "report", "ignore"}, Tracked(Alloc(v, s, n))
    PROVE  Runs(OwnRule, <<Alloc(v, s, n)>>, a, a \cup {v})
<1>1. <<a, Alloc(v, s, n), a \cup {v}>> \in OwnRule
  BY Instr DEF OwnRule
<1>. QED
  BY <1>1, Instr, RunsOne

\* A variable is freed.
LEMMA OwnFree ==
    ASSUME NEW a \in SUBSET Vars, NEW v \in Vars, v # Buffer
    PROVE  Runs(OwnRule, <<Free(v)>>, a, a \ {v})
<1>1. <<a, Free(v), a \ {v}>> \in OwnRule
  BY Instr DEF OwnRule
<1>. QED
  BY <1>1, Instr, RunsOne

\* A check of values.
LEMMA OwnVerify ==
    ASSUME NEW a \in SUBSET Vars, NEW vs \in SUBSET Vars, NEW b \in BOOLEAN
    PROVE  Runs(OwnRule, <<Verify(vs, b)>>, a, a)
<1>1. <<a, Verify(vs, b), a>> \in OwnRule
  BY Instr DEF OwnRule
<1>. QED
  BY <1>1, Instr, RunsOne

\* A check of addresses.
LEMMA OwnAbove ==
    ASSUME NEW a \in SUBSET Vars, NEW v \in Vars, NEW w \in Vars
    PROVE  Runs(OwnRule, <<Above(v, w)>>, a, a)
<1>1. <<a, Above(v, w), a>> \in OwnRule
  BY Instr DEF OwnRule
<1>. QED
  BY <1>1, Instr, RunsOne

\* A loop of allocations, each into a variable of its own.
LEMMA OwnAllocs ==
    ASSUME NEW a \in SUBSET Vars, NEW p \in Seq(Instructions),
           \A k \in 1 .. Len(p) : /\ p[k].do = "alloc" /\ p[k].var \notin a
                                  /\ p[k].var \notin {Argv, Buffer} /\ p[k].var \in Vars,
           \A j, k \in 1 .. Len(p) : p[j].var = p[k].var => j = k
    PROVE  Runs(OwnRule, p, a, a \cup {p[k].var : k \in 1 .. Len(p)})
<1>. DEFINE n == [k \in 0 .. Len(p) |-> a \cup {p[j].var : j \in 1 .. k}]
<1>1. Len(p) \in Nat /\ \A k \in 1 .. Len(p) : p[k] \in Instructions
  OBVIOUS
<1>2. \A k \in 0 .. Len(p) : n[k] = a \cup {p[j].var : j \in 1 .. k}
  OBVIOUS
<1>. HIDE DEF n
<1>3. n[0] = a
  <2>1. 0 \in 0 .. Len(p) /\ 1 .. 0 = {}
    BY <1>1
  <2>2. n[0] = a \cup {p[j].var : j \in 1 .. 0}
    BY <1>2, <2>1
  <2>3. {p[j].var : j \in 1 .. 0} = {}
    BY <2>1
  <2>. QED
    BY <2>2, <2>3
<1>4. ASSUME NEW k \in 1 .. Len(p)
      PROVE  <<n[k - 1], p[k], n[k]>> \in OwnRule
  <2>1. k - 1 \in 0 .. Len(p) /\ k \in 0 .. Len(p) /\ 1 .. k = (1 .. k - 1) \cup {k}
    BY <1>1
  <2>2. n[k] = n[k - 1] \cup {p[k].var}
    BY <1>2, <2>1
  <2>3. p[k].var \notin n[k - 1]
    <3>1. \A j \in 1 .. k - 1 : j \in 1 .. Len(p) /\ j # k
      BY <1>1
    <3>. QED
      BY <1>2, <2>1, <3>1
  <2>4. n[k - 1] \in SUBSET Vars /\ n[k] \in SUBSET Vars
    <3>1. \A j \in 1 .. k : j \in 1 .. Len(p)
      BY <1>1
    <3>. QED
      BY <1>2, <2>1, <3>1
  <2>. QED
    BY <1>1, <2>2, <2>3, <2>4 DEF OwnRule, Tracked
<1>5. n[Len(p)] = a \cup {p[k].var : k \in 1 .. Len(p)}
  <2>1. Len(p) \in 0 .. Len(p)
    BY <1>1
  <2>. QED
    BY <1>2, <2>1
<1>. QED
  BY <1>3, <1>4, <1>5 DEF Runs

\* A loop of frees.
LEMMA OwnFrees ==
    ASSUME NEW a \in SUBSET Vars, NEW p \in Seq(Instructions),
           \A k \in 1 .. Len(p) : p[k].do = "free" /\ p[k].var # Buffer
    PROVE  Runs(OwnRule, p, a, a \ {p[k].var : k \in 1 .. Len(p)})
<1>. DEFINE n == [k \in 0 .. Len(p) |-> a \ {p[j].var : j \in 1 .. k}]
<1>1. Len(p) \in Nat /\ \A k \in 1 .. Len(p) : p[k] \in Instructions
  OBVIOUS
<1>2. \A k \in 0 .. Len(p) : n[k] = a \ {p[j].var : j \in 1 .. k}
  OBVIOUS
<1>. HIDE DEF n
<1>3. n[0] = a
  <2>1. 0 \in 0 .. Len(p) /\ 1 .. 0 = {}
    BY <1>1
  <2>2. n[0] = a \ {p[j].var : j \in 1 .. 0}
    BY <1>2, <2>1
  <2>3. {p[j].var : j \in 1 .. 0} = {}
    BY <2>1
  <2>. QED
    BY <2>2, <2>3
<1>4. ASSUME NEW k \in 1 .. Len(p)
      PROVE  <<n[k - 1], p[k], n[k]>> \in OwnRule
  <2>1. k - 1 \in 0 .. Len(p) /\ k \in 0 .. Len(p) /\ 1 .. k = (1 .. k - 1) \cup {k}
    BY <1>1
  <2>2. n[k] = n[k - 1] \ {p[k].var}
    BY <1>2, <2>1
  <2>3. n[k - 1] \in SUBSET Vars /\ n[k] \in SUBSET Vars
    BY <1>2, <2>1
  <2>. QED
    BY <1>1, <2>2, <2>3 DEF OwnRule
<1>5. n[Len(p)] = a \ {p[k].var : k \in 1 .. Len(p)}
  <2>1. Len(p) \in 0 .. Len(p)
    BY <1>1
  <2>. QED
    BY <1>2, <2>1
<1>. QED
  BY <1>3, <1>4, <1>5 DEF Runs

\* A program of two instructions.
LEMMA RunsTwo ==
    ASSUME NEW R, NEW a, NEW b, NEW z, NEW i \in Instructions, NEW j \in Instructions,
           <<a, i, b>> \in R, <<b, j, z>> \in R
    PROVE  Runs(R, <<i, j>>, a, z)
<1>. DEFINE n == [k \in 0 .. 2 |-> IF k = 0 THEN a ELSE IF k = 1 THEN b ELSE z]
            p == <<i, j>>
<1>1. n[0] = a /\ n[1] = b /\ n[2] = z
  OBVIOUS
<1>2. p \in Seq(Instructions) /\ Len(p) = 2 /\ p[1] = i /\ p[2] = j
  OBVIOUS
<1>. HIDE DEF n, p
<1>3. \A k \in 1 .. 2 : (k = 1 /\ k - 1 = 0) \/ (k = 2 /\ k - 1 = 1)
  OBVIOUS
<1>4. \A k \in 1 .. Len(p) : <<n[k - 1], p[k], n[k]>> \in R
  BY <1>1, <1>2, <1>3
<1>5. Runs(R, p, a, z)
  BY <1>1, <1>2, <1>4 DEF Runs
<1>. QED
  BY <1>5 DEF p

\* A program of eight.
LEMMA RunsEight ==
    ASSUME NEW R, NEW n,
           NEW i1 \in Instructions, NEW i2 \in Instructions, NEW i3 \in Instructions,
           NEW i4 \in Instructions, NEW i5 \in Instructions, NEW i6 \in Instructions,
           NEW i7 \in Instructions, NEW i8 \in Instructions,
           <<n[0], i1, n[1]>> \in R, <<n[1], i2, n[2]>> \in R, <<n[2], i3, n[3]>> \in R,
           <<n[3], i4, n[4]>> \in R, <<n[4], i5, n[5]>> \in R, <<n[5], i6, n[6]>> \in R,
           <<n[6], i7, n[7]>> \in R, <<n[7], i8, n[8]>> \in R
    PROVE  Runs(R, <<i1, i2, i3, i4, i5, i6, i7, i8>>, n[0], n[8])
<1>. DEFINE p == <<i1, i2, i3, i4, i5, i6, i7, i8>>
<1>1. /\ p \in Seq(Instructions) /\ Len(p) = 8
      /\ p[1] = i1 /\ p[2] = i2 /\ p[3] = i3 /\ p[4] = i4 /\ p[5] = i5 /\ p[6] = i6
      /\ p[7] = i7 /\ p[8] = i8
  OBVIOUS
<1>. HIDE DEF p
<1>2. \A k \in 1 .. 8 : \/ (k = 1 /\ k - 1 = 0) \/ (k = 2 /\ k - 1 = 1)
                        \/ (k = 3 /\ k - 1 = 2) \/ (k = 4 /\ k - 1 = 3)
                        \/ (k = 5 /\ k - 1 = 4) \/ (k = 6 /\ k - 1 = 5)
                        \/ (k = 7 /\ k - 1 = 6) \/ (k = 8 /\ k - 1 = 7)
  OBVIOUS
<1>3. ASSUME NEW k \in 1 .. Len(p) PROVE <<n[k - 1], p[k], n[k]>> \in R
  <2>1. k \in 1 .. 8
    BY <1>1
  <2>. QED
    BY <1>1, <1>2, <2>1
<1>4. Runs(R, p, n[0], n[8])
  BY <1>1, <1>3 DEF Runs
<1>. QED
  BY <1>4 DEF p

\* The tables have five names, and the blocks are numbered within them.
LEMMA TableFacts ==
    /\ Len(TableNames) = 5 /\ DOMAIN TableNames = 1 .. 5
    /\ \A k \in 1 .. 5 : TableNames[k] \in ToSet(TableNames)
    /\ \A j, k \in 1 .. 5 : TableNames[j] = TableNames[k] => j = k
BY DEF TableNames, ToSet

\* Every block is one place of the loops over FRAG_N.
LEMMA BlockFacts ==
    /\ AllBlocks \in Seq(Vars) /\ DOMAIN AllBlocks = 1 .. FragN * 5 /\ FragN * 5 \in Nat
    /\ \A j, k \in 1 .. FragN * 5 : AllBlocks[j] = AllBlocks[k] => j = k
    /\ \A k \in 1 .. FragN * 5 :
          /\ AllBlocks[k] \in Vars /\ AllBlocks[k][1] \in ToSet(TableNames)
          /\ \A n : AllBlocks[k] # Var(n)
    /\ \A n \in ToSet(TableNames) : \A i \in 1 .. FragN : Block(n, i) \in ToSet(AllBlocks)
<1>1. FragN \in Nat \ {0} /\ FragN * 5 \in Nat
  BY ClientsAssumption
<1>2. ASSUME NEW k \in 1 .. FragN * 5
      PROVE  /\ ((k - 1) % 5) + 1 \in 1 .. 5 /\ ((k - 1) \div 5) + 1 \in 1 .. FragN
             /\ k = 5 * ((k - 1) \div 5) + ((k - 1) % 5) + 1
  BY <1>1
<1>3. \A k \in 1 .. FragN * 5 :
          AllBlocks[k] = <<TableNames[((k - 1) % 5) + 1], ((k - 1) \div 5) + 1>>
  BY TableFacts DEF AllBlocks, Block
<1>4. DOMAIN AllBlocks = 1 .. FragN * 5
  BY TableFacts DEF AllBlocks
<1>5. ASSUME NEW j \in 1 .. FragN * 5, NEW k \in 1 .. FragN * 5, AllBlocks[j] = AllBlocks[k]
      PROVE  j = k
  <2>1. PICK x, y, u, v : /\ x = (j - 1) % 5 /\ y = (k - 1) % 5
                          /\ u = (j - 1) \div 5 /\ v = (k - 1) \div 5
    OBVIOUS
  <2>2. /\ x + 1 \in 1 .. 5 /\ y + 1 \in 1 .. 5 /\ u + 1 \in 1 .. FragN /\ v + 1 \in 1 .. FragN
        /\ j = 5 * u + x + 1 /\ k = 5 * v + y + 1 /\ x \in Int /\ y \in Int
        /\ u \in Int /\ v \in Int
    BY <1>2, <2>1
  <2>3. TableNames[x + 1] = TableNames[y + 1] /\ u + 1 = v + 1
    BY <1>3, <1>5, <2>1
  <2>4. x + 1 = y + 1
    BY <2>2, <2>3, TableFacts
  <2>. QED
    BY <2>2, <2>3, <2>4
<1>6. ASSUME NEW k \in 1 .. FragN * 5
      PROVE  /\ AllBlocks[k] \in Vars /\ AllBlocks[k][1] \in ToSet(TableNames)
             /\ \A n : AllBlocks[k] # Var(n)
  <2>1. PICK x, u : x = ((k - 1) % 5) + 1 /\ u = ((k - 1) \div 5) + 1
    OBVIOUS
  <2>2. x \in 1 .. 5 /\ u \in 1 .. FragN /\ AllBlocks[k] = <<TableNames[x], u>>
    BY <1>2, <1>3, <2>1
  <2>3. TableNames[x] \in ToSet(TableNames) /\ u # 0
    BY <1>1, <2>2, TableFacts
  <2>4. Block(TableNames[x], u) \in Vars
    BY <2>2, <2>3, Names
  <2>. QED
    BY <2>2, <2>3, <2>4 DEF Block, Var
<1>7. ASSUME NEW n \in ToSet(TableNames), NEW i \in 1 .. FragN
      PROVE  Block(n, i) \in ToSet(AllBlocks)
  <2>1. PICK x \in 1 .. 5 : n = TableNames[x]
    BY TableFacts DEF ToSet
  <2>2. PICK k : k = 5 * (i - 1) + x
    OBVIOUS
  <2>3. /\ k \in 1 .. FragN * 5 /\ ((k - 1) % 5) + 1 = x /\ ((k - 1) \div 5) + 1 = i
    BY <1>1, <2>2
  <2>4. AllBlocks[k] = Block(n, i)
    BY <1>3, <2>1, <2>3 DEF Block
  <2>. QED
    BY <1>4, <2>3, <2>4 DEF ToSet
<1>8. AllBlocks \in Seq(Vars)
  <2>1. AllBlocks = [k \in 1 .. FragN * 5 |-> AllBlocks[k]]
    BY TableFacts DEF AllBlocks
  <2>. QED
    BY <1>1, <1>6, <2>1
<1>. QED
  BY <1>1, <1>4, <1>5, <1>6, <1>7, <1>8

\* The places of the holes.
LEMMA HoleFacts ==
    ASSUME NEW n \in ToSet(TableNames)
    PROVE  /\ Holes(n) \in Seq(Vars)
           /\ \A k \in 1 .. Len(Holes(n)) :
                 Holes(n)[k] \in ToSet(AllBlocks) /\ Holes(n)[k] # Buffer
<1>1. PICK c : c = (FragN + 1) \div 2
  OBVIOUS
<1>2. c \in Nat /\ \A k \in 1 .. c : 2 * k - 1 \in 1 .. FragN /\ 2 * k - 1 # 0
  BY <1>1, ClientsAssumption
<1>3. /\ \A k \in 1 .. c : Holes(n)[k] = Block(n, 2 * k - 1)
      /\ Holes(n) = [k \in 1 .. c |-> Holes(n)[k]]
  BY <1>1 DEF Holes
<1>4. ASSUME NEW k \in 1 .. c
      PROVE  /\ Holes(n)[k] \in Vars /\ Holes(n)[k] \in ToSet(AllBlocks)
             /\ Holes(n)[k] # Buffer
  <2>1. PICK i : i = 2 * k - 1
    OBVIOUS
  <2>2. i \in 1 .. FragN /\ i # 0 /\ Holes(n)[k] = Block(n, i)
    BY <1>2, <1>3, <2>1
  <2>. QED
    BY <2>2, Names, BlockFacts DEF Block, Buffer, Var
<1>5. Holes(n) \in Seq(Vars) /\ Len(Holes(n)) = c
  BY <1>2, <1>3, <1>4
<1>. QED
  BY <1>4, <1>5

\* A loop that frees the variables of a list.
LEMMA OwnFreeEach ==
    ASSUME NEW a \in SUBSET Vars, NEW s \in Seq(Vars), \A k \in 1 .. Len(s) : s[k] # Buffer
    PROVE  Runs(OwnRule, [k \in DOMAIN s |-> Free(s[k])], a, a \ ToSet(s))
<1>. DEFINE p == [k \in DOMAIN s |-> Free(s[k])]
<1>1. Len(s) \in Nat /\ DOMAIN s = 1 .. Len(s) /\ \A k \in 1 .. Len(s) : s[k] \in Vars
  OBVIOUS
<1>2. /\ \A k \in 1 .. Len(s) : p[k] = Free(s[k])
      /\ p = [k \in 1 .. Len(s) |-> p[k]]
  BY <1>1
<1>. HIDE DEF p
<1>3. \A k \in 1 .. Len(s) : p[k] \in Instructions /\ p[k].do = "free" /\ p[k].var = s[k]
  BY <1>1, <1>2, Instr
<1>4. p \in Seq(Instructions) /\ Len(p) = Len(s)
  BY <1>1, <1>2, <1>3
<1>5. Runs(OwnRule, p, a, a \ {p[k].var : k \in 1 .. Len(p)})
  BY <1>3, <1>4, OwnFrees
<1>6. {p[k].var : k \in 1 .. Len(p)} = ToSet(s)
  BY <1>1, <1>3, <1>4 DEF ToSet
<1>. QED
  BY <1>5, <1>6 DEF p

\* A round of a timing loop.
LEMMA OwnSample ==
    ASSUME NEW a \in SUBSET Vars, Var("sample") \notin a
    PROVE  Runs(OwnRule, Sample, a, a)
<1>1. PICK v, s : v = Var("sample") /\ s = SizeOf["sample"]
  OBVIOUS
<1>2. v \in Vars /\ s \in Sizes /\ v \notin {Argv, Buffer}
  BY <1>1, Names DEF Var, Argv, Buffer
<1>3. /\ Alloc(v, s, "fault") \in Instructions /\ Free(v) \in Instructions
      /\ <<a, Alloc(v, s, "fault"), a \cup {v}>> \in OwnRule
      /\ <<a \cup {v}, Free(v), (a \cup {v}) \ {v}>> \in OwnRule
  BY <1>1, <1>2, Instr DEF OwnRule, Tracked
<1>4. (a \cup {v}) \ {v} = a
  BY <1>1
<1>. QED
  BY <1>1, <1>3, <1>4, RunsTwo DEF Sample

\* memtest 1 gives back all it takes.
LEMMA OwnMemtest1 ==
    Runs(OwnRule, cmd_memtest_v1, {Argv}, {Argv})
<1>. DEFINE T == {Var(n) : n \in ToSet(TableNames)}
            B == ToSet(AllBlocks)
            holes == Holes("s64") \o Holes("s256")
            order == <<"s64", "s256", "s512", "s128", "s1024">>
            p1 == [k \in DOMAIN TableNames |-> Alloc(Var(TableNames[k]), SizeOf["table"], "fault")]
            p2 == [k \in DOMAIN AllBlocks |->
                      Alloc(AllBlocks[k], SizeOf[AllBlocks[k][1]], "fault")]
            p3 == <<Verify(B, TRUE)>>
            p4 == [k \in DOMAIN holes |-> Free(holes[k])]
            p5 == <<Verify(B \ ToSet(holes), TRUE)>>
            p7 == [k \in DOMAIN AllBlocks |-> Free(AllBlocks[k])]
            p8 == [k \in DOMAIN order |-> Free(Var(order[k]))]
<1>1. cmd_memtest_v1 = p1 \o p2 \o p3 \o p4 \o p5 \o Sample \o p7 \o p8 \o Sample
  BY DEF cmd_memtest_v1, Each
<1>2. /\ Argv \in Vars /\ Argv = <<"argv", 0>> /\ Buffer = <<"buffer", 0>>
      /\ \A n \in ToSet(TableNames) :
            Var(n) \in Vars /\ n # "argv" /\ n # "buffer" /\ n # "sample" /\ n \in DOMAIN SizeOf
  BY Names DEF Argv, Buffer, Var
<1>3. T \subseteq Vars /\ B \subseteq Vars /\ Buffer \notin T /\ Argv \notin T
      /\ Argv \notin B /\ Buffer \notin B /\ Var("sample") \notin T /\ Var("sample") \notin B
      /\ B \cap T = {} /\ Var("sample") # Argv
  <2>1. B = {AllBlocks[k] : k \in 1 .. FragN * 5}
    BY BlockFacts DEF ToSet
  <2>2. \A n : Var(n) \notin B
    BY <2>1, BlockFacts
  <2>3. B \subseteq Vars
    BY <2>1, BlockFacts
  <2>. QED
    BY <1>2, <2>2, <2>3 DEF Argv, Buffer, Var
<1>4. Runs(OwnRule, p1, {Argv}, {Argv} \cup T)
  <2>1. /\ p1 = [k \in 1 .. 5 |-> p1[k]]
        /\ \A k \in 1 .. 5 : p1[k] = Alloc(Var(TableNames[k]), SizeOf["table"], "fault")
    BY TableFacts
  <2>. HIDE DEF p1
  <2>2. \A k \in 1 .. 5 : Var(TableNames[k]) \in Vars
    BY TableFacts, <1>2
  <2>3. SizeOf["table"] \in Sizes
    BY Names
  <2>4. \A k \in 1 .. 5 : /\ p1[k] \in Instructions /\ p1[k].do = "alloc"
                          /\ p1[k].var = Var(TableNames[k])
    BY <2>1, <2>2, <2>3, Instr
  <2>5. p1 \in Seq(Instructions) /\ Len(p1) = 5
    BY <2>1, <2>4
  <2>6. \A k \in 1 .. 5 : p1[k].var \in T
    BY <2>4, TableFacts
  <2>7. \A j, k \in 1 .. 5 : p1[j].var = p1[k].var => j = k
    BY <2>4, TableFacts DEF Var
  <2>8. {p1[k].var : k \in 1 .. 5} = T
    BY <2>4, TableFacts DEF ToSet
  <2>9. \A k \in 1 .. 5 : /\ p1[k].var \notin {Argv} /\ p1[k].var \notin {Argv, Buffer}
                          /\ p1[k].var \in Vars
    BY <1>3, <2>6
  <2>10. Runs(OwnRule, p1, {Argv}, {Argv} \cup {p1[k].var : k \in 1 .. Len(p1)})
    <3>1. {Argv} \in SUBSET Vars
      BY <1>2
    <3>. QED
      BY <2>4, <2>5, <2>7, <2>9, <3>1, OwnAllocs
  <2>. QED
    BY <2>5, <2>8, <2>10
<1>5. Runs(OwnRule, p2, {Argv} \cup T, {Argv} \cup T \cup B)
  <2>1. /\ p2 = [k \in 1 .. FragN * 5 |-> p2[k]]
        /\ \A k \in 1 .. FragN * 5 :
              p2[k] = Alloc(AllBlocks[k], SizeOf[AllBlocks[k][1]], "fault")
    BY BlockFacts
  <2>. HIDE DEF p2
  <2>2. \A k \in 1 .. FragN * 5 : AllBlocks[k] \in Vars /\ SizeOf[AllBlocks[k][1]] \in Sizes
    BY <1>2, BlockFacts, Names
  <2>3. \A k \in 1 .. FragN * 5 : /\ p2[k] \in Instructions /\ p2[k].do = "alloc"
                                  /\ p2[k].var = AllBlocks[k]
    BY <2>1, <2>2, Instr
  <2>4. p2 \in Seq(Instructions) /\ Len(p2) = FragN * 5
    BY <2>1, <2>3, BlockFacts
  <2>5. \A k \in 1 .. FragN * 5 : AllBlocks[k] \in B
    BY BlockFacts DEF ToSet
  <2>6. {p2[k].var : k \in 1 .. Len(p2)} = B
    BY <2>3, <2>4, BlockFacts DEF ToSet
  <2>. HIDE DEF B, T
  <2>7. \A k \in 1 .. FragN * 5 : /\ p2[k].var \notin {Argv} \cup T
                                  /\ p2[k].var \notin {Argv, Buffer} /\ p2[k].var \in Vars
    BY <1>3, <2>3, <2>5
  <2>8. \A j, k \in 1 .. FragN * 5 : p2[j].var = p2[k].var => j = k
    BY <2>3, BlockFacts
  <2>9. {Argv} \cup T \in SUBSET Vars
    BY <1>2, <1>3
  <2>10. Runs(OwnRule, p2, {Argv} \cup T, ({Argv} \cup T) \cup {p2[k].var : k \in 1 .. Len(p2)})
    BY <2>3, <2>4, <2>7, <2>8, <2>9, OwnAllocs
  <2>. QED
    BY <2>6, <2>10
<1>6. /\ holes \in Seq(Vars) /\ ToSet(holes) \subseteq B
      /\ \A k \in 1 .. Len(holes) : holes[k] # Buffer
  <2>1. PICK g, h : g = Holes("s64") /\ h = Holes("s256")
    OBVIOUS
  <2>2. /\ g \in Seq(Vars) /\ h \in Seq(Vars)
        /\ \A k \in 1 .. Len(g) : g[k] \in B /\ g[k] # Buffer
        /\ \A k \in 1 .. Len(h) : h[k] \in B /\ h[k] # Buffer
    BY <2>1, HoleFacts, Names
  <2>. HIDE DEF B
  <2>3. /\ g \o h \in Seq(Vars) /\ Len(g \o h) = Len(g) + Len(h)
        /\ \A k \in 1 .. Len(g) + Len(h) :
              (g \o h)[k] = IF k <= Len(g) THEN g[k] ELSE h[k - Len(g)]
        /\ Len(g) \in Nat /\ Len(h) \in Nat
    BY <2>2
  <2>4. \A k \in 1 .. Len(g \o h) : (g \o h)[k] \in B /\ (g \o h)[k] # Buffer
    <3>. SUFFICES ASSUME NEW k \in 1 .. Len(g) + Len(h)
                  PROVE  (g \o h)[k] \in B /\ (g \o h)[k] # Buffer
      BY <2>3
    <3>1. CASE k <= Len(g)
      BY <2>2, <2>3, <3>1
    <3>2. CASE ~(k <= Len(g))
      <4>1. k - Len(g) \in 1 .. Len(h)
        BY <2>3, <3>2
      <4>. QED
        BY <2>2, <2>3, <3>2, <4>1
    <3>. QED
      BY <3>1, <3>2
  <2>5. ToSet(g \o h) \subseteq B
    BY <2>3, <2>4 DEF ToSet
  <2>. QED
    BY <2>1, <2>3, <2>4, <2>5
<1>. HIDE DEF holes
<1>7. {Argv} \cup T \cup B \in SUBSET Vars
  BY <1>2, <1>3
<1>8. Runs(OwnRule, p3, {Argv} \cup T \cup B, {Argv} \cup T \cup B)
  BY <1>3, <1>7, OwnVerify
<1>9. Runs(OwnRule, p4, {Argv} \cup T \cup B, ({Argv} \cup T \cup B) \ ToSet(holes))
  BY <1>6, <1>7, OwnFreeEach
<1>10. Runs(OwnRule, p5, ({Argv} \cup T \cup B) \ ToSet(holes),
                         ({Argv} \cup T \cup B) \ ToSet(holes))
  BY <1>3, <1>7, OwnVerify
<1>11. Runs(OwnRule, Sample, ({Argv} \cup T \cup B) \ ToSet(holes),
                             ({Argv} \cup T \cup B) \ ToSet(holes))
  <2>1. Var("sample") \notin ({Argv} \cup T \cup B) \ ToSet(holes)
    BY <1>3
  <2>. QED
    BY <1>7, <2>1, OwnSample
<1>12. Runs(OwnRule, p7, ({Argv} \cup T \cup B) \ ToSet(holes), {Argv} \cup T)
  <2>1. AllBlocks \in Seq(Vars) /\ \A k \in 1 .. Len(AllBlocks) : AllBlocks[k] # Buffer
    <3>1. Len(AllBlocks) = FragN * 5
      BY BlockFacts
    <3>. QED
      BY <3>1, BlockFacts DEF Buffer
  <2>2. Runs(OwnRule, p7, ({Argv} \cup T \cup B) \ ToSet(holes),
                          (({Argv} \cup T \cup B) \ ToSet(holes)) \ B)
    BY <1>7, <2>1, OwnFreeEach
  <2>3. (({Argv} \cup T \cup B) \ ToSet(holes)) \ B = {Argv} \cup T
    <3>. HIDE DEF B, T
    <3>. QED
      BY <1>3, <1>6
  <2>. QED
    BY <2>2, <2>3
<1>13. Runs(OwnRule, p8, {Argv} \cup T, {Argv})
  <2>. DEFINE s == <<Var("s64"), Var("s256"), Var("s512"), Var("s128"), Var("s1024")>>
  <2>1. p8 = [k \in DOMAIN s |-> Free(s[k])]
    <3>1. DOMAIN order = 1 .. 5 /\ DOMAIN s = 1 .. 5
      OBVIOUS
    <3>2. \A k \in 1 .. 5 : s[k] = Var(order[k])
      OBVIOUS
    <3>. QED
      BY <3>1, <3>2
  <2>2. ToSet(s) = T
    <3>1. ToSet(s) = {Var("s64"), Var("s256"), Var("s512"), Var("s128"), Var("s1024")}
      BY DEF ToSet
    <3>. QED
      BY <3>1, Names
  <2>3. s \in Seq(Vars) /\ \A k \in 1 .. Len(s) : s[k] # Buffer
    <3>1. \A k \in 1 .. 5 : s[k] \in ToSet(s)
      BY DEF ToSet
    <3>2. Len(s) = 5 /\ s \in Seq(ToSet(s))
      BY <3>1
    <3>3. \A k \in 1 .. Len(s) : s[k] # Buffer /\ s[k] \in Vars
      <4>. HIDE DEF s, T
      <4>. QED
        BY <1>3, <2>2, <3>1, <3>2
    <3>. QED
      BY <3>2, <3>3
  <2>. HIDE DEF s
  <2>4. Runs(OwnRule, p8, {Argv} \cup T, ({Argv} \cup T) \ T)
    BY <1>2, <1>3, <2>1, <2>2, <2>3, OwnFreeEach
  <2>5. ({Argv} \cup T) \ T = {Argv}
    <3>. HIDE DEF T
    <3>. QED
      BY <1>3
  <2>. QED
    BY <2>4, <2>5
<1>14. Runs(OwnRule, Sample, {Argv}, {Argv})
  BY <1>2, <1>3, OwnSample
<1>. HIDE DEF T, B, p1, p2, p3, p4, p5, p7, p8
<1>15. Runs(OwnRule, p1 \o p2 \o p3, {Argv}, {Argv} \cup T \cup B)
  BY <1>4, <1>5, <1>8, RunsJoin
<1>16. Runs(OwnRule, p1 \o p2 \o p3 \o p4 \o p5 \o Sample, {Argv},
                     ({Argv} \cup T \cup B) \ ToSet(holes))
  BY <1>15, <1>9, <1>10, <1>11, RunsJoin
<1>. QED
  BY <1>1, <1>12, <1>13, <1>14, <1>16, RunsJoin

\* So does memtest 2, also when some of its memory is NULL.
LEMMA OwnMemtest2 ==
    Runs(OwnRule, cmd_memtest_v2, {Argv}, {Argv})
<1>. DEFINE names == {"buf64k", "buf1m", "tbuf", "tbuf8", "tbig"}
            i1 == Alloc(Var("buf64k"), SizeOf["buf64k"], "report")
            i2 == Verify({Var("buf64k")}, FALSE)
            i3 == Alloc(Var("buf1m"), SizeOf["buf1m"], "report")
            i4 == Verify({Var("buf1m")}, FALSE)
            i5 == Above(Var("buf1m"), Var("buf64k"))
            i6 == Alloc(Var("tbuf"), SizeOf["tbuf"], "ignore")
            i7 == Alloc(Var("tbuf8"), SizeOf["tbuf8"], "ignore")
            i8 == Alloc(Var("tbig"), SizeOf["tbig"], "ignore")
            q  == [k \in DOMAIN memtest_v2_frees |-> Free(Var(memtest_v2_frees[k]))]
<1>1. cmd_memtest_v2 = <<i1, i2, i3, i4, i5, i6, i7, i8>> \o q
  BY DEF cmd_memtest_v2, Each
<1>2. PICK v1, v3, v6, v7, v8 :
          /\ v1 = Var("buf64k") /\ v3 = Var("buf1m") /\ v6 = Var("tbuf") /\ v7 = Var("tbuf8")
          /\ v8 = Var("tbig")
  OBVIOUS
<1>3. /\ v1 \in Vars /\ v3 \in Vars /\ v6 \in Vars /\ v7 \in Vars /\ v8 \in Vars
      /\ Argv \in Vars
      /\ \A n \in names : SizeOf[n] \in Sizes
  BY <1>2, Names DEF Argv
<1>4. /\ v1 \notin {Argv, Buffer} /\ v3 \notin {Argv, Buffer, v1}
      /\ v6 \notin {Argv, Buffer, v1, v3}
      /\ v7 \notin {Argv, Buffer, v1, v3, v6} /\ v8 \notin {Argv, Buffer, v1, v3, v6, v7}
  BY <1>2 DEF Argv, Buffer, Var
<1>5. /\ i1 \in Instructions /\ i1.do = "alloc" /\ i1.var = v1
      /\ i3 \in Instructions /\ i3.do = "alloc" /\ i3.var = v3
      /\ i6 \in Instructions /\ i6.do = "alloc" /\ i6.var = v6
      /\ i7 \in Instructions /\ i7.do = "alloc" /\ i7.var = v7
      /\ i8 \in Instructions /\ i8.do = "alloc" /\ i8.var = v8
  <2>1. /\ i1 \in Instructions /\ i1.do = "alloc" /\ i1.var = v1
    BY <1>2, <1>3, Instr
  <2>2. /\ i3 \in Instructions /\ i3.do = "alloc" /\ i3.var = v3
    BY <1>2, <1>3, Instr
  <2>3. /\ i6 \in Instructions /\ i6.do = "alloc" /\ i6.var = v6
    BY <1>2, <1>3, Instr
  <2>4. /\ i7 \in Instructions /\ i7.do = "alloc" /\ i7.var = v7
    BY <1>2, <1>3, Instr
  <2>5. /\ i8 \in Instructions /\ i8.do = "alloc" /\ i8.var = v8
    BY <1>2, <1>3, Instr
  <2>. QED
    BY <2>1, <2>2, <2>3, <2>4, <2>5
<1>6. /\ i2 \in Instructions /\ i2.do = "verify" /\ i4 \in Instructions /\ i4.do = "verify"
      /\ i5 \in Instructions /\ i5.do = "above"
  <2>1. {v1} \in SUBSET Vars /\ {v3} \in SUBSET Vars /\ FALSE \in BOOLEAN
    BY <1>3
  <2>2. i2 \in Instructions /\ i2.do = "verify" /\ i4 \in Instructions /\ i4.do = "verify"
    BY <1>2, <2>1, Instr
  <2>3. i5 \in Instructions /\ i5.do = "above"
    BY <1>2, <1>3, Instr
  <2>. QED
    BY <2>2, <2>3
<1>. HIDE DEF i1, i2, i3, i4, i5, i6, i7, i8
<1>7. /\ <<{Argv}, i1, {Argv, v1}>> \in OwnRule
      /\ <<{Argv, v1}, i2, {Argv, v1}>> \in OwnRule
      /\ <<{Argv, v1}, i3, {Argv, v1, v3}>> \in OwnRule
      /\ <<{Argv, v1, v3}, i4, {Argv, v1, v3}>> \in OwnRule
      /\ <<{Argv, v1, v3}, i5, {Argv, v1, v3}>> \in OwnRule
  BY <1>3, <1>4, <1>5, <1>6 DEF OwnRule, Tracked
<1>8. /\ <<{Argv, v1, v3}, i6, {Argv, v1, v3, v6}>> \in OwnRule
      /\ <<{Argv, v1, v3, v6}, i7, {Argv, v1, v3, v6, v7}>> \in OwnRule
      /\ <<{Argv, v1, v3, v6, v7}, i8, {Argv, v1, v3, v6, v7, v8}>> \in OwnRule
  BY <1>3, <1>4, <1>5 DEF OwnRule, Tracked
<1>9. Runs(OwnRule, <<i1, i2, i3, i4, i5, i6, i7, i8>>, {Argv}, {Argv, v1, v3, v6, v7, v8})
  <2>. DEFINE n == [k \in 0 .. 8 |->
                      IF k = 0 THEN {Argv} ELSE IF k \in {1, 2} THEN {Argv, v1}
                      ELSE IF k \in {3, 4, 5} THEN {Argv, v1, v3}
                      ELSE IF k = 6 THEN {Argv, v1, v3, v6}
                      ELSE IF k = 7 THEN {Argv, v1, v3, v6, v7}
                      ELSE {Argv, v1, v3, v6, v7, v8}]
  <2>1. /\ n[0] = {Argv} /\ n[1] = {Argv, v1} /\ n[2] = {Argv, v1} /\ n[3] = {Argv, v1, v3}
        /\ n[4] = {Argv, v1, v3} /\ n[5] = {Argv, v1, v3} /\ n[6] = {Argv, v1, v3, v6}
        /\ n[7] = {Argv, v1, v3, v6, v7} /\ n[8] = {Argv, v1, v3, v6, v7, v8}
    OBVIOUS
  <2>. HIDE DEF n
  <2>2. /\ <<n[0], i1, n[1]>> \in OwnRule /\ <<n[1], i2, n[2]>> \in OwnRule
        /\ <<n[2], i3, n[3]>> \in OwnRule /\ <<n[3], i4, n[4]>> \in OwnRule
        /\ <<n[4], i5, n[5]>> \in OwnRule /\ <<n[5], i6, n[6]>> \in OwnRule
        /\ <<n[6], i7, n[7]>> \in OwnRule /\ <<n[7], i8, n[8]>> \in OwnRule
    BY <1>7, <1>8, <2>1
  <2>3. Runs(OwnRule, <<i1, i2, i3, i4, i5, i6, i7, i8>>, n[0], n[8])
    BY <1>5, <1>6, <2>2, RunsEight
  <2>. QED
    BY <2>1, <2>3
<1>10. Runs(OwnRule, q, {Argv, v1, v3, v6, v7, v8}, {Argv})
  <2>. DEFINE s == <<v8, v6, v7, v1, v3>>
  <2>1. q = [k \in DOMAIN s |-> Free(s[k])]
    <3>1. DOMAIN memtest_v2_frees = 1 .. 5 /\ DOMAIN s = 1 .. 5
      BY DEF memtest_v2_frees
    <3>2. \A k \in 1 .. 5 : s[k] = Var(memtest_v2_frees[k])
      BY <1>2 DEF memtest_v2_frees
    <3>. QED
      BY <3>1, <3>2
  <2>2. ToSet(s) = {v1, v3, v6, v7, v8}
    BY DEF ToSet
  <2>3. s \in Seq(Vars) /\ \A k \in 1 .. Len(s) : s[k] # Buffer
    BY <1>3, <1>4
  <2>. HIDE DEF s, q
  <2>4. {Argv, v1, v3, v6, v7, v8} \in SUBSET Vars
    BY <1>3
  <2>5. Runs(OwnRule, q, {Argv, v1, v3, v6, v7, v8}, {Argv, v1, v3, v6, v7, v8} \ ToSet(s))
    BY <2>1, <2>3, <2>4, OwnFreeEach
  <2>6. {Argv, v1, v3, v6, v7, v8} \ ToSet(s) = {Argv}
    BY <1>4, <2>2
  <2>. QED
    BY <2>5, <2>6
<1>. HIDE DEF q
<1>. QED
  BY <1>1, <1>9, <1>10, RunsJoin

\* What each command still holds at its end.
Leftover(cmd) ==
    IF cmd.name = "refused" THEN {Argv} ELSE IF cmd.name = "diskR" THEN {Buffer} ELSE {}

\* Every command keeps what the ghost variable kept counts, and no more.
LEMMA OwnCommand ==
    ASSUME SizeOf["argv"] \notin ReadSizes, NEW cmd \in Commands
    PROVE  Runs(OwnRule, process_input(cmd), {}, Leftover(cmd))
<1>1. /\ Argv \in Vars /\ Argv # Buffer /\ SizeOf["argv"] \in Sizes /\ {Argv} \in SUBSET Vars
      /\ Buffer \in Vars
  BY Names DEF Argv, Buffer, Var
<1>2. Runs(OwnRule, <<Alloc(Argv, SizeOf["argv"], "fault")>>, {}, {Argv})
  <2>1. Tracked(Alloc(Argv, SizeOf["argv"], "fault"))
    BY <1>1, Instr DEF Tracked
  <2>2. Runs(OwnRule, <<Alloc(Argv, SizeOf["argv"], "fault")>>, {}, {} \cup {Argv})
    BY <1>1, <2>1, OwnAlloc
  <2>. QED
    BY <2>2
<1>3. Runs(OwnRule, <<Free(Argv)>>, {Argv}, {})
  <2>1. Runs(OwnRule, <<Free(Argv)>>, {Argv}, {Argv} \ {Argv})
    BY <1>1, OwnFree
  <2>2. {Argv} \ {Argv} = {}
    OBVIOUS
  <2>. QED
    BY <2>1, <2>2
<1>. DEFINE rest ==
    CASE cmd.name = "other"     -> <<Free(Argv)>>
      [] cmd.name = "refused"   -> <<>>
      [] cmd.name = "diskR"     -> <<Alloc(Var("buffer"), cmd.size, "fault"), Free(Argv)>>
      [] cmd.name = "memtest 1" -> cmd_memtest_v1 \o <<Free(Argv)>>
      [] cmd.name = "memtest 2" -> cmd_memtest_v2 \o <<Free(Argv)>>
<1>4. process_input(cmd) = <<Alloc(Argv, SizeOf["argv"], "fault")>> \o rest
  BY DEF process_input, Argv
<1>5. /\ cmd.name \in {"other", "refused", "memtest 1", "memtest 2", "diskR"}
      /\ cmd.name = "diskR" => cmd.size \in ReadSizes
  BY DEF Commands
<1>6. CASE cmd.name = "other"
  <2>1. rest = <<Free(Argv)>> /\ Leftover(cmd) = {}
    BY <1>6 DEF Leftover
  <2>. QED
    BY <1>2, <1>3, <1>4, <2>1, RunsJoin
<1>7. CASE cmd.name = "refused"
  <2>1. rest = <<>> /\ Leftover(cmd) = {Argv}
    BY <1>7 DEF Leftover
  <2>2. Runs(OwnRule, <<>>, {Argv}, {Argv})
    BY RunsNone
  <2>. HIDE DEF rest
  <2>. QED
    BY <1>2, <1>4, <2>1, <2>2, RunsJoin
<1>8. CASE cmd.name = "diskR"
  <2>1. PICK i : i = Alloc(Buffer, cmd.size, "fault")
    OBVIOUS
  <2>2. rest = <<i, Free(Argv)>> /\ Leftover(cmd) = {Buffer}
    BY <1>8, <2>1 DEF Leftover, Buffer
  <2>3. /\ i \in Instructions /\ i.do = "alloc" /\ i.var = Buffer /\ i.onNull = "fault"
        /\ i.size # SizeOf["argv"]
    <3>1. cmd.size \in Sizes /\ cmd.size # SizeOf["argv"]
      BY <1>5, <1>8, Names
    <3>. QED
      BY <1>1, <2>1, <3>1, Instr
  <2>4. <<{Argv}, i, {Argv, Buffer}>> \in OwnRule
    BY <1>1, <2>3 DEF OwnRule, Tracked
  <2>5. <<{Argv, Buffer}, Free(Argv), {Buffer}>> \in OwnRule
    BY <1>1, Instr DEF OwnRule
  <2>6. Runs(OwnRule, <<i, Free(Argv)>>, {Argv}, {Buffer})
    BY <1>1, <2>3, <2>4, <2>5, Instr, RunsTwo
  <2>. HIDE DEF rest
  <2>. QED
    BY <1>2, <1>4, <2>2, <2>6, RunsJoin
<1>9. CASE cmd.name = "memtest 1"
  <2>1. rest = cmd_memtest_v1 \o <<Free(Argv)>> /\ Leftover(cmd) = {}
    BY <1>9 DEF Leftover
  <2>2. Runs(OwnRule, cmd_memtest_v1 \o <<Free(Argv)>>, {Argv}, {})
    BY <1>3, OwnMemtest1, RunsJoin
  <2>. QED
    BY <1>2, <1>4, <2>1, <2>2, RunsJoin
<1>10. CASE cmd.name = "memtest 2"
  <2>1. rest = cmd_memtest_v2 \o <<Free(Argv)>> /\ Leftover(cmd) = {}
    BY <1>10 DEF Leftover
  <2>2. Runs(OwnRule, cmd_memtest_v2 \o <<Free(Argv)>>, {Argv}, {})
    BY <1>3, OwnMemtest2, RunsJoin
  <2>. QED
    BY <1>2, <1>4, <2>1, <2>2, RunsJoin
<1>. QED
  BY <1>5, <1>6, <1>7, <1>8, <1>9, <1>10
-----------------------------------------------------------------------------
(* What a call does to the set of allocations.                             *)

\* A call hands out memory that nobody holds.
HandsOut(size) ==
    \E x : /\ x \notin live /\ x.size = size
           /\ live' = live \cup {x} /\ op' = [kind |-> "fill", of |-> x]

\* kmalloc returns memory or NULL, or is in the loop over the pages.
LEMMA CallBegins ==
    ASSUME Fits, IInv, NEW size \in Sizes, cpu' = "run",
           alloc_fast(size) \/ alloc_slow(size) \/ large_begin(size)
    PROVE  \/ live' = live /\ op' = Idle
           \/ live' = live /\ op'.kind = "map" /\ op'.size = size
           \/ HandsOut(size)
<1>1. PICK stk, dep, len, use, from : Inv(stk, dep, len, use, from)
  BY DEF IInv
<1>2. PICK d : d = ClassOf(size)
  OBVIOUS
<1>3. /\ Typed /\ Lists(stk, dep) /\ BlocksSplit(stk, dep)
  BY <1>1 DEF Inv
<1>4. op = Idle /\ cpu = "run"
  BY DEF alloc_fast, alloc_slow, large_begin
<1>5. CASE alloc_fast(size)
  <2>. DEFINE x == [ptr |-> head[d], size |-> size]
  <2>1. d \in Domains /\ head[d] # NULL
    BY <1>2, <1>5 DEF alloc_fast
  <2>2. live' = live \cup {x} /\ op' = [kind |-> "fill", of |-> x]
    BY <1>2, <1>5 DEF alloc_fast, Return, Stop
  <2>3. head[d] \in Members(stk[d], dep[d])
    <3>1. IsList(m, head[d], stk[d], dep[d])
      BY <1>3, <2>1 DEF Lists, Heaps
    <3>. QED
      BY <2>1, <3>1 DEF IsList, Members
  <2>4. x \notin live
    <3>1. x \in live => x \in Held(d)
      BY <1>2 DEF Held
    <3>. QED
      BY <1>3, <2>1, <2>3, <3>1 DEF BlocksSplit
  <2>5. x.size = size
    OBVIOUS
  <2>. HIDE DEF x
  <2>. QED
    BY <2>2, <2>4, <2>5 DEF HandsOut
<1>6. CASE alloc_slow(size)
  <2>. DEFINE x == [ptr |-> cursor[d], size |-> size]
  <2>1. d \in Domains
    BY <1>2, <1>6 DEF alloc_slow
  <2>2. \/ live' = live /\ op' = op
        \/ live' = live \cup {x} /\ op' = [kind |-> "fill", of |-> x]
    BY <1>2, <1>6 DEF alloc_slow, Return, Stop, vars
  <2>3. x \notin live
    <3>1. x \in live => cursor[d] \in Blocks(d)
      BY <1>2, <1>3, <2>1 DEF Held, BlocksSplit
    <3>2. cursor[d] \in Nat /\ PageOf(cursor[d]) \in Nat
      BY <1>3, <2>1, AddressParts DEF Typed, Heaps
    <3>3. PageOf(cursor[d]) \notin SmallPages(d)
      BY <3>2 DEF SmallPages
    <3>. QED
      BY <3>1, <3>3 DEF Blocks
  <2>4. x.size = size
    OBVIOUS
  <2>. HIDE DEF x
  <2>. QED
    BY <1>4, <2>2, <2>3, <2>4 DEF HandsOut
<1>7. CASE large_begin(size)
  <2>1. live' = live /\ op'.kind = "map" /\ op'.size = size
    BY <1>7 DEF large_begin, Stop
  <2>. QED
    BY <2>1
<1>. QED
  BY <1>5, <1>6, <1>7

\* A call in progress does the same.
LEMMA CallGoesOn ==
    ASSUME Fits, IInv, cpu' = "run", Step
    PROVE  /\ op.kind = "fill" => live' = live /\ op' = Idle
           /\ op.kind = "map" => \/ live' = live /\ op' = Idle
                                 \/ live' = live /\ op'.kind = "map" /\ op'.size = op.size
                                 \/ HandsOut(op.size)
           /\ op.kind \notin {"fill", "map"} =>
                 /\ live' = live /\ op'.kind \notin {"fill", "map"}
                 /\ op.kind # "idle"
<1>1. PICK stk, dep, len, use, from : Inv(stk, dep, len, use, from)
  BY DEF IInv
<1>2. op.kind \in {"init", "premap", "map", "unmap", "fill"}
  BY DEF Step, init_heap, premap, large_map, large_return, large_unmap, large_free_return,
         user_fill
<1>3. CASE op.kind = "fill"
  <2>1. user_fill
    BY <1>3 DEF Step, init_heap, premap, large_map, large_return, large_unmap,
                large_free_return
  <2>. QED
    BY <1>3, <2>1 DEF user_fill, Stop
<1>4. CASE op.kind = "map"
  <2>1. large_map \/ large_return
    BY <1>4 DEF Step, init_heap, premap, large_unmap, large_free_return, user_fill
  <2>2. CASE large_map
    <3>1. op \in [kind : {"map"}, i : Nat, pages : Nat, size : Sizes, start : Nat]
      BY <1>1, <1>4, CallKinds DEF Inv, Typed
    <3>2. op' = Idle \/ op' = [op EXCEPT !.i = @ + 1]
      BY <2>2 DEF large_map, Stop
    <3>3. live' = live
      BY <2>2 DEF large_map, Stop
    <3>4. [op EXCEPT !.i = @ + 1].kind = "map" /\ [op EXCEPT !.i = @ + 1].size = op.size
      BY <3>1
    <3>. QED
      BY <1>4, <3>2, <3>3, <3>4
  <2>3. CASE large_return
    <3>1. PICK start, n, z : start = op.start /\ n = op.pages /\ z = op.size
      OBVIOUS
    <3>2. /\ start \in Nat /\ n \in Nat \ {0} /\ start % PageWords = 0
          /\ z \in Sizes /\ n = PagesFor(z) /\ ClassOf(z) = Large
          /\ \A p \in RangePages(start, n) : use[p] = "call"
      <4>1. op \in [kind : {"map"}, i : Nat, pages : Nat, size : Sizes, start : Nat]
        BY <1>1, <1>4, CallKinds DEF Inv, Typed
      <4>2. CallUses(use)
        BY <1>1 DEF Inv
      <4>. QED
        BY <1>4, <3>1, <4>1, <4>2 DEF CallUses
    <3>. DEFINE x == [ptr |-> start + 1, size |-> z]
    <3>3. live' = live \cup {x} /\ op' = [kind |-> "fill", of |-> x]
      BY <2>3, <3>1 DEF large_return, Return, Stop
    <3>4. PageOf(start + 1) = PageOf(start)
      <4>1. PageWords \in Nat /\ PageWords >= 4 /\ PageOf(start) \in Nat
            /\ start = 0 + PageWords * PageOf(start)
        BY <3>2, HeapNumbers, AddressParts
      <4>2. 1 \in Offset
        BY <4>1 DEF Offset
      <4>3. start + 1 = 1 + PageWords * PageOf(start)
        BY <3>2, <4>1
      <4>. QED
        BY <4>1, <4>2, <4>3, AddressAt
    <3>5. x \notin live
      <4>. SUFFICES ASSUME x \in live PROVE FALSE
        OBVIOUS
      <4>1. x \in Held(Large) /\ x.ptr = start + 1 /\ x.size = z
        BY <3>2 DEF Held
      <4>. HIDE DEF x
      <4>2. \A p \in HeldPages(x) : use[p] = "held"
        BY <1>1, <4>1 DEF Inv, Uses
      <4>3. HeldPages(x) = RangePages(start, n)
        BY <3>2, <3>4, <4>1 DEF HeldPages, RangePages
      <4>4. PageOf(start) \in RangePages(start, n)
        BY <3>2, FirstPage
      <4>5. use[PageOf(start)] = "held" /\ use[PageOf(start)] = "call"
        BY <3>2, <4>2, <4>3, <4>4
      <4>. QED
        BY <4>5
    <3>6. x.size = op.size
      BY <3>1
    <3>. HIDE DEF x
    <3>. QED
      BY <1>4, <3>3, <3>5, <3>6 DEF HandsOut
  <2>. QED
    BY <1>4, <2>1, <2>2, <2>3
<1>5. CASE op.kind \in {"init", "premap", "unmap"}
  <2>1. init_heap \/ premap \/ large_unmap \/ large_free_return
    BY <1>5 DEF Step, large_map, large_return, user_fill
  <2>2. CASE init_heap \/ premap
    <3>1. live' = live
      BY <2>2 DEF init_heap, premap, Stop
    <3>2. op'.kind \in {"init", "premap", "idle"}
      <4>1. CASE init_heap
        BY <4>1 DEF init_heap, Stop, Idle
      <4>2. CASE premap
        <5>1. op \in [kind : {"premap"}, heap : Domains, i : 0 .. PremapPages]
          BY <1>1, <4>2, CallKinds DEF Inv, Typed, premap
        <5>2. \/ op' = [kind |-> "init", heap |-> op.heap + 1]
              \/ op' = [op EXCEPT !.i = @ + 1]
          BY <4>2 DEF premap, Stop
        <5>. QED
          BY <5>1, <5>2
      <4>. QED
        BY <2>2, <4>1, <4>2
    <3>. QED
      BY <1>5, <3>1, <3>2
  <2>3. CASE large_unmap
    <3>1. op \in [kind : {"unmap"}, i : Nat, pages : Nat, start : Nat]
      BY <1>1, <2>3, CallKinds DEF Inv, Typed, large_unmap
    <3>2. live' = live /\ op' = [op EXCEPT !.i = @ + 1]
      BY <2>3 DEF large_unmap
    <3>. QED
      BY <1>5, <3>1, <3>2
  <2>4. CASE large_free_return
    BY <1>5, <2>4 DEF large_free_return, Stop, Idle
  <2>. QED
    BY <2>1, <2>2, <2>3, <2>4
<1>. QED
  BY <1>2, <1>3, <1>4, <1>5

\* NULL meets none of kfree_heap's address tests.
LEMMA RouteOfNull == Route(NULL) = 0
<1>1. Large \in Nat /\ Large > 0 /\ \A d \in Domains : d \in Nat /\ d > 0
  BY HeapNumbers, HeapAssumption DEF Domains, Large
<1>2. ASSUME NEW h \in Nat, h > 0
      PROVE  Base(h) > 0
  <2>1. RegionPages * PageWords \in Nat \ {0}
    BY HeapNumbers, HeapAssumption
  <2>2. PICK c : c = RegionPages * PageWords
    OBVIOUS
  <2>3. h * c > 0
    BY <1>2, <2>1, <2>2
  <2>4. RegionPages \in Nat /\ PageWords \in Nat
    BY HeapNumbers, HeapAssumption
  <2>5. h * RegionPages * PageWords = h * c
    BY <1>2, <2>2, <2>4
  <2>. QED
    BY <2>3, <2>5 DEF Base
<1>3. ~(NULL >= Base(Large)) /\ \A d \in Domains : ~(NULL >= Base(d))
  <2>1. \A h \in Nat : Base(h) \in Nat
    BY HeapNumbers, HeapAssumption DEF Base
  <2>. QED
    BY <1>1, <1>2, <2>1 DEF NULL
<1>. QED
  BY <1>3 DEF Route

\* What a caller holds is not NULL and kfree finds its heap.
LEMMA HeldRoute ==
    ASSUME Fits, IInv, NEW a \in live
    PROVE  /\ a.ptr # NULL /\ a # Nothing /\ a.size \in Sizes
           /\ Route(a.ptr) = ClassOf(a.size) /\ ClassOf(a.size) \in Heaps
<1>1. PICK stk, dep, len, use, from : Inv(stk, dep, len, use, from)
  BY DEF IInv
<1>2. Route(a.ptr) = ClassOf(a.size) /\ ClassOf(a.size) \in Heaps /\ a.size \in Sizes
  BY <1>1, RouteOfHeld, HeldFacts DEF Inv
<1>3. Route(NULL) = 0
  BY RouteOfNull
<1>4. 0 \notin Heaps
  BY HeapNumbers DEF Heaps, Domains, Large
<1>. QED
  BY <1>2, <1>3, <1>4 DEF Nothing
-----------------------------------------------------------------------------
(* The invariant of the clients.                                           *)

\* What nobody holds any more.
Gone == {a \in live : op # [kind |-> "fill", of |-> a] /\ \A v \in Vars : held[v] # a}
GoneArgv == {a \in Gone : a.size = SizeOf["argv"]}

One(b) == IF b THEN 1 ELSE 0

\* kept counts it, and what the running command will keep.
Counted(z) ==
    /\ Cardinality(GoneArgv) + One(Argv \in z) = kept.refused
    /\ Cardinality(Gone \ GoneArgv) + One(Buffer \in z) = kept.buffers

\* The variables hold memory of the heap, each its own, and only those in a.
Holds(a) ==
    \A v \in Vars :
        /\ v \notin a => held[v] = Nothing
        /\ v \in a /\ v \in {Argv, Buffer} => held[v] # Nothing
        /\ held[v] # Nothing => held[v] \in live /\ op # [kind |-> "fill", of |-> held[v]]
        /\ v = Argv /\ held[v] # Nothing => held[v].size = SizeOf["argv"]
        /\ v = Buffer /\ held[v] # Nothing => held[v].size # SizeOf["argv"]
        /\ \A w \in Vars : held[v] = held[w] /\ held[v] # Nothing => v = w

\* A call in progress is the first instruction.
Waits ==
    /\ waiting \in BOOLEAN
    /\ waiting => program # <<>> /\ Head(program).do = "alloc"
    /\ waiting => op.kind \in {"idle", "map", "fill"}
    /\ op.kind = "map" => waiting /\ op.size = Head(program).size
    /\ op.kind = "fill" => waiting /\ op.of.size = Head(program).size

Ends == {{}, {Argv}, {Buffer}}

Client(a, z) ==
    /\ a \in SUBSET Vars /\ z \in Ends
    /\ Runs(OwnRule, program, a, z) /\ Holds(a) /\ Counted(z)

ClientInv ==
    /\ IInv /\ Waits /\ IsFiniteSet(live)
    /\ held \in [Vars -> [ptr : Nat, size : Nat]]
    /\ kept \in [refused : Nat, buffers : Nat]
    /\ verdict \subseteq {"null", "overlap"}
    /\ \E a, z : Client(a, z)

\* At the prompt kept counts all that is handed out.
LEMMA PromptCounts ==
    ASSUME Fits, ClientInv, op = Idle, program = <<>>
    PROVE  /\ Cardinality({a \in live : a.size = SizeOf["argv"]}) = kept.refused
           /\ Cardinality({a \in live : a.size # SizeOf["argv"]}) = kept.buffers
<1>1. PICK a, z : Client(a, z)
  BY DEF ClientInv
<1>2. a = z
  <2>1. Len(program) = 0
    OBVIOUS
  <2>. QED
    BY <1>1, <2>1 DEF Client, Runs
<1>. DEFINE A == {x \in live : x.size = SizeOf["argv"]}
            B == {x \in live : x.size # SizeOf["argv"]}
            N == Gone \ GoneArgv
<1>3. /\ IsFiniteSet(live) /\ IsFiniteSet(GoneArgv) /\ IsFiniteSet(N)
      /\ Cardinality(GoneArgv) \in Nat /\ Cardinality(N) \in Nat
  <2>1. IsFiniteSet(live) /\ GoneArgv \subseteq live /\ N \subseteq live
    BY DEF ClientInv, Gone, GoneArgv
  <2>. QED
    BY <2>1, FS_Subset, FS_CardinalityType
<1>4. \A x \in live : op # [kind |-> "fill", of |-> x]
  BY DEF Idle
<1>5. Holds(z) /\ Counted(z) /\ z \in Ends /\ Argv # Buffer /\ Argv \in Vars /\ Buffer \in Vars
  BY <1>1, <1>2, Names DEF Client, Argv, Buffer, Var
<1>6. PICK g, n : g = Cardinality(GoneArgv) /\ n = Cardinality(N)
  OBVIOUS
<1>7. /\ g \in Nat /\ n \in Nat
       /\ g + One(Argv \in z) = kept.refused /\ n + One(Buffer \in z) = kept.buffers
  BY <1>3, <1>5, <1>6 DEF Counted
<1>8. \A x \in live : x # Nothing
  BY HeldRoute DEF ClientInv
<1>9. CASE z = {}
  <2>1. \A v \in Vars : held[v] = Nothing
    BY <1>5, <1>9 DEF Holds
  <2>2. Gone = live
    BY <1>4, <1>8, <2>1 DEF Gone
  <2>3. GoneArgv = A /\ N = B
    BY <2>2 DEF GoneArgv
  <2>4. One(Argv \in z) = 0 /\ One(Buffer \in z) = 0
    BY <1>9 DEF One
  <2>. HIDE DEF A, B, N
  <2>7. Cardinality(A) = kept.refused /\ Cardinality(B) = kept.buffers
    BY <1>6, <1>7, <2>3, <2>4
  <2>. QED
    BY <2>7 DEF A, B
<1>10. CASE z = {Argv}
  <2>1. PICK x : x = held[Argv]
    OBVIOUS
  <2>2. x \in live /\ x.size = SizeOf["argv"] /\ \A v \in Vars \ {Argv} : held[v] = Nothing
    BY <1>5, <1>10, <2>1 DEF Holds
  <2>3. Gone = live \ {x}
    BY <1>4, <1>5, <1>8, <2>1, <2>2 DEF Gone
  <2>4. A = GoneArgv \cup {x} /\ x \notin GoneArgv /\ N = B
    BY <2>2, <2>3 DEF GoneArgv
  <2>5. Cardinality(A) = Cardinality(GoneArgv) + 1
    BY <1>3, <2>4, FS_AddElement
  <2>6. One(Argv \in z) = 1 /\ One(Buffer \in z) = 0
    BY <1>5, <1>10 DEF One
  <2>. HIDE DEF A, B, N
  <2>7. Cardinality(A) = kept.refused /\ Cardinality(B) = kept.buffers
    BY <1>6, <1>7, <2>4, <2>5, <2>6
  <2>. QED
    BY <2>7 DEF A, B
<1>11. CASE z = {Buffer}
  <2>1. PICK x : x = held[Buffer]
    OBVIOUS
  <2>2. x \in live /\ x.size # SizeOf["argv"] /\ \A v \in Vars \ {Buffer} : held[v] = Nothing
    BY <1>5, <1>11, <2>1 DEF Holds
  <2>3. Gone = live \ {x}
    BY <1>4, <1>5, <1>8, <2>1, <2>2 DEF Gone
  <2>4. B = N \cup {x} /\ x \notin N /\ GoneArgv = A
    BY <2>2, <2>3 DEF GoneArgv
  <2>5. Cardinality(B) = Cardinality(N) + 1
    BY <1>3, <2>4, FS_AddElement
  <2>6. One(Argv \in z) = 0 /\ One(Buffer \in z) = 1
    BY <1>5, <1>11 DEF One
  <2>. HIDE DEF A, B, N
  <2>7. Cardinality(A) = kept.refused /\ Cardinality(B) = kept.buffers
    BY <1>6, <1>7, <2>4, <2>5, <2>6
  <2>. QED
    BY <2>7 DEF A, B
<1>. QED
  BY <1>5, <1>9, <1>10, <1>11 DEF Ends

\* Enter: a command begins with nothing held.
LEMMA EnterStep ==
    ASSUME Fits, SizeOf["argv"] \notin ReadSizes, ClientInv, Sane, Sane',
           NEW cmd \in Commands, enter_command(cmd)
    PROVE  ClientInv'
<1>1. /\ op = Idle /\ program = <<>> /\ UNCHANGED vars /\ waiting' = waiting
      /\ verdict' = verdict /\ program' = process_input(cmd)
      /\ held' = [v \in Vars |-> Nothing]
  BY DEF enter_command
<1>2. IInv' /\ live' = live /\ op' = op
  BY <1>1, StepInv DEF ClientInv, vars
<1>3. Runs(OwnRule, program', {}, Leftover(cmd)) /\ {} \in SUBSET Vars /\ Leftover(cmd) \in Ends
  BY <1>1, OwnCommand DEF Leftover, Ends
<1>4. Waits'
  <2>1. ~waiting
    BY <1>1 DEF ClientInv, Waits
  <2>. QED
    BY <1>1, <1>2, <2>1 DEF ClientInv, Waits, Idle
<1>5. held' \in [Vars -> [ptr : Nat, size : Nat]] /\ \A v \in Vars : held'[v] = Nothing
  BY <1>1 DEF Nothing, NULL
<1>6. Holds({})'
  BY <1>5 DEF Holds
<1>. DEFINE A == {x \in live : x.size = SizeOf["argv"]}
            B == {x \in live : x.size # SizeOf["argv"]}
<1>7. Gone' = live /\ GoneArgv' = A /\ Gone' \ GoneArgv' = B
  <2>1. \A x \in live : x # Nothing /\ op # [kind |-> "fill", of |-> x]
    BY <1>1, HeldRoute DEF ClientInv, Idle
  <2>2. Gone' = live
    BY <1>2, <1>5, <2>1 DEF Gone
  <2>. QED
    BY <2>2 DEF GoneArgv
<1>8. Cardinality(A) = kept.refused /\ Cardinality(B) = kept.buffers
  BY <1>1, PromptCounts
<1>9. kept \in [refused : Nat, buffers : Nat] /\ IsFiniteSet(live)
      /\ verdict \subseteq {"null", "overlap"}
  BY DEF ClientInv
<1>. HIDE DEF A, B
<1>10. Counted(Leftover(cmd))' /\ kept' \in [refused : Nat, buffers : Nat]
  <2>1. Argv # Buffer
    BY DEF Argv, Buffer, Var
  <2>2. CASE cmd.name = "refused"
    <3>1. kept' = [kept EXCEPT !.refused = @ + 1] /\ Leftover(cmd) = {Argv}
      BY <2>2 DEF enter_command, Leftover
    <3>2. /\ kept' \in [refused : Nat, buffers : Nat]
          /\ kept'.refused = kept.refused + 1 /\ kept'.buffers = kept.buffers
      BY <1>9, <3>1
    <3>. QED
      BY <1>7, <1>8, <1>9, <2>1, <3>1, <3>2 DEF Counted, One
  <2>3. CASE cmd.name = "diskR"
    <3>1. kept' = [kept EXCEPT !.buffers = @ + 1] /\ Leftover(cmd) = {Buffer}
      BY <2>3 DEF enter_command, Leftover
    <3>2. /\ kept' \in [refused : Nat, buffers : Nat]
          /\ kept'.refused = kept.refused /\ kept'.buffers = kept.buffers + 1
      BY <1>9, <3>1
    <3>. QED
      BY <1>7, <1>8, <1>9, <2>1, <3>1, <3>2 DEF Counted, One
  <2>4. CASE cmd.name \notin {"refused", "diskR"}
    <3>1. kept' = kept /\ Leftover(cmd) = {}
      BY <2>4 DEF enter_command, Leftover
    <3>. QED
      BY <1>7, <1>8, <1>9, <3>1 DEF Counted, One
  <2>. QED
    BY <2>2, <2>3, <2>4
<1>11. Client({}, Leftover(cmd))'
  BY <1>3, <1>6, <1>10 DEF Client
<1>. QED
  BY <1>1, <1>2, <1>4, <1>5, <1>9, <1>10, <1>11 DEF ClientInv

\* The first instruction of a command and the variables after it.
LEMMA FirstInstr ==
    ASSUME NEW a, NEW z, Client(a, z), program # <<>>
    PROVE  /\ Head(program) \in Instructions
           /\ \E b : /\ b \in SUBSET Vars /\ <<a, Head(program), b>> \in OwnRule
                     /\ Runs(OwnRule, Tail(program), b, z)
<1>1. Runs(OwnRule, program, a, z)
  BY DEF Client
<1>2. Head(program) \in Instructions
  BY <1>1, RunsTail
<1>3. PICK b : <<a, Head(program), b>> \in OwnRule /\ Runs(OwnRule, Tail(program), b, z)
  BY <1>1, RunsTail
<1>4. b \in SUBSET Vars
  BY <1>3 DEF OwnRule
<1>. QED
  BY <1>2, <1>3, <1>4

\* The fields of an instruction that takes or gives back memory.
LEMMA InstrFields ==
    ASSUME NEW i \in Instructions
    PROVE  /\ i.do \in {"alloc", "free", "verify", "above"}
           /\ i.do = "alloc" => i.var \in Vars /\ i.size \in Sizes
           /\ i.do = "free" => i.var \in Vars
           /\ i.do = "verify" => i.vars \subseteq Vars
BY DEF Instructions

\* kmalloc goes on, or has returned memory or NULL to a caller that waits.
LEMMA CallEffect ==
    ASSUME Fits, ClientInv, IInv', NEW size, program # <<>>, Head(program).do = "alloc",
           size = Head(program).size, op.kind # "fill", waiting' = TRUE,
           UNCHANGED <<program, held, verdict, kept>>,
           \/ live' = live /\ op' = Idle
           \/ live' = live /\ op'.kind = "map" /\ op'.size = size
           \/ HandsOut(size)
    PROVE  ClientInv'
<1>1. PICK a, z : Client(a, z)
  BY DEF ClientInv
<1>2. /\ program' = program /\ held' = held /\ verdict' = verdict /\ kept' = kept
  OBVIOUS
<1>3. /\ Holds(a) /\ IsFiniteSet(live) /\ Counted(z)
      /\ \A x \in live : op # [kind |-> "fill", of |-> x]
  BY <1>1 DEF Client, ClientInv
<1>4. CASE live' = live /\ op'.kind # "fill"
  <2>1. \A x : op' # [kind |-> "fill", of |-> x]
    BY <1>4
  <2>2. Holds(a)'
    BY <1>2, <1>3, <1>4, <2>1 DEF Holds
  <2>3. Gone' = Gone
    BY <1>2, <1>3, <1>4, <2>1 DEF Gone
  <2>4. Counted(z)'
    BY <1>2, <1>3, <2>3 DEF Counted, GoneArgv
  <2>5. Client(a, z)'
    BY <1>1, <1>2, <2>2, <2>4 DEF Client
  <2>6. Waits'
    BY <1>2, <1>4 DEF Waits, HandsOut, Idle
  <2>. QED
    BY <1>2, <1>4, <2>5, <2>6 DEF ClientInv
<1>5. CASE HandsOut(size)
  <2>1. PICK x : /\ x \notin live /\ x.size = size
                 /\ live' = live \cup {x} /\ op' = [kind |-> "fill", of |-> x]
    BY <1>5 DEF HandsOut
  <2>2. \A y : op' = [kind |-> "fill", of |-> y] => y = x
    <3>1. op'.of = x
      BY <2>1
    <3>. QED
      BY <3>1
  <2>3. \A v \in Vars : held[v] # Nothing => held[v] \in live /\ held[v] # x
    BY <1>3, <2>1 DEF Holds
  <2>4. Holds(a)'
    BY <1>2, <1>3, <2>1, <2>2, <2>3 DEF Holds
  <2>5. Gone' = Gone
    BY <1>2, <1>3, <2>1, <2>2 DEF Gone
  <2>6. Counted(z)'
    BY <1>2, <1>3, <2>5 DEF Counted, GoneArgv
  <2>7. Client(a, z)'
    BY <1>1, <1>2, <2>4, <2>6 DEF Client
  <2>8. Waits'
    BY <1>2, <2>1 DEF Waits
  <2>9. IsFiniteSet(live')
    BY <1>3, <2>1, FS_AddElement
  <2>. QED
    BY <1>2, <2>7, <2>8, <2>9 DEF ClientInv
<1>. QED
  BY <1>4, <1>5 DEF Idle

\* kmalloc is called.
LEMMA AllocStep ==
    ASSUME Fits, ClientInv, Sane, Sane', call_kmalloc
    PROVE  ClientInv'
<1>1. PICK a, z : Client(a, z)
  BY DEF ClientInv
<1>2. /\ op = Idle /\ program # <<>> /\ Head(program).do = "alloc"
  BY DEF call_kmalloc, At
<1>3. PICK size : size = Head(program).size
  OBVIOUS
<1>4. size \in Sizes
  BY <1>1, <1>2, <1>3, FirstInstr, InstrFields
<1>5. alloc_fast(size) \/ alloc_slow(size) \/ large_begin(size)
  BY <1>3 DEF call_kmalloc
<1>6. IInv'
  <2>1. Next
    BY <1>4, <1>5 DEF Next
  <2>. QED
    BY <2>1, StepInv DEF ClientInv
<1>7. cpu' = "run"
  BY <1>6 DEF IInv, Inv, Typed
<1>8. \/ live' = live /\ op' = Idle
      \/ live' = live /\ op'.kind = "map" /\ op'.size = size
      \/ HandsOut(size)
  BY <1>4, <1>5, <1>7, CallBegins DEF ClientInv
<1>9. waiting' = TRUE /\ UNCHANGED <<program, held, verdict, kept>> /\ op.kind # "fill"
  BY <1>2 DEF call_kmalloc, Idle
<1>. QED
  BY <1>2, <1>3, <1>6, <1>8, <1>9, CallEffect

\* The heap works on a call, or on boot.
LEMMA HeapStep ==
    ASSUME Fits, ClientInv, Sane, Sane', heap_step
    PROVE  ClientInv'
<1>1. PICK a, z : Client(a, z)
  BY DEF ClientInv
<1>2. IInv' /\ IInv /\ Step
  <2>1. Next /\ Step
    BY DEF heap_step, Next
  <2>. QED
    BY <2>1, StepInv DEF ClientInv
<1>3. cpu' = "run"
  BY <1>2 DEF IInv, Inv, Typed
<1>4. /\ Holds(a) /\ IsFiniteSet(live) /\ Counted(z) /\ Waits
      /\ held \in [Vars -> [ptr : Nat, size : Nat]]
  BY <1>1 DEF Client, ClientInv
<1>5. CASE op.kind = "fill"
  <2>1. PICK x, v : x = op.of /\ v = Head(program).var
    OBVIOUS
  <2>2. live' = live /\ op' = Idle
    BY <1>2, <1>3, <1>5, CallGoesOn
  <2>3. /\ held' = [held EXCEPT ![v] = x] /\ program' = Tail(program) /\ waiting' = FALSE
        /\ verdict' = verdict /\ kept' = kept
    BY <1>5, <2>1 DEF heap_step
  <2>4. op = [kind |-> "fill", of |-> x] /\ x \in live
    <3>1. op \in [kind : {"fill"}, of : live]
      BY <1>2, <1>5, CallKinds DEF IInv, Inv, Typed
    <3>. QED
      BY <2>1, <3>1
  <2>5. program # <<>> /\ Head(program).do = "alloc" /\ x.size = Head(program).size
    BY <1>4, <1>5, <2>1 DEF Waits
  <2>6. PICK b : /\ b \in SUBSET Vars /\ <<a, Head(program), b>> \in OwnRule
                 /\ Runs(OwnRule, Tail(program), b, z)
    BY <1>1, <2>5, FirstInstr
  <2>7. v \in Vars
    BY <1>1, <2>1, <2>5, FirstInstr, InstrFields
  <2>8. v \notin a /\ b = a \cup {v} /\ Tracked(Head(program))
    BY <2>1, <2>5, <2>6 DEF OwnRule
  <2>9. held[v] = Nothing /\ x # Nothing /\ \A y \in live : y # Nothing
    BY <1>2, <1>4, <2>4, <2>7, <2>8, HeldRoute DEF Holds
  <2>10. /\ held'[v] = x /\ \A w \in Vars \ {v} : held'[w] = held[w]
         /\ held' \in [Vars -> [ptr : Nat, size : Nat]]
    <3>1. x \in [ptr : Nat, size : Nat]
      <4>1. x \in [ptr : Nat, size : Sizes]
        BY <1>2, <2>4 DEF IInv, Inv, Typed
      <4>2. x.size \in Nat
        BY <4>1, PagesForFacts
      <4>. QED
        BY <4>1, <4>2
    <3>. QED
      BY <1>4, <2>3, <2>7, <3>1
  <2>11. \A w \in Vars : held[w] # x
    BY <1>4, <2>4, <2>9 DEF Holds
  <2>12. Holds(b)'
    <3>. SUFFICES ASSUME NEW w \in Vars
                  PROVE  /\ w \notin b => held'[w] = Nothing
                         /\ w \in b /\ w \in {Argv, Buffer} => held'[w] # Nothing
                         /\ held'[w] # Nothing =>
                               held'[w] \in live' /\ op' # [kind |-> "fill", of |-> held'[w]]
                         /\ w = Argv /\ held'[w] # Nothing => held'[w].size = SizeOf["argv"]
                         /\ w = Buffer /\ held'[w] # Nothing => held'[w].size # SizeOf["argv"]
                         /\ \A u \in Vars : held'[w] = held'[u] /\ held'[w] # Nothing => w = u
      BY DEF Holds
    <3>1. op' # [kind |-> "fill", of |-> held'[w]]
      BY <2>2 DEF Idle
    <3>2. CASE w = v
      BY <2>1, <2>2, <2>4, <2>5, <2>8, <2>9, <2>10, <2>11, <3>1, <3>2 DEF Tracked
    <3>3. CASE w # v
      <4>1. /\ w \notin b => held[w] = Nothing
            /\ w \in b /\ w \in {Argv, Buffer} => held[w] # Nothing
            /\ held[w] # Nothing => held[w] \in live
            /\ w = Argv /\ held[w] # Nothing => held[w].size = SizeOf["argv"]
            /\ w = Buffer /\ held[w] # Nothing => held[w].size # SizeOf["argv"]
            /\ \A u \in Vars : held[w] = held[u] /\ held[w] # Nothing => w = u
        BY <1>4, <2>8, <3>3 DEF Holds
      <4>. QED
        BY <2>2, <2>10, <2>11, <3>1, <3>3, <4>1
    <3>. QED
      BY <3>2, <3>3
  <2>13. Gone' = Gone
    <3>1. \A y \in live : (op # [kind |-> "fill", of |-> y]) <=> (y # x)
      BY <2>4
    <3>2. \A y : op' # [kind |-> "fill", of |-> y]
      BY <2>2 DEF Idle
    <3>3. \A y \in live : (\A w \in Vars : held'[w] # y) <=>
                          (y # x /\ \A w \in Vars : held[w] # y)
      BY <2>7, <2>9, <2>10
    <3>. QED
      BY <2>2, <3>1, <3>2, <3>3 DEF Gone
  <2>14. Counted(z)'
    BY <1>4, <2>3, <2>13 DEF Counted, GoneArgv
  <2>15. Client(b, z)'
    BY <1>1, <2>3, <2>6, <2>12, <2>14 DEF Client
  <2>16. Waits'
    BY <2>2, <2>3 DEF Waits, Idle
  <2>. QED
    BY <1>2, <2>2, <2>3, <2>10, <2>15, <2>16 DEF ClientInv
<1>6. CASE op.kind = "map"
  <2>1. PICK size : size = op.size
    OBVIOUS
  <2>2. /\ program # <<>> /\ Head(program).do = "alloc" /\ size = Head(program).size /\ waiting
    BY <1>4, <1>6, <2>1 DEF Waits
  <2>3. \/ live' = live /\ op' = Idle
        \/ live' = live /\ op'.kind = "map" /\ op'.size = size
        \/ HandsOut(size)
    BY <1>2, <1>3, <1>6, <2>1, CallGoesOn
  <2>4. waiting' = TRUE /\ UNCHANGED <<program, held, verdict, kept>>
    BY <1>6, <2>2 DEF heap_step, clientVars
  <2>. QED
    BY <1>2, <1>6, <2>2, <2>3, <2>4, CallEffect
<1>7. CASE op.kind \notin {"fill", "map"}
  <2>1. live' = live /\ op'.kind \notin {"fill", "map"} /\ op.kind # "idle"
    BY <1>2, <1>3, <1>7, CallGoesOn
  <2>2. /\ program' = program /\ held' = held /\ waiting' = waiting /\ verdict' = verdict
        /\ kept' = kept
    BY <1>7 DEF heap_step, clientVars
  <2>3. \A x : op' # [kind |-> "fill", of |-> x] /\ op # [kind |-> "fill", of |-> x]
    BY <1>7, <2>1
  <2>4. Holds(a)'
    BY <1>4, <2>1, <2>2, <2>3 DEF Holds
  <2>5. Gone' = Gone
    BY <2>1, <2>2, <2>3 DEF Gone
  <2>6. Counted(z)'
    BY <1>4, <2>2, <2>5 DEF Counted, GoneArgv
  <2>7. Client(a, z)'
    BY <1>1, <2>2, <2>4, <2>6 DEF Client
  <2>8. ~waiting
    BY <1>4, <1>7, <2>1 DEF Waits
  <2>9. Waits'
    BY <1>4, <2>1, <2>2, <2>8 DEF Waits
  <2>. QED
    BY <1>2, <2>1, <2>2, <2>7, <2>9 DEF ClientInv
<1>. QED
  BY <1>5, <1>6, <1>7

\* The command goes on while the heap rests.
LEMMA PassBy ==
    ASSUME Fits, ClientInv, Sane, Sane', op = Idle, UNCHANGED vars, program # <<>>,
           NEW a, NEW z, Client(a, z), NEW b, b \in SUBSET Vars,
           Runs(OwnRule, Tail(program), b, z), Holds(b),
           program' = Tail(program), held' = held, waiting' = FALSE, kept' = kept,
           verdict' \subseteq {"null", "overlap"}
    PROVE  ClientInv'
<1>1. IInv' /\ live' = live /\ op' = op
  BY StepInv DEF ClientInv, vars
<1>2. Holds(b)'
  BY <1>1 DEF Holds
<1>3. Gone' = Gone
  BY <1>1 DEF Gone
<1>4. Counted(z)'
  BY <1>3 DEF Client, Counted, GoneArgv
<1>5. Client(b, z)'
  BY <1>2, <1>4 DEF Client
<1>6. Waits'
  BY <1>1 DEF Waits, Idle
<1>. QED
  BY <1>1, <1>5, <1>6 DEF ClientInv

\* kmalloc returned NULL.
LEMMA NullStep ==
    ASSUME Fits, ClientInv, Sane, Sane', got_null, cpu' = "run"
    PROVE  ClientInv'
<1>1. PICK a, z : Client(a, z)
  BY DEF ClientInv
<1>2. op = Idle /\ waiting
  BY DEF got_null
<1>3. program # <<>> /\ Head(program).do = "alloc"
  BY <1>2 DEF ClientInv, Waits
<1>4. /\ Head(program).onNull # "fault" /\ program' = Tail(program) /\ waiting' = FALSE
      /\ UNCHANGED vars /\ held' = held /\ kept' = kept
      /\ verdict' \subseteq verdict \cup {"null"}
  BY DEF got_null, Stop
<1>5. PICK b : /\ b \in SUBSET Vars /\ <<a, Head(program), b>> \in OwnRule
               /\ Runs(OwnRule, Tail(program), b, z)
  BY <1>1, <1>3, FirstInstr
<1>6. PICK v : v = Head(program).var
  OBVIOUS
<1>7. v \notin a /\ b = a \cup {v} /\ v \notin {Argv, Buffer}
  BY <1>3, <1>4, <1>5, <1>6 DEF OwnRule, Tracked
<1>8. Holds(b)
  BY <1>1, <1>7 DEF Client, Holds
<1>9. verdict' \subseteq {"null", "overlap"}
  BY <1>4 DEF ClientInv
<1>. QED
  BY <1>1, <1>2, <1>3, <1>4, <1>5, <1>8, <1>9, PassBy

\* The values are looked at, and they are there.
LEMMA VerifyStep ==
    ASSUME Fits, ClientInv, Sane, Sane', verify
    PROVE  /\ ClientInv' /\ verdict' = verdict /\ program' = Tail(program)
           /\ UNCHANGED <<vars, held, waiting>>
<1>1. PICK a, z : Client(a, z)
  BY DEF ClientInv
<1>2. op = Idle /\ ~waiting /\ program # <<>> /\ Head(program).do = "verify"
  BY DEF verify, At
<1>3. PICK b : /\ b \in SUBSET Vars /\ <<a, Head(program), b>> \in OwnRule
               /\ Runs(OwnRule, Tail(program), b, z)
  BY <1>1, <1>2, FirstInstr
<1>4. b = a /\ Head(program).vars \subseteq Vars
  <2>1. b = a
    BY <1>2, <1>3 DEF OwnRule
  <2>. QED
    BY <1>1, <1>2, <2>1, FirstInstr, InstrFields
<1>. DEFINE vs    == {v \in Head(program).vars : held[v] # Nothing}
            words == UNION {UserWords(held[v]) : v \in vs}
<1>5. \A w \in words : Mapped(m, w) /\ Read(m, w) = Sentinel(w)
  <2>1. UserDataIntact /\ TablesBacked
    BY InvData DEF ClientInv, Sane
  <2>2. ASSUME NEW v \in vs, NEW w \in UserWords(held[v])
        PROVE  Mapped(m, w) /\ Read(m, w) = Sentinel(w)
    <3>1. held[v] \in live
      BY <1>1, <1>4 DEF Client, Holds
    <3>2. op # [kind |-> "fill", of |-> held[v]]
      BY <1>2 DEF Idle
    <3>. QED
      BY <2>1, <2>2, <3>1, <3>2 DEF UserDataIntact
  <2>. QED
    BY <2>2
<1>6. /\ verdict' = verdict /\ program' = Tail(program) /\ UNCHANGED <<vars, held, waiting, kept>>
  <2>1. /\ ~\E w \in words : ~Mapped(m, w)
        /\ \A w \in words : Read(m, w) = Sentinel(w)
    BY <1>5
  <2>. QED
    BY <2>1 DEF verify
<1>7. verdict \subseteq {"null", "overlap"} /\ Holds(b)
  BY <1>1, <1>4 DEF ClientInv, Client
<1>8. waiting' = FALSE
  BY <1>2, <1>6 DEF ClientInv, Waits
<1>9. ClientInv'
  BY <1>1, <1>2, <1>3, <1>6, <1>7, <1>8, PassBy
<1>. QED
  BY <1>6, <1>9

\* The addresses are compared.
LEMMA AboveStep ==
    ASSUME Fits, ClientInv, Sane, Sane', above
    PROVE  ClientInv'
<1>1. PICK a, z : Client(a, z)
  BY DEF ClientInv
<1>2. op = Idle /\ ~waiting /\ program # <<>> /\ Head(program).do = "above"
  BY DEF above, At
<1>3. PICK b : /\ b \in SUBSET Vars /\ <<a, Head(program), b>> \in OwnRule
               /\ Runs(OwnRule, Tail(program), b, z)
  BY <1>1, <1>2, FirstInstr
<1>4. b = a
  BY <1>2, <1>3 DEF OwnRule
<1>5. /\ verdict' \subseteq verdict \cup {"overlap"} /\ program' = Tail(program)
      /\ UNCHANGED <<vars, held, waiting, kept>>
  BY DEF above
<1>6. verdict' \subseteq {"null", "overlap"} /\ Holds(b)
  BY <1>1, <1>4, <1>5 DEF ClientInv, Client
<1>7. waiting' = FALSE
  BY <1>2, <1>5 DEF ClientInv, Waits
<1>. QED
  BY <1>1, <1>2, <1>3, <1>5, <1>6, <1>7, PassBy

\* kfree is called.
LEMMA FreeCall ==
    ASSUME Fits, ClientInv, Sane, Sane', call_kfree
    PROVE  ClientInv'
<1>1. PICK a, z : Client(a, z)
  BY DEF ClientInv
<1>2. op = Idle /\ ~waiting /\ program # <<>> /\ Head(program).do = "free"
  BY DEF call_kfree, At
<1>3. PICK b : /\ b \in SUBSET Vars /\ <<a, Head(program), b>> \in OwnRule
               /\ Runs(OwnRule, Tail(program), b, z)
  BY <1>1, <1>2, FirstInstr
<1>4. PICK v, x : v = Head(program).var /\ x = held[v]
  OBVIOUS
<1>5. v \in Vars /\ v # Buffer /\ b = a \ {v}
  <2>1. v \in Vars
    BY <1>1, <1>2, <1>4, FirstInstr, InstrFields
  <2>. QED
    BY <1>2, <1>3, <1>4, <2>1 DEF OwnRule
<1>6. /\ program' = Tail(program) /\ held' = [held EXCEPT ![v] = Nothing]
      /\ waiting' = waiting /\ verdict' = verdict /\ kept' = kept
      /\ \/ free_small(x) \/ large_free_begin(x)
         \/ Route(x.ptr) = 0 /\ UNCHANGED vars
  BY <1>4 DEF call_kfree
<1>7. /\ Holds(a) /\ IsFiniteSet(live) /\ Counted(z) /\ waiting' = FALSE
      /\ held \in [Vars -> [ptr : Nat, size : Nat]] /\ IInv
      /\ \A y : op # [kind |-> "fill", of |-> y]
  BY <1>1, <1>2, <1>6 DEF Client, ClientInv, Waits, Idle
<1>8. \A y \in live : y # Nothing
  BY <1>7, HeldRoute
<1>9. /\ held'[v] = Nothing /\ \A w \in Vars \ {v} : held'[w] = held[w]
      /\ held' \in [Vars -> [ptr : Nat, size : Nat]]
  BY <1>5, <1>6, <1>7 DEF Nothing, NULL
<1>10. CASE x = Nothing
  <2>1. Route(x.ptr) = 0
    BY <1>10, RouteOfNull DEF Nothing
  <2>2. UNCHANGED vars
    <3>1. 0 \notin Domains /\ 0 # Large
      BY HeapNumbers DEF Domains, Large
    <3>. QED
      BY <1>6, <2>1, <3>1 DEF free_small, large_free_begin
  <2>3. held' = held
    BY <1>4, <1>5, <1>6, <1>7, <1>10
  <2>4. Holds(b)
    BY <1>4, <1>5, <1>7, <1>10 DEF Holds
  <2>. QED
    BY <1>1, <1>2, <1>3, <1>6, <1>7, <2>2, <2>3, <2>4, PassBy DEF ClientInv
<1>11. CASE x # Nothing
  <2>1. x \in live
    BY <1>4, <1>5, <1>7, <1>11 DEF Holds
  <2>2. free_small(x) \/ large_free_begin(x)
    <3>1. Route(x.ptr) # 0
      <4>1. Route(x.ptr) \in Heaps
        BY <1>7, <2>1, HeldRoute
      <4>2. 0 \notin Heaps
        BY HeapNumbers DEF Heaps, Domains, Large
      <4>. QED
        BY <4>1, <4>2
    <3>. QED
      BY <1>6, <3>1
  <2>3. IInv'
    <3>1. Next
      BY <2>1, <2>2 DEF Next
    <3>. QED
      BY <1>7, <3>1, StepInv
  <2>4. cpu' = "run"
    BY <2>3 DEF IInv, Inv, Typed
  <2>5. live' = live \ {x} /\ op'.kind \in {"idle", "unmap"}
    BY <1>2, <2>2, <2>4 DEF free_small, large_free_begin, Stop, Idle
  <2>6. \A y : op' # [kind |-> "fill", of |-> y]
    BY <2>5
  <2>7. \A w \in Vars \ {v} : held[w] # x
    BY <1>4, <1>5, <1>7, <1>11 DEF Holds
  <2>8. Holds(b)'
    <3>. SUFFICES ASSUME NEW w \in Vars
                  PROVE  /\ w \notin b => held'[w] = Nothing
                         /\ w \in b /\ w \in {Argv, Buffer} => held'[w] # Nothing
                         /\ held'[w] # Nothing =>
                               held'[w] \in live' /\ op' # [kind |-> "fill", of |-> held'[w]]
                         /\ w = Argv /\ held'[w] # Nothing => held'[w].size = SizeOf["argv"]
                         /\ w = Buffer /\ held'[w] # Nothing => held'[w].size # SizeOf["argv"]
                         /\ \A u \in Vars : held'[w] = held'[u] /\ held'[w] # Nothing => w = u
      BY DEF Holds
    <3>1. CASE w = v
      BY <1>5, <1>9, <3>1
    <3>2. CASE w # v
      <4>1. /\ w \notin b => held[w] = Nothing
            /\ w \in b /\ w \in {Argv, Buffer} => held[w] # Nothing
            /\ held[w] # Nothing => held[w] \in live
            /\ w = Argv /\ held[w] # Nothing => held[w].size = SizeOf["argv"]
            /\ w = Buffer /\ held[w] # Nothing => held[w].size # SizeOf["argv"]
            /\ \A u \in Vars : held[w] = held[u] /\ held[w] # Nothing => w = u
        BY <1>5, <1>7, <3>2 DEF Holds
      <4>. QED
        BY <1>9, <2>5, <2>6, <2>7, <3>2, <4>1
    <3>. QED
      BY <3>1, <3>2
  <2>9. Gone' = Gone
    <3>1. \A y \in live : (y # x /\ \A w \in Vars : held'[w] # y) <=> (\A w \in Vars : held[w] # y)
      BY <1>4, <1>5, <1>8, <1>9
    <3>. QED
      BY <1>7, <2>5, <2>6, <3>1 DEF Gone
  <2>10. Counted(z)'
    BY <1>6, <1>7, <2>9 DEF Counted, GoneArgv
  <2>11. Client(b, z)'
    BY <1>1, <1>3, <1>6, <2>8, <2>10 DEF Client
  <2>12. Waits'
    BY <1>7, <2>5 DEF Waits
  <2>13. IsFiniteSet(live')
    BY <1>7, <2>5, FS_RemoveElement
  <2>. QED
    BY <1>6, <1>9, <2>3, <2>11, <2>12, <2>13 DEF ClientInv
<1>. QED
  BY <1>10, <1>11

\* Every step keeps the invariant, or the machine has stopped on a store through
\* the NULL that a command did not look at.
LEMMA ClientStep ==
    ASSUME Fits, SizeOf["argv"] \notin ReadSizes, Sane, Sane',
           cpu = "run" => ClientInv, [ClientNext]_<<vars, clientVars>>
    PROVE  cpu' = "run" => ClientInv'
<1>. SUFFICES ASSUME cpu' = "run" PROVE ClientInv'
  OBVIOUS
<1>1. CASE UNCHANGED <<vars, clientVars>>
  <2>1. ClientInv
    BY <1>1 DEF vars
  <2>2. /\ live' = live /\ op' = op /\ program' = program /\ held' = held
        /\ waiting' = waiting /\ verdict' = verdict /\ kept' = kept /\ UNCHANGED vars
    BY <1>1 DEF vars, clientVars
  <2>3. IInv'
    BY <2>1, <2>2, StepInv DEF ClientInv
  <2>4. PICK a, z : Client(a, z)
    BY <2>1 DEF ClientInv
  <2>5. Holds(a)' /\ Gone' = Gone /\ Waits'
    BY <2>1, <2>2, <2>4 DEF Client, Holds, Gone, Waits, ClientInv
  <2>6. Client(a, z)'
    BY <2>2, <2>4, <2>5 DEF Client, Counted, GoneArgv
  <2>. QED
    BY <2>1, <2>2, <2>3, <2>5, <2>6 DEF ClientInv
<1>2. CASE ClientNext
  <2>1. cpu = "run"
    BY <1>2 DEF ClientNext, enter_command, call_kmalloc, heap_step, got_null, verify, above,
                call_kfree, At, Step, init_heap, premap, large_map, large_return, large_unmap,
                large_free_return, user_fill
  <2>. QED
    BY <1>2, <2>1, EnterStep, AllocStep, HeapStep, NullStep, VerifyStep, AboveStep, FreeCall
       DEF ClientNext
<1>. QED
  BY <1>1, <1>2

\* The kernel has booted and no command was typed.
LEMMA ClientStarts ==
    ASSUME Fits, ClientInit
    PROVE  ClientInv
<1>1. /\ Init /\ program = <<>> /\ waiting = FALSE /\ verdict = {}
      /\ held = [v \in Vars |-> Nothing] /\ kept = [refused |-> 0, buffers |-> 0]
      /\ live = {} /\ op.kind = "init"
  BY DEF ClientInit, Init
<1>2. IInv /\ IsFiniteSet(live)
  BY <1>1, InitInv, FS_EmptySet
<1>3. Waits
  BY <1>1 DEF Waits
<1>4. held \in [Vars -> [ptr : Nat, size : Nat]]
  BY <1>1 DEF Nothing, NULL
<1>5. Holds({})
  BY <1>1 DEF Holds
<1>6. Counted({})
  <2>1. Gone = {} /\ GoneArgv = {} /\ Gone \ GoneArgv = {}
    BY <1>1 DEF Gone, GoneArgv
  <2>2. Cardinality({}) = 0
    BY FS_EmptySet
  <2>3. One(Argv \in {}) = 0 /\ One(Buffer \in {}) = 0
    BY DEF One
  <2>. QED
    BY <1>1, <2>1, <2>2, <2>3 DEF Counted
<1>7. Client({}, {})
  BY <1>1, <1>5, <1>6, RunsNone DEF Client, Ends
<1>. QED
  BY <1>1, <1>2, <1>3, <1>4, <1>7 DEF ClientInv

\* The commands, too, keep the size classes within their regions.
LEMMA ClientSettled ==
    ASSUME Settled, FewHeld', cpu = "run" => ClientInv, [ClientNext]_<<vars, clientVars>>
    PROVE  Settled'
<1>1. CASE cursor' = cursor /\ live' = live /\ op' = op
  BY <1>1, GrownStays
<1>2. CASE ClientNext
  <2>1. cpu = "run"
    BY <1>2 DEF ClientNext, enter_command, call_kmalloc, heap_step, got_null, verify, above,
                call_kfree, At, Step, init_heap, premap, large_map, large_return, large_unmap,
                large_free_return, user_fill
  <2>2. ClientInv /\ IInv
    BY <2>1 DEF ClientInv
  <2>3. CASE (\E cmd \in Commands : enter_command(cmd)) \/ got_null \/ verify \/ above
    <3>1. cursor' = cursor /\ live' = live /\ op' = op
      BY <2>3 DEF enter_command, got_null, verify, above, Stop, vars
    <3>. QED
      BY <1>1, <3>1
  <2>4. CASE call_kmalloc
    <3>1. PICK a, z : Client(a, z)
      BY <2>2 DEF ClientInv
    <3>2. PICK size : size = Head(program).size
      OBVIOUS
    <3>3. program # <<>> /\ Head(program).do = "alloc"
      BY <2>4 DEF call_kmalloc, At
    <3>4. size \in Sizes
      BY <3>1, <3>2, <3>3, FirstInstr, InstrFields
    <3>5. alloc_fast(size) \/ alloc_slow(size) \/ large_begin(size)
      BY <2>4, <3>2 DEF call_kmalloc
    <3>. QED
      BY <2>2, <3>4, <3>5, GrownQuick, GrownSlow
  <2>5. CASE heap_step
    <3>1. Step
      BY <2>5 DEF heap_step
    <3>. QED
      BY <2>2, <3>1, GrownStep
  <2>6. CASE call_kfree
    <3>1. PICK a : free_small(a) \/ large_free_begin(a) \/ UNCHANGED vars
      BY <2>6 DEF call_kfree
    <3>2. UNCHANGED vars => cursor' = cursor /\ live' = live /\ op' = op
      BY DEF vars
    <3>. QED
      BY <1>1, <3>1, <3>2, GrownFree
  <2>. QED
    BY <1>2, <2>3, <2>4, <2>5, <2>6 DEF ClientNext
<1>3. UNCHANGED <<vars, clientVars>> => cursor' = cursor /\ live' = live /\ op' = op
  BY DEF vars
<1>. QED
  BY <1>1, <1>2, <1>3

\* Back at the prompt, the heap has everything it handed out except argv of each
\* refused disk command and one buffer for each diskR, after any sequence of
\* commands, also when the memory ran out half-way through one.
THEOREM OnlyLeaksKnown ==
    ASSUME Fits, SizeOf["argv"] \notin ReadSizes
    PROVE  ClientSpec /\ []Supplied => []OnlyKnownLeaks
<1>. DEFINE Safe == cpu = "run" => ClientInv
<1>1. ClientInit => Safe /\ Settled
  BY ClientStarts, GrownStarts DEF ClientInit
<1>2. Safe /\ Settled /\ Supplied /\ Supplied' /\ [ClientNext]_<<vars, clientVars>>
         => Safe' /\ Settled'
  <2>. SUFFICES ASSUME Safe, Settled, Supplied, Supplied', [ClientNext]_<<vars, clientVars>>
                PROVE  Safe' /\ Settled'
    OBVIOUS
  <2>1. Settled'
    BY ClientSettled DEF Supplied
  <2>2. Sane /\ Sane'
    BY <2>1 DEF Settled, Supplied, Sane
  <2>. QED
    BY <2>1, <2>2, ClientStep
<1>3. Safe => OnlyKnownLeaks
  <2>. SUFFICES ASSUME ClientInv, cpu = "run", op = Idle, program = <<>>
                PROVE  /\ Cardinality({a \in live : a.size = SizeOf["argv"]}) = kept.refused
                       /\ Cardinality(live) = kept.refused + kept.buffers
    BY DEF OnlyKnownLeaks, AtPrompt
  <2>. DEFINE A == {a \in live : a.size = SizeOf["argv"]}
              B == {a \in live : a.size # SizeOf["argv"]}
  <2>1. Cardinality(A) = kept.refused /\ Cardinality(B) = kept.buffers
    BY PromptCounts
  <2>2. IsFiniteSet(A) /\ IsFiniteSet(B) /\ live = A \cup B /\ A \cap B = {}
    <3>1. IsFiniteSet(live) /\ A \subseteq live /\ B \subseteq live
      BY DEF ClientInv
    <3>. QED
      BY <3>1, FS_Subset
  <2>3. Cardinality(live) = Cardinality(A) + Cardinality(B)
    BY <2>2, CountsAdd
  <2>. QED
    BY <2>1, <2>3
<1>. HIDE DEF Safe
<1>. QED
  BY <1>1, <1>2, <1>3, PTL DEF ClientSpec
-----------------------------------------------------------------------------
(* What a call does to the lengths of the freed slots and to the frames.   *)

Full == Frame \subseteq m.bitmap

\* The head of the list is the last slot, and the slots have their lengths.
LEMMA SlotTop ==
    ASSUME Fits, NEW len, NEW n, InvWith(len, n)
    PROVE  /\ n \in Nat /\ \A k \in 1 .. n : len[k] \in Nat
           /\ head[Large] = NULL <=> n = 0
           /\ n # 0 => Read(m, head[Large] + 1) = len[n]
<1>1. PICK stk, dep, use, from : Inv(stk, dep, len, use, from) /\ dep[Large] = n
  BY DEF InvWith
<1>2. Large \in Heaps
  BY DEF Heaps
<1>3. n \in Nat /\ IsList(m, head[Large], stk[Large], n)
  BY <1>1, <1>2 DEF Inv, Lists
<1>4. \A k \in 1 .. n : len[k] \in Nat
  BY <1>1 DEF Inv, SlotUses
<1>5. n = 0 => head[Large] = NULL
  BY <1>3 DEF IsList
<1>6. n # 0 => head[Large] # NULL
  BY <1>3 DEF IsList
<1>7. n # 0 => Read(m, head[Large] + 1) = len[n]
  <2>1. PICK slot, s : slot = head[Large] /\ s = stk[Large]
    OBVIOUS
  <2>. QED
    BY <1>1, <1>6, <2>1, FirstSlot
<1>. QED
  BY <1>3, <1>4, <1>5, <1>6, <1>7

\* get_next_free_process_frame finds a frame, or all are in use.
LEMMA FrameOrFull ==
    ASSUME IInv
    PROVE  /\ ~ScanHangs
           /\ ProcessFrame = NoFrame => Full
           /\ ProcessFrame # NoFrame => ProcessFrame \in Frame \ m.bitmap
<1>1. PICK stk, dep, len, use, from : Inv(stk, dep, len, use, from)
  BY DEF IInv
<1>2. Sound(m, dir, Started, Own(stk, dep))
  BY <1>1 DEF Inv
<1>3. m.bitmap \in SUBSET Frame /\ Image \subseteq m.bitmap
  BY <1>2 DEF Sound, Machines, Tables
<1>4. PICK f : f = NextProcessFrame(m.bitmap)
  OBVIOUS
<1>5. \/ f # NoFrame /\ f \in Frame \ (m.bitmap \cup Image)
      \/ f = NoFrame /\ m.bitmap = Frame
  BY ONLY <1>3, <1>4, ProcessFrameFound
<1>6. ~ScanHangs
  BY <1>2, NoHang
<1>. QED
  BY <1>4, <1>5, <1>6 DEF ProcessFrame, Full

\* The invariant with its slots is the invariant.
LEMMA WithInv ==
    ASSUME NEW len, NEW n, InvWith(len, n)
    PROVE  IInv /\ cpu = "run" /\ op \in Calls
BY DEF InvWith, IInv, Inv, Typed

\* kmalloc on a size class.
LEMMA SmallCall ==
    ASSUME Fits, NEW len, NEW n, InvWith(len, n), Sane', NEW size \in Sizes,
           alloc_fast(size) \/ alloc_slow(size)
    PROVE  InvWith(len, n)' /\ ((op' = Idle /\ Full') \/ op'.kind = "fill")
<1>1. PICK stk, dep, use, from : Inv(stk, dep, len, use, from) /\ dep[Large] = n
  BY DEF InvWith
<1>2. CASE alloc_fast(size)
  <2>1. InvWith(len, n)'
    BY <1>1, <1>2, FastStep
  <2>2. cpu' = "run"
    BY <2>1 DEF InvWith, Inv, Typed
  <2>. QED
    BY <1>2, <2>1, <2>2 DEF alloc_fast, Return, Stop
<1>3. CASE alloc_slow(size)
  <2>1. PICK d, v : d = ClassOf(size) /\ v = cursor[d]
    OBVIOUS
  <2>2. InvWith(len, n)'
    BY <1>1, <1>3, <2>1, SlowStep
  <2>3. ~ScanHangs /\ (ProcessFrame = NoFrame => Full)
    BY FrameOrFull, WithInv
  <2>4. CASE ProcessFrame = NoFrame
    <3>1. UNCHANGED vars /\ op = Idle
      BY <1>3, <2>3, <2>4 DEF alloc_slow
    <3>. QED
      BY <2>2, <2>3, <2>4, <3>1 DEF vars, Full
  <2>5. CASE ProcessFrame # NoFrame
    <3>1. op'.kind = "fill"
      BY <1>3, <2>3, <2>5 DEF alloc_slow, Return
    <3>. QED
      BY <2>2, <3>1
  <2>. QED
    BY <2>4, <2>5
<1>. QED
  BY <1>2, <1>3

\* kmalloc of whole pages begins: with the last slot when it is long enough,
\* whose first page gives its frame back, or behind everything.
Begins(len, n, n1, pages) ==
    \/ /\ n1 = n /\ (n # 0 => len[n] < pages)
       /\ m' = m /\ op'.start = cursor[Large]
    \/ /\ n1 = n - 1 /\ n # 0 /\ len[n] >= pages
       /\ \E f : m.bitmap \ {f} \subseteq m'.bitmap

\* The slot is taken or the cursor is, and the loop over the pages is next.
LEMMA LargeCall ==
    ASSUME Fits, NEW len, NEW n, InvWith(len, n), NEW size \in Sizes, large_begin(size),
           cpu' = "run"
    PROVE  /\ op'.kind = "map" /\ op'.i = 0 /\ op'.pages = PagesFor(size)
           /\ \E n1 : InvWith(len, n1)' /\ Begins(len, n, n1, PagesFor(size))
<1>1. PICK stk, dep, use, from : Inv(stk, dep, len, use, from) /\ dep[Large] = n
  BY DEF InvWith
<1>2. PICK slot, c, pages : slot = head[Large] /\ c = cursor[Large] /\ pages = PagesFor(size)
  OBVIOUS
<1>3. /\ n \in Nat /\ \A k \in 1 .. n : len[k] \in Nat
      /\ slot = NULL <=> n = 0
      /\ n # 0 => Read(m, slot + 1) = len[n]
  BY <1>2, SlotTop
<1>4. pages \in Nat
  BY <1>2, PagesForFacts
<1>5. ~(slot # NULL /\ ~Mapped(m, slot))
  BY <1>2 DEF large_begin, Stop
<1>6. /\ op'.kind = "map" /\ op'.i = 0 /\ op'.pages = pages
      /\ op'.start = IF SlotFits(slot, pages) THEN slot ELSE c
      /\ m' = IF SlotFits(slot, pages) THEN UnmapPage(m, dir[Large], slot) ELSE m
  BY <1>2, <1>5 DEF large_begin
<1>7. CASE ~SlotFits(slot, pages)
  <2>1. InvWith(len, n)'
    BY <1>1, <1>2, <1>7, BeginFresh
  <2>2. n # 0 => len[n] < pages
    <3>1. n # 0 => len[n] \in Nat /\ ~(len[n] >= pages)
      BY <1>3, <1>7 DEF SlotFits
    <3>. QED
      BY <1>4, <3>1
  <2>3. Begins(len, n, n, pages)
    BY <1>2, <1>6, <1>7, <2>2 DEF Begins
  <2>. QED
    BY <1>2, <1>6, <2>1, <2>3
<1>8. CASE SlotFits(slot, pages)
  <2>1. InvWith(len, n - 1)'
    BY <1>1, <1>2, <1>8, BeginReuse
  <2>2. n # 0 /\ len[n] >= pages
    BY <1>3, <1>8 DEF SlotFits
  <2>3. PICK f : m.bitmap \ {f} \subseteq m'.bitmap
    <3>. DEFINE g == FrameOf(ClearEntry(m.ram, dir[Large], slot)
                     [FrameOf(ClearEntry(m.ram, dir[Large], slot)[KernelDir][DirIndex(slot)])]
                     [TableIndex(slot)])
    <3>1. m'.bitmap = m.bitmap \/ m'.bitmap = ClearFrame(m.bitmap, g)
      BY <1>6, <1>8 DEF UnmapPage, Invlpg
    <3>. HIDE DEF g
    <3>2. m.bitmap \ {g} \subseteq m'.bitmap
      BY <3>1 DEF ClearFrame
    <3>. QED
      BY <3>2
  <2>4. Begins(len, n, n - 1, pages)
    BY <2>2, <2>3 DEF Begins
  <2>. QED
    BY <1>2, <1>6, <2>1, <2>4
<1>. QED
  BY <1>7, <1>8

\* map_page gives no frame back, and the data page's frame is in use after it.
LEMMA MapMarks ==
    ASSUME NEW mem, NEW d, NEW virt, NEW phys
    PROVE  /\ mem.bitmap \subseteq MapPage(mem, d, virt, phys).bitmap
           /\ mem.bitmap \subseteq Invlpg(MapPage(mem, d, virt, phys), virt).bitmap
<1>1. \A bm, f : bm \subseteq Mark(bm, f)
  BY DEF Mark, SetFrame
<1>2. mem.bitmap \subseteq MapPage(mem, d, virt, phys).bitmap
  BY <1>1 DEF MapPage
<1>3. PICK b, r, t : MapPage(mem, d, virt, phys) = [bitmap |-> b, ram |-> r, tlb |-> t]
  BY DEF MapPage
<1>. QED
  BY <1>2, <1>3 DEF Invlpg

\* The frame that goes into both directories is marked, and none is given up.
LEMMA DoubleMapMarks ==
    ASSUME Fits, IInv, NEW h, NEW virt, NEW f \in Frame, NEW mem \in DoubleMap(h, virt, f)
    PROVE  m.bitmap \cup {f} \subseteq mem.bitmap
<1>. DEFINE taken == [m EXCEPT !.bitmap = SetFrame(@, f)]
            own   == MapPage(taken, dir[h], virt, f)
            both  == MapPage(own, KernelDir, virt, f)
<1>1. mem = Invlpg(both, virt)
  BY DEF DoubleMap
<1>2. taken.bitmap = m.bitmap \cup {f}
  <2>1. f < AddressableFrames
    BY FrameConstants DEF Fits, Frame
  <2>2. m \in Machines
    BY DEF IInv, Inv, Sound
  <2>. QED
    BY <2>1, <2>2 DEF SetFrame, Machines
<1>3. taken.bitmap \subseteq own.bitmap
  BY MapMarks
<1>4. own.bitmap \subseteq mem.bitmap
  BY <1>1, MapMarks
<1>. HIDE DEF taken, own, both
<1>. QED
  BY <1>2, <1>3, <1>4

\* A round of kmalloc_large's loop, or its end.
LEMMA MapCall ==
    ASSUME Fits, NEW len, NEW n, InvWith(len, n), Sane', op.kind = "map",
           large_map \/ large_return
    PROVE  /\ InvWith(len, n)' /\ op.i \in Nat /\ op.pages = PagesFor(op.size)
           /\ op.start \in Nat
           /\ \/ op' = Idle /\ Full'
              \/ /\ op'.kind = "map" /\ op'.i = op.i + 1 /\ op'.start = op.start
                 /\ \E f \in Frame \ m.bitmap : m.bitmap \cup {f} \subseteq m'.bitmap
              \/ /\ op.i = op.pages /\ op'.kind = "fill" /\ op'.of.ptr = op.start + 1
<1>1. PICK stk, dep, use, from : Inv(stk, dep, len, use, from) /\ dep[Large] = n
  BY DEF InvWith
<1>2. PICK s, i, k, z : s = op.start /\ i = op.i /\ k = op.pages /\ z = op.size
  OBVIOUS
<1>3. op \in [kind : {"map"}, i : Nat, pages : Nat, size : Sizes, start : Nat]
  BY WithInv, CallKinds
<1>4. k = PagesFor(z)
  BY <1>1, <1>2 DEF Inv, CallUses
<1>5. CASE large_map
  <2>1. ~ScanHangs /\ (ProcessFrame = NoFrame => Full)
        /\ (ProcessFrame # NoFrame => ProcessFrame \in Frame \ m.bitmap) /\ IInv
    BY FrameOrFull, WithInv
  <2>2. CASE ProcessFrame = NoFrame
    <3>1. InvWith(len, n)'
      BY <1>1, <1>2, <1>5, <2>2, MapFails
    <3>2. op' = Idle /\ m' = m
      BY <1>5, <2>1, <2>2 DEF large_map
    <3>3. Full'
      BY <2>1, <2>2, <3>2 DEF Full
    <3>. QED
      BY <1>2, <1>3, <1>4, <3>1, <3>2, <3>3
  <2>3. CASE ProcessFrame # NoFrame
    <3>1. InvWith(len, n)'
      BY <1>1, <1>2, <1>5, <2>3, MapGrows
    <3>2. /\ m' \in DoubleMap(Large, s + i * PageWords, ProcessFrame)
          /\ op' = [op EXCEPT !.i = @ + 1]
      BY <1>2, <1>5, <2>1, <2>3 DEF large_map
    <3>3. m.bitmap \cup {ProcessFrame} \subseteq m'.bitmap
      BY <2>1, <2>3, <3>2, DoubleMapMarks
    <3>4. op'.kind = "map" /\ op'.i = op.i + 1 /\ op'.start = op.start
      BY <1>3, <3>2
    <3>. QED
      BY <1>2, <1>3, <1>4, <2>1, <2>3, <3>1, <3>3, <3>4
  <2>. QED
    BY <2>2, <2>3
<1>6. CASE large_return
  <2>1. InvWith(len, n)'
    BY <1>1, <1>2, <1>6, ReturnStep
  <2>2. cpu' = "run"
    BY <2>1 DEF InvWith, Inv, Typed
  <2>3. op.i = op.pages /\ op'.kind = "fill" /\ op'.of.ptr = op.start + 1
    BY <1>6, <2>2 DEF large_return, Return, Stop
  <2>. QED
    BY <1>2, <1>3, <1>4, <2>1, <2>3
<1>. QED
  BY <1>5, <1>6

\* A round of kfree_large's loop, or its end.
LEMMA UnmapCall ==
    ASSUME Fits, NEW len, NEW n, InvWith(len, n), op.kind = "unmap",
           large_unmap \/ large_free_return
    PROVE  /\ op.pages \in Nat
           /\ \/ InvWith(len, n)' /\ op'.kind = "unmap" /\ op'.pages = op.pages
              \/ /\ op' = Idle
                 /\ \E x : x = op.pages /\ InvWith(Longer(len, n, x), n + 1)'
<1>1. PICK stk, dep, use, from : Inv(stk, dep, len, use, from) /\ dep[Large] = n
  BY DEF InvWith
<1>2. PICK s, i, k : s = op.start /\ i = op.i /\ k = op.pages
  OBVIOUS
<1>3. op \in [kind : {"unmap"}, i : Nat, pages : Nat, start : Nat]
  BY WithInv, CallKinds
<1>4. CASE large_unmap
  <2>1. InvWith(len, n)'
    BY <1>1, <1>2, <1>4, UnmapStep
  <2>2. op' = [op EXCEPT !.i = @ + 1]
    BY <1>4 DEF large_unmap
  <2>. QED
    BY <1>3, <2>1, <2>2
<1>5. CASE large_free_return
  <2>1. InvWith(Longer(len, n, k), n + 1)'
    BY <1>1, <1>2, <1>5, FreeReturns
  <2>2. cpu' = "run"
    BY <2>1 DEF InvWith, Inv, Typed
  <2>3. op' = Idle
    BY <1>5, <2>2 DEF large_free_return, Stop
  <2>. QED
    BY <1>2, <1>3, <2>1, <2>3
<1>. QED
  BY <1>4, <1>5

\* The steps that leave the slots alone.
LEMMA FillCall ==
    ASSUME Fits, NEW len, NEW n, InvWith(len, n), user_fill
    PROVE  InvWith(len, n)'
<1>1. PICK stk, dep, use, from : Inv(stk, dep, len, use, from) /\ dep[Large] = n
  BY DEF InvWith
<1>2. PICK a : a = op.of
  OBVIOUS
<1>. QED
  BY <1>1, <1>2, FillStep

\* Boot frees no slot.
LEMMA BootCall ==
    ASSUME Fits, NEW len, NEW n, InvWith(len, n), Sane, Sane', init_heap \/ premap
    PROVE  InvWith(len, n)'
<1>1. PICK stk, dep, use, from : Inv(stk, dep, len, use, from) /\ dep[Large] = n
  BY DEF InvWith
<1>2. PICK h, v : h = op.heap /\ v = cursor[h]
  OBVIOUS
<1>. QED
  BY <1>1, <1>2, InitStep, PremapStep

\* Nothing happens in the heap.
LEMMA RestCall ==
    ASSUME NEW len, NEW n, InvWith(len, n), UNCHANGED vars
    PROVE  InvWith(len, n)'
<1>1. PICK stk, dep, use, from : Inv(stk, dep, len, use, from) /\ dep[Large] = n
  BY DEF InvWith
<1>. QED
  BY <1>1, Stutter

\* kfree gives back a block, or begins to give back pages.
LEMMA FreeSlots ==
    ASSUME Fits, NEW len, NEW n, InvWith(len, n), NEW a \in live, cpu' = "run",
           free_small(a) \/ large_free_begin(a)
    PROVE  /\ InvWith(len, n)'
           /\ \/ ClassOf(a.size) \in Domains /\ op' = Idle
              \/ ClassOf(a.size) = Large /\ op'.kind = "unmap" /\ op'.pages = PagesFor(a.size)
<1>1. PICK stk, dep, use, from : Inv(stk, dep, len, use, from) /\ dep[Large] = n
  BY DEF InvWith
<1>2. Route(a.ptr) = ClassOf(a.size)
  BY <1>1, RouteOfHeld
<1>3. CASE free_small(a)
  <2>1. PICK d : d = ClassOf(a.size)
    OBVIOUS
  <2>2. InvWith(len, n)'
    BY <1>1, <1>3, <2>1, FreeStep
  <2>3. ClassOf(a.size) \in Domains /\ op' = Idle
    BY <1>2, <1>3 DEF free_small, Stop
  <2>. QED
    BY <2>2, <2>3
<1>4. CASE large_free_begin(a)
  <2>1. InvWith(len, n)'
    BY <1>1, <1>4, FreeBegins
  <2>2. ClassOf(a.size) = Large /\ op'.kind = "unmap" /\ op'.pages = Read(m, a.ptr - 1)
    BY <1>2, <1>4 DEF large_free_begin, Stop
  <2>3. Read(m, a.ptr - 1) = PagesFor(a.size)
    <3>1. a \in Held(Large)
      BY <2>2 DEF Held
    <3>2. WordAt(m, a.ptr - 1) = PagesFor(a.size)
      BY <1>1, <3>1 DEF Inv, Uses
    <3>3. a.ptr - 1 \in Span(a)
      BY <1>1, <2>2, SpanPlace DEF Inv
    <3>4. a.ptr - 1 \in Owned(Started, Own(stk, dep))
      BY <1>1, <3>3, KnownWords
    <3>5. Read(m, a.ptr - 1) = WordAt(m, a.ptr - 1)
      BY <1>1, <3>4, OwnedAddress DEF Inv
    <3>. QED
      BY <3>2, <3>5
  <2>. QED
    BY <2>1, <2>2, <2>3
<1>. QED
  BY <1>3, <1>4

\* The large domain's cursor is behind everything that is held.
LEMMA HeldBelow ==
    ASSUME Fits, IInv, NEW a \in live, ClassOf(a.size) = Large
    PROVE  a.ptr <= cursor[Large] /\ a.ptr \in Nat /\ cursor[Large] \in Nat
<1>1. PICK stk, dep, len, use, from : Inv(stk, dep, len, use, from)
  BY DEF IInv
<1>2. Typed /\ BootOrder /\ Cursors /\ a.ptr \in Nat /\ a.size \in Sizes /\ Started = Heaps
  BY <1>1, HeldFacts DEF Inv
<1>3. PICK s, k : s = a.ptr - 1 /\ k = PagesFor(a.size)
  OBVIOUS
<1>4. PageOf(s) = PageOf(a.ptr) /\ s % PageWords = 0 /\ s \in Nat
  <2>1. s \in Span(a) /\ Span(a) \subseteq Nat
        /\ PageOf(s) = PageOf(a.ptr) /\ s % PageWords = 0
    BY <1>1, <1>3, SpanPlace DEF Inv
  <2>. QED
    BY <2>1
<1>5. k \in Nat \ {0}
  BY <1>2, <1>3, PagesForFacts
<1>6. RangePages(s, k) \subseteq LargeRegion
  <2>1. a \in Held(Large)
    BY DEF Held
  <2>2. \A p \in HeldPages(a) : p \in LargeRegion
    BY <1>1, <2>1 DEF Inv, Uses
  <2>. QED
    BY <1>3, <1>4, <2>2 DEF HeldPages, RangePages
<1>7. s + k * PageWords <= cursor[Large]
  BY <1>2, <1>4, <1>5, <1>6, RangeInside
<1>8. cursor[Large] \in Nat /\ PageWords \in Nat /\ PageWords >= 4
  BY <1>2, HeapNumbers DEF Typed, Heaps
<1>9. k * PageWords >= PageWords
  BY <1>5, <1>8
<1>. QED
  BY <1>2, <1>3, <1>4, <1>5, <1>7, <1>8, <1>9
-----------------------------------------------------------------------------
(* What the memory tests rely on, from place to place.                     *)

Buf64k == Var("buf64k")
Buf1m  == Var("buf1m")
Tbuf8  == Var("tbuf8")
Tbig   == Var("tbig")

TableVars  == {Var(n) : n \in ToSet(TableNames)}
MiddleVars == TableVars \cup {Buf64k}
SmallVars  == ToSet(AllBlocks) \cup {Var("sample"), Argv, Var("tbuf")}

\* The size the commands ask for in each variable.
Ask(v) == IF v \in TableVars THEN SizeOf["table"] ELSE SizeOf[v[1]]

PagesOf(n) == PagesFor(SizeOf[n])

\* The order of the sizes in src/lib/memtest.c: the blocks, argv, the 4 KB of a
\* timing loop fit a class, and in pages with the header, tbuf8 takes 9, buf64k
\* 17, a table 40, buf1m and tbig 257.
Ordered ==
    /\ \A n \in ToSet(TableNames) \cup {"sample", "argv", "tbuf"} :
          ClassOf(SizeOf[n]) \in Domains
    /\ \A n \in {"table", "buf64k", "buf1m", "tbuf8", "tbig"} : ClassOf(SizeOf[n]) = Large
    /\ PagesOf("tbuf8") < PagesOf("buf64k") /\ PagesOf("buf64k") <= PagesOf("table")
    /\ PagesOf("table") < PagesOf("buf1m") /\ PagesOf("tbig") = PagesOf("buf1m")

\* The notes:
\*   none    nothing is known
\*   calm    the last freed slot is too short for buf1m
\*   above   the same, and buf1m lies above buf64k
\*   spent   tbuf8 is held, or there was no memory for it
\*   paired  the last freed slot is short, and tbig is held only with tbuf8
\*   cover   the last freed slot is short, or tbuf8 will be freed on top of it
Quiet == {"none", "calm", "cover"}
Notes == Quiet \cup {"above", "spent", "paired"}

SaysAlloc(a, i, b) ==
    \/ i.var = Buffer /\ a = "none" /\ b = "none"
    \/ /\ i.size = Ask(i.var)
       /\ \/ i.var \in SmallVars /\ a \in Quiet /\ b = a
          \/ i.var \in MiddleVars /\ b = "calm"
          \/ i.var = Buf1m /\ a = "calm" /\ b = "above"
          \/ i.var = Tbuf8 /\ a = "calm" /\ b = "spent"
          \/ i.var = Tbig /\ a = "spent" /\ b = "paired"

SaysFree(a, i, b) ==
    \/ i.var \in SmallVars /\ a \in Quiet /\ b = a
    \/ i.var \in MiddleVars /\ a = "calm" /\ b = "calm"
    \/ i.var = Buf1m /\ a = "calm" /\ b = "none"
    \/ i.var = Tbig /\ a = "paired" /\ b = "cover"
    \/ i.var = Tbuf8 /\ a = "cover" /\ b = "calm"

SaysRule ==
    {t \in Notes \X Instructions \X Notes :
        \/ t[2].do = "alloc" /\ SaysAlloc(t[1], t[2], t[3])
        \/ t[2].do = "free" /\ SaysFree(t[1], t[2], t[3])
        \/ t[2].do = "verify" /\ t[3] = t[1]
        \/ /\ t[2].do = "above" /\ t[2].var = Buf1m /\ t[2].than = Buf64k
           /\ t[1] = "above" /\ t[3] = "calm"}

\* The kinds of variables do not mix.
LEMMA Kinds ==
    /\ \A v \in SmallVars : v \in Vars /\ v \notin MiddleVars /\ v \notin TableVars
    /\ \A v \in SmallVars : v \notin {Buf1m, Tbuf8, Tbig, Buffer, Buf64k}
    /\ \A v \in MiddleVars : v \in Vars /\ v \notin {Buf1m, Tbuf8, Tbig, Buffer}
    /\ Buf1m \in Vars /\ Tbuf8 \in Vars /\ Tbig \in Vars /\ Buf64k \in Vars
    /\ Buf64k \in MiddleVars
    /\ Buf1m \notin {Tbuf8, Tbig, Buffer, Buf64k} /\ Tbuf8 \notin {Tbig, Buffer, Buf64k}
    /\ Tbig \notin {Buffer, Buf64k}
    /\ \A v \in {Buf1m, Tbuf8, Tbig, Buf64k} : v \notin TableVars
<1>. DEFINE B == ToSet(AllBlocks)
<1>1. /\ Var("sample") \in Vars /\ Argv \in Vars /\ Var("tbuf") \in Vars /\ Buf64k \in Vars
      /\ Buf1m \in Vars /\ Tbuf8 \in Vars /\ Tbig \in Vars
  BY Names DEF Argv, Buf64k, Buf1m, Tbuf8, Tbig
<1>2. B \subseteq Vars /\ \A n : Var(n) \notin B
  <2>1. B = {AllBlocks[k] : k \in 1 .. FragN * 5}
    BY BlockFacts DEF ToSet
  <2>. QED
    BY <2>1, BlockFacts
<1>3. \A n \in ToSet(TableNames) :
         Var(n) \in Vars /\ n \notin {"sample", "argv", "tbuf", "buf64k", "buf1m", "tbuf8",
                                      "tbig", "buffer"}
  BY Names
<1>4. \A a, b : Var(a) = Var(b) => a = b
  BY DEF Var
<1>5. /\ TableVars \subseteq Vars /\ TableVars \cap B = {}
      /\ \A n \in {"sample", "argv", "tbuf", "buf64k", "buf1m", "tbuf8", "tbig", "buffer"} :
            Var(n) \notin TableVars
  BY <1>2, <1>3, <1>4 DEF TableVars
<1>. HIDE DEF B
<1>6. /\ \A v \in SmallVars : v \in B \/ \E n \in {"sample", "argv", "tbuf"} : v = Var(n)
      /\ Buf64k = Var("buf64k") /\ Buf1m = Var("buf1m") /\ Tbuf8 = Var("tbuf8")
      /\ Tbig = Var("tbig") /\ Buffer = Var("buffer")
  BY DEF B, SmallVars, Argv, Buf64k, Buf1m, Tbuf8, Tbig, Buffer
<1>7. ASSUME NEW v \in SmallVars
      PROVE  v \in Vars /\ v \notin TableVars /\ v \notin {Buf1m, Tbuf8, Tbig, Buffer, Buf64k}
  <2>1. CASE v \in B
    BY <1>2, <1>5, <1>6, <2>1
  <2>2. CASE v \notin B
    <3>1. PICK n \in {"sample", "argv", "tbuf"} : v = Var(n)
      BY <1>6, <1>7, <2>2
    <3>2. Var(n) \in Vars
      BY <1>1 DEF Argv
    <3>3. n \notin {"buf64k", "buf1m", "tbuf8", "tbig", "buffer"}
      BY <3>1
    <3>. QED
      BY <1>4, <1>5, <1>6, <3>1, <3>2, <3>3
  <2>. QED
    BY <2>1, <2>2
<1>8. /\ Buf1m \notin {Tbuf8, Tbig, Buffer, Buf64k} /\ Tbuf8 \notin {Tbig, Buffer, Buf64k}
      /\ Tbig \notin {Buffer, Buf64k} /\ Buf64k # Buffer
  BY <1>4, <1>6
<1>9. \A v \in MiddleVars : v \in Vars /\ v \notin {Buf1m, Tbuf8, Tbig, Buffer}
  BY <1>1, <1>5, <1>6, <1>8 DEF MiddleVars
<1>10. \A v \in {Buf1m, Tbuf8, Tbig, Buf64k} : v \notin TableVars
  BY <1>5, <1>6
<1>. QED
  BY <1>1, <1>7, <1>8, <1>9, <1>10 DEF MiddleVars

\* The sizes that go with them.
LEMMA KindSizes ==
    ASSUME Fits, Ordered
    PROVE  /\ \A v \in SmallVars : ClassOf(Ask(v)) \in Domains
           /\ \A v \in MiddleVars : /\ ClassOf(Ask(v)) = Large
                                    /\ PagesOf("buf64k") <= PagesFor(Ask(v))
                                    /\ PagesFor(Ask(v)) < PagesOf("buf1m")
           /\ \A v \in {Buf1m, Tbuf8, Tbig, Buf64k} : ClassOf(Ask(v)) = Large
           /\ PagesFor(Ask(Buf1m)) = PagesOf("buf1m")
           /\ PagesFor(Ask(Tbig)) = PagesOf("buf1m")
           /\ PagesFor(Ask(Tbuf8)) < PagesOf("buf64k")
           /\ PagesOf("buf64k") \in Nat /\ PagesOf("buf1m") \in Nat
           /\ PagesOf("buf64k") < PagesOf("buf1m") /\ PagesOf("buf1m") > 1
<1>1. \A n \in {"buf64k", "buf1m", "tbuf8", "table"} : PagesOf(n) \in Nat \ {0}
  BY Names, PagesForFacts DEF PagesOf
<1>2. /\ \A v \in SmallVars : v \notin TableVars
      /\ \A v \in {Buf1m, Tbuf8, Tbig, Buf64k} : v \notin TableVars
  BY Kinds
<1>3. ASSUME NEW v \in SmallVars PROVE ClassOf(Ask(v)) \in Domains
  <2>1. v[1] \in ToSet(TableNames) \cup {"sample", "argv", "tbuf"}
    <3>1. CASE v \in ToSet(AllBlocks)
      <4>1. PICK k \in 1 .. FragN * 5 : v = AllBlocks[k]
        BY <3>1, BlockFacts DEF ToSet
      <4>. QED
        BY <4>1, BlockFacts
    <3>2. CASE v \notin ToSet(AllBlocks)
      BY <1>3, <3>2 DEF SmallVars, Argv, Var
    <3>. QED
      BY <3>1, <3>2
  <2>. QED
    BY <1>2, <1>3, <2>1 DEF Ask, Ordered
<1>4. /\ Ask(Buf1m) = SizeOf["buf1m"] /\ Ask(Tbuf8) = SizeOf["tbuf8"]
      /\ Ask(Tbig) = SizeOf["tbig"] /\ Ask(Buf64k) = SizeOf["buf64k"]
  <2>1. /\ Buf1m[1] = "buf1m" /\ Tbuf8[1] = "tbuf8" /\ Tbig[1] = "tbig"
        /\ Buf64k[1] = "buf64k"
    BY DEF Buf1m, Tbuf8, Tbig, Buf64k, Var
  <2>. QED
    BY <1>2, <2>1 DEF Ask
<1>5. \A v \in TableVars : Ask(v) = SizeOf["table"]
  BY DEF Ask
<1>6. \A v \in MiddleVars : Ask(v) = SizeOf["table"] \/ Ask(v) = SizeOf["buf64k"]
  BY <1>4, <1>5 DEF MiddleVars
<1>7. /\ PagesOf("buf64k") < PagesOf("buf1m") /\ PagesOf("buf1m") > 1
  BY <1>1 DEF Ordered
<1>8. ASSUME NEW v \in MiddleVars
      PROVE  /\ ClassOf(Ask(v)) = Large /\ PagesOf("buf64k") <= PagesFor(Ask(v))
             /\ PagesFor(Ask(v)) < PagesOf("buf1m")
  <2>1. PagesFor(Ask(v)) = PagesOf("table") \/ PagesFor(Ask(v)) = PagesOf("buf64k")
    BY <1>6, <1>8 DEF PagesOf
  <2>2. ClassOf(Ask(v)) = Large
    BY <1>6, <1>8 DEF Ordered
  <2>. QED
    BY <1>1, <1>7, <2>1, <2>2 DEF Ordered
<1>9. /\ PagesFor(Ask(Buf1m)) = PagesOf("buf1m") /\ PagesFor(Ask(Tbig)) = PagesOf("buf1m")
      /\ PagesFor(Ask(Tbuf8)) < PagesOf("buf64k")
  <2>1. PagesFor(Ask(Tbuf8)) = PagesOf("tbuf8") /\ PagesFor(Ask(Tbig)) = PagesOf("tbig")
    BY <1>4 DEF PagesOf
  <2>. QED
    BY <1>4, <2>1 DEF PagesOf, Ordered
<1>10. \A v \in {Buf1m, Tbuf8, Tbig, Buf64k} : ClassOf(Ask(v)) = Large
  BY <1>4 DEF Ordered
<1>. QED
  BY <1>1, <1>3, <1>7, <1>8, <1>9, <1>10

\* Instructions that keep the note, one after the other.
LEMMA RunsSame ==
    ASSUME NEW R, NEW a, NEW p \in Seq(Instructions),
           \A k \in 1 .. Len(p) : <<a, p[k], a>> \in R
    PROVE  Runs(R, p, a, a)
<1>. DEFINE n == [k \in 0 .. Len(p) |-> a]
<1>1. Len(p) \in Nat
  OBVIOUS
<1>2. n[0] = a /\ n[Len(p)] = a /\ \A k \in 1 .. Len(p) : n[k - 1] = a /\ n[k] = a
  BY <1>1
<1>. HIDE DEF n
<1>. QED
  BY <1>2 DEF Runs

\* Instructions that bring about a note and keep it.
LEMMA RunsSettle ==
    ASSUME NEW R, NEW a, NEW b, NEW p \in Seq(Instructions), p # <<>>,
           \A k \in 1 .. Len(p) : <<a, p[k], b>> \in R /\ <<b, p[k], b>> \in R
    PROVE  Runs(R, p, a, b)
<1>. DEFINE n == [k \in 0 .. Len(p) |-> IF k = 0 THEN a ELSE b]
<1>1. Len(p) \in Nat /\ Len(p) # 0
  OBVIOUS
<1>2. /\ n[0] = a /\ n[Len(p)] = b
      /\ \A k \in 1 .. Len(p) : n[k] = b /\ (n[k - 1] = a \/ n[k - 1] = b)
  BY <1>1
<1>. HIDE DEF n
<1>. QED
  BY <1>2 DEF Runs

\* The rules for the instructions of the model.
LEMMA SaysInstr ==
    /\ \A a \in Quiet : \A v \in SmallVars : \A n \in {"fault", "report", "ignore"} :
          Ask(v) \in Sizes => <<a, Alloc(v, Ask(v), n), a>> \in SaysRule
    /\ \A a \in Quiet : \A v \in SmallVars : <<a, Free(v), a>> \in SaysRule
    /\ \A a \in Notes : \A v \in MiddleVars : \A n \in {"fault", "report", "ignore"} :
          Ask(v) \in Sizes => <<a, Alloc(v, Ask(v), n), "calm">> \in SaysRule
    /\ \A v \in MiddleVars : <<"calm", Free(v), "calm">> \in SaysRule
    /\ \A a \in Notes : \A vs \in SUBSET Vars : \A b \in BOOLEAN :
          <<a, Verify(vs, b), a>> \in SaysRule
<1>1. \A v \in SmallVars \cup MiddleVars : v \in Vars
  BY Kinds
<1>2. Quiet \subseteq Notes /\ "calm" \in Notes
  BY DEF Quiet, Notes
<1>3. ASSUME NEW a \in Quiet, NEW v \in SmallVars, NEW n \in {"fault", "report", "ignore"},
             Ask(v) \in Sizes
      PROVE  <<a, Alloc(v, Ask(v), n), a>> \in SaysRule
  BY <1>1, <1>2, <1>3, Instr DEF SaysRule, SaysAlloc
<1>4. ASSUME NEW a \in Quiet, NEW v \in SmallVars PROVE <<a, Free(v), a>> \in SaysRule
  BY <1>1, <1>2, Instr DEF SaysRule, SaysFree
<1>5. ASSUME NEW a \in Notes, NEW v \in MiddleVars, NEW n \in {"fault", "report", "ignore"},
             Ask(v) \in Sizes
      PROVE  <<a, Alloc(v, Ask(v), n), "calm">> \in SaysRule
  BY <1>1, <1>2, <1>5, Instr DEF SaysRule, SaysAlloc
<1>6. ASSUME NEW v \in MiddleVars PROVE <<"calm", Free(v), "calm">> \in SaysRule
  BY <1>1, <1>2, Instr DEF SaysRule, SaysFree
<1>7. ASSUME NEW a \in Notes, NEW vs \in SUBSET Vars, NEW b \in BOOLEAN
      PROVE  <<a, Verify(vs, b), a>> \in SaysRule
  BY Instr DEF SaysRule
<1>. QED
  BY <1>3, <1>4, <1>5, <1>6, <1>7

\* The sizes of the variables are sizes, and what the commands ask for.
LEMMA AskFacts ==
    /\ \A v \in TableVars : Ask(v) = SizeOf["table"] /\ Ask(v) \in Sizes
    /\ \A k \in 1 .. FragN * 5 :
          /\ AllBlocks[k] \in SmallVars /\ Ask(AllBlocks[k]) = SizeOf[AllBlocks[k][1]]
          /\ Ask(AllBlocks[k]) \in Sizes
    /\ \A n \in {"sample", "argv", "tbuf", "buf64k", "buf1m", "tbuf8", "tbig"} :
          Ask(Var(n)) = SizeOf[n] /\ Ask(Var(n)) \in Sizes
<1>1. \A v \in TableVars : Ask(v) = SizeOf["table"] /\ Ask(v) \in Sizes
  BY Names DEF Ask
<1>2. ASSUME NEW k \in 1 .. FragN * 5
      PROVE  /\ AllBlocks[k] \in SmallVars /\ Ask(AllBlocks[k]) = SizeOf[AllBlocks[k][1]]
             /\ Ask(AllBlocks[k]) \in Sizes
  <2>1. AllBlocks[k] \in SmallVars
    BY BlockFacts DEF SmallVars, ToSet
  <2>2. Ask(AllBlocks[k]) = SizeOf[AllBlocks[k][1]]
    BY <2>1, Kinds DEF Ask
  <2>3. AllBlocks[k][1] \in DOMAIN SizeOf
    BY BlockFacts, Names
  <2>. QED
    BY <2>1, <2>2, <2>3, Names
<1>3. ASSUME NEW n \in {"sample", "argv", "tbuf", "buf64k", "buf1m", "tbuf8", "tbig"}
      PROVE  Ask(Var(n)) = SizeOf[n] /\ Ask(Var(n)) \in Sizes
  <2>1. Var(n) \notin TableVars
    <3>1. n \notin ToSet(TableNames)
      BY Names
    <3>. QED
      BY <3>1 DEF TableVars, Var
  <2>2. Var(n)[1] = n
    BY DEF Var
  <2>3. n \in DOMAIN SizeOf
    BY Names
  <2>. QED
    BY <2>1, <2>2, <2>3, Names DEF Ask
<1>. QED
  BY <1>1, <1>2, <1>3

\* A loop that frees blocks.
LEMMA SaysFreeEach ==
    ASSUME NEW s \in Seq(Vars), NEW a \in Notes,
           \A k \in 1 .. Len(s) : <<a, Free(s[k]), a>> \in SaysRule
    PROVE  Runs(SaysRule, [k \in DOMAIN s |-> Free(s[k])], a, a)
<1>. DEFINE p == [k \in DOMAIN s |-> Free(s[k])]
<1>1. Len(s) \in Nat /\ DOMAIN s = 1 .. Len(s) /\ \A k \in 1 .. Len(s) : s[k] \in Vars
  OBVIOUS
<1>2. /\ \A k \in 1 .. Len(s) : p[k] = Free(s[k])
      /\ p = [k \in 1 .. Len(s) |-> p[k]]
  BY <1>1
<1>. HIDE DEF p
<1>3. \A k \in 1 .. Len(s) : p[k] \in Instructions
  BY <1>1, <1>2, Instr
<1>4. p \in Seq(Instructions) /\ Len(p) = Len(s)
  BY <1>1, <1>2, <1>3
<1>5. Runs(SaysRule, p, a, a)
  BY <1>2, <1>4, RunsSame
<1>. QED
  BY <1>5 DEF p

\* A round of a timing loop.
LEMMA SaysSample == Runs(SaysRule, Sample, "calm", "calm")
<1>1. PICK v, i, j : /\ v = Var("sample") /\ i = Alloc(v, SizeOf["sample"], "fault")
                     /\ j = Free(v)
  OBVIOUS
<1>2. v \in SmallVars /\ v \in Vars /\ Ask(v) = SizeOf["sample"] /\ Ask(v) \in Sizes
  BY <1>1, AskFacts, Kinds DEF SmallVars
<1>3. "calm" \in Quiet
  BY DEF Quiet
<1>4. i = Alloc(v, Ask(v), "fault")
  BY <1>1, <1>2
<1>5. <<"calm", i, "calm">> \in SaysRule /\ <<"calm", j, "calm">> \in SaysRule
  BY <1>1, <1>2, <1>3, <1>4, SaysInstr
<1>6. i \in Instructions /\ j \in Instructions
  BY <1>1, <1>2, <1>4, Instr
<1>7. Sample = <<i, j>>
  BY <1>1 DEF Sample
<1>. QED
  BY <1>5, <1>6, <1>7, RunsTwo

\* memtest 1: behind the first table the slots are short.
LEMMA SaysMemtest1 ==
    Runs(SaysRule, cmd_memtest_v1, "none", "calm")
<1>. DEFINE B == ToSet(AllBlocks)
            holes == Holes("s64") \o Holes("s256")
            order == <<"s64", "s256", "s512", "s128", "s1024">>
            p1 == [k \in DOMAIN TableNames |->
                      Alloc(Var(TableNames[k]), SizeOf["table"], "fault")]
            p2 == [k \in DOMAIN AllBlocks |->
                      Alloc(AllBlocks[k], SizeOf[AllBlocks[k][1]], "fault")]
            p3 == <<Verify(B, TRUE)>>
            p4 == [k \in DOMAIN holes |-> Free(holes[k])]
            p5 == <<Verify(B \ ToSet(holes), TRUE)>>
            p7 == [k \in DOMAIN AllBlocks |-> Free(AllBlocks[k])]
            p8 == [k \in DOMAIN order |-> Free(Var(order[k]))]
<1>1. cmd_memtest_v1 = p1 \o p2 \o p3 \o p4 \o p5 \o Sample \o p7 \o p8 \o Sample
  BY DEF cmd_memtest_v1, Each
<1>2. "none" \in Notes /\ "calm" \in Notes /\ "calm" \in Quiet
  BY DEF Notes, Quiet
<1>3. Runs(SaysRule, p1, "none", "calm")
  <2>1. /\ p1 = [k \in 1 .. 5 |-> p1[k]]
        /\ \A k \in 1 .. 5 : p1[k] = Alloc(Var(TableNames[k]), SizeOf["table"], "fault")
    BY TableFacts
  <2>. HIDE DEF p1
  <2>2. \A k \in 1 .. 5 : Var(TableNames[k]) \in TableVars
    BY TableFacts DEF TableVars
  <2>3. \A k \in 1 .. 5 : /\ Var(TableNames[k]) \in MiddleVars
                          /\ Var(TableNames[k]) \in Vars
                          /\ Ask(Var(TableNames[k])) = SizeOf["table"]
                          /\ Ask(Var(TableNames[k])) \in Sizes
    BY <2>2, AskFacts, Kinds DEF MiddleVars
  <2>4. \A k \in 1 .. 5 : p1[k] = Alloc(Var(TableNames[k]), Ask(Var(TableNames[k])), "fault")
    BY <2>1, <2>3
  <2>5. \A k \in 1 .. 5 : p1[k] \in Instructions
    BY <2>3, <2>4, Instr
  <2>6. \A k \in 1 .. 5 : /\ <<"none", p1[k], "calm">> \in SaysRule
                          /\ <<"calm", p1[k], "calm">> \in SaysRule
    BY <1>2, <2>3, <2>4, SaysInstr
  <2>7. p1 \in Seq(Instructions) /\ Len(p1) = 5 /\ p1 # <<>>
    BY <2>1, <2>5
  <2>. QED
    BY <2>6, <2>7, RunsSettle
<1>4. Runs(SaysRule, p2, "calm", "calm")
  <2>1. /\ p2 = [k \in 1 .. FragN * 5 |-> p2[k]]
        /\ \A k \in 1 .. FragN * 5 :
              p2[k] = Alloc(AllBlocks[k], SizeOf[AllBlocks[k][1]], "fault")
    BY BlockFacts
  <2>. HIDE DEF p2
  <2>2. \A k \in 1 .. FragN * 5 :
           /\ AllBlocks[k] \in SmallVars /\ AllBlocks[k] \in Vars
           /\ Ask(AllBlocks[k]) \in Sizes
           /\ p2[k] = Alloc(AllBlocks[k], Ask(AllBlocks[k]), "fault")
    BY <2>1, AskFacts, BlockFacts
  <2>3. \A k \in 1 .. FragN * 5 : p2[k] \in Instructions
    BY <2>2, Instr
  <2>4. \A k \in 1 .. FragN * 5 : <<"calm", p2[k], "calm">> \in SaysRule
    BY <1>2, <2>2, SaysInstr
  <2>5. p2 \in Seq(Instructions) /\ Len(p2) = FragN * 5
    BY <2>1, <2>3, BlockFacts
  <2>. QED
    BY <2>4, <2>5, RunsSame
<1>5. B \subseteq Vars /\ B \subseteq SmallVars
  <2>1. B = {AllBlocks[k] : k \in 1 .. FragN * 5}
    BY BlockFacts DEF ToSet
  <2>. QED
    BY <2>1, BlockFacts DEF SmallVars
<1>6. holes \in Seq(Vars) /\ \A k \in 1 .. Len(holes) : holes[k] \in SmallVars
  <2>1. PICK g, h : g = Holes("s64") /\ h = Holes("s256")
    OBVIOUS
  <2>2. /\ g \in Seq(Vars) /\ h \in Seq(Vars)
        /\ \A k \in 1 .. Len(g) : g[k] \in B
        /\ \A k \in 1 .. Len(h) : h[k] \in B
    BY <2>1, HoleFacts, Names
  <2>. HIDE DEF B
  <2>3. /\ g \o h \in Seq(Vars) /\ Len(g \o h) = Len(g) + Len(h)
        /\ \A k \in 1 .. Len(g) + Len(h) :
              (g \o h)[k] = IF k <= Len(g) THEN g[k] ELSE h[k - Len(g)]
        /\ Len(g) \in Nat /\ Len(h) \in Nat
    BY <2>2
  <2>4. \A k \in 1 .. Len(g \o h) : (g \o h)[k] \in B
    <3>. SUFFICES ASSUME NEW k \in 1 .. Len(g) + Len(h)
                  PROVE  (g \o h)[k] \in B
      BY <2>3
    <3>1. CASE k <= Len(g)
      BY <2>2, <2>3, <3>1
    <3>2. CASE ~(k <= Len(g))
      <4>1. k - Len(g) \in 1 .. Len(h)
        BY <2>3, <3>2
      <4>. QED
        BY <2>2, <2>3, <3>2, <4>1
    <3>. QED
      BY <3>1, <3>2
  <2>. QED
    BY <1>5, <2>1, <2>3, <2>4
<1>. HIDE DEF holes
<1>7. Runs(SaysRule, p3, "calm", "calm") /\ Runs(SaysRule, p5, "calm", "calm")
  <2>1. B \in SUBSET Vars /\ B \ ToSet(holes) \in SUBSET Vars /\ TRUE \in BOOLEAN
    BY <1>5
  <2>. HIDE DEF B
  <2>2. /\ Verify(B, TRUE) \in Instructions /\ Verify(B \ ToSet(holes), TRUE) \in Instructions
    BY <2>1, Instr
  <2>3. /\ <<"calm", Verify(B, TRUE), "calm">> \in SaysRule
        /\ <<"calm", Verify(B \ ToSet(holes), TRUE), "calm">> \in SaysRule
    BY <1>2, <2>1, SaysInstr
  <2>. QED
    BY <2>2, <2>3, RunsOne
<1>8. Runs(SaysRule, p4, "calm", "calm")
  <2>1. \A k \in 1 .. Len(holes) : <<"calm", Free(holes[k]), "calm">> \in SaysRule
    BY <1>2, <1>6, SaysInstr
  <2>. QED
    BY <1>2, <1>6, <2>1, SaysFreeEach
<1>9. Runs(SaysRule, p7, "calm", "calm")
  <2>1. AllBlocks \in Seq(Vars) /\ Len(AllBlocks) = FragN * 5
    BY BlockFacts
  <2>2. \A k \in 1 .. Len(AllBlocks) : <<"calm", Free(AllBlocks[k]), "calm">> \in SaysRule
    BY <1>2, <2>1, AskFacts, SaysInstr
  <2>. QED
    BY <1>2, <2>1, <2>2, SaysFreeEach
<1>10. Runs(SaysRule, p8, "calm", "calm")
  <2>. DEFINE s == <<Var("s64"), Var("s256"), Var("s512"), Var("s128"), Var("s1024")>>
  <2>1. p8 = [k \in DOMAIN s |-> Free(s[k])]
    <3>1. DOMAIN order = 1 .. 5 /\ DOMAIN s = 1 .. 5
      OBVIOUS
    <3>2. \A k \in 1 .. 5 : s[k] = Var(order[k])
      OBVIOUS
    <3>. QED
      BY <3>1, <3>2
  <2>2. \A k \in 1 .. 5 : s[k] \in TableVars
    <3>1. /\ Var("s64") \in TableVars /\ Var("s128") \in TableVars /\ Var("s256") \in TableVars
          /\ Var("s512") \in TableVars /\ Var("s1024") \in TableVars
      BY Names DEF TableVars
    <3>. QED
      BY <3>1
  <2>3. Len(s) = 5 /\ s \in Seq({s[k] : k \in 1 .. 5})
    OBVIOUS
  <2>. HIDE DEF s
  <2>4. \A k \in 1 .. 5 : s[k] \in MiddleVars /\ s[k] \in Vars
    BY <2>2, Kinds DEF MiddleVars
  <2>5. s \in Seq(Vars) /\ \A k \in 1 .. Len(s) : <<"calm", Free(s[k]), "calm">> \in SaysRule
    BY <2>3, <2>4, SaysInstr
  <2>. QED
    BY <1>2, <2>1, <2>5, SaysFreeEach
<1>. HIDE DEF B, p1, p2, p3, p4, p5, p7, p8
<1>11. Runs(SaysRule, p1 \o p2 \o p3, "none", "calm")
  BY <1>3, <1>4, <1>7, RunsJoin
<1>12. Runs(SaysRule, p1 \o p2 \o p3 \o p4 \o p5 \o Sample, "none", "calm")
  BY <1>7, <1>8, <1>11, SaysSample, RunsJoin
<1>. QED
  BY <1>1, <1>9, <1>10, <1>12, SaysSample, RunsJoin

\* memtest 2: from whatever is on the list to whatever the next command finds.
LEMMA SaysMemtest2 ==
    Runs(SaysRule, cmd_memtest_v2, "none", "none")
<1>. DEFINE i1 == Alloc(Var("buf64k"), SizeOf["buf64k"], "report")
            i2 == Verify({Var("buf64k")}, FALSE)
            i3 == Alloc(Var("buf1m"), SizeOf["buf1m"], "report")
            i4 == Verify({Var("buf1m")}, FALSE)
            i5 == Above(Var("buf1m"), Var("buf64k"))
            i6 == Alloc(Var("tbuf"), SizeOf["tbuf"], "ignore")
            i7 == Alloc(Var("tbuf8"), SizeOf["tbuf8"], "ignore")
            i8 == Alloc(Var("tbig"), SizeOf["tbig"], "ignore")
            q  == [k \in DOMAIN memtest_v2_frees |-> Free(Var(memtest_v2_frees[k]))]
<1>1. cmd_memtest_v2 = <<i1, i2, i3, i4, i5, i6, i7, i8>> \o q
  BY DEF cmd_memtest_v2, Each
<1>2. PICK v6 : v6 = Var("tbuf")
  OBVIOUS
<1>3. /\ Buf64k = Var("buf64k") /\ Buf1m = Var("buf1m") /\ Tbuf8 = Var("tbuf8")
      /\ Tbig = Var("tbig")
  BY DEF Buf64k, Buf1m, Tbuf8, Tbig
<1>4. /\ Buf64k \in Vars /\ Buf1m \in Vars /\ v6 \in Vars /\ Tbuf8 \in Vars /\ Tbig \in Vars
      /\ v6 \in SmallVars /\ Buf64k \in MiddleVars
  BY <1>2, Kinds DEF SmallVars
<1>5. /\ Ask(Buf64k) = SizeOf["buf64k"] /\ Ask(Buf64k) \in Sizes
      /\ Ask(Buf1m) = SizeOf["buf1m"] /\ Ask(Buf1m) \in Sizes
      /\ Ask(v6) = SizeOf["tbuf"] /\ Ask(v6) \in Sizes
      /\ Ask(Tbuf8) = SizeOf["tbuf8"] /\ Ask(Tbuf8) \in Sizes
      /\ Ask(Tbig) = SizeOf["tbig"] /\ Ask(Tbig) \in Sizes
  BY <1>2, <1>3, AskFacts
<1>6. /\ i1 = Alloc(Buf64k, Ask(Buf64k), "report") /\ i2 = Verify({Buf64k}, FALSE)
      /\ i3 = Alloc(Buf1m, Ask(Buf1m), "report") /\ i4 = Verify({Buf1m}, FALSE)
      /\ i5 = Above(Buf1m, Buf64k) /\ i6 = Alloc(v6, Ask(v6), "ignore")
      /\ i7 = Alloc(Tbuf8, Ask(Tbuf8), "ignore") /\ i8 = Alloc(Tbig, Ask(Tbig), "ignore")
  BY <1>2, <1>3, <1>5
<1>. HIDE DEF i1, i2, i3, i4, i5, i6, i7, i8
<1>7. "none" \in Notes /\ "calm" \in Notes /\ "calm" \in Quiet /\ "above" \in Notes
      /\ "spent" \in Notes /\ "paired" \in Notes /\ "cover" \in Notes /\ "cover" \in Quiet
  BY DEF Notes, Quiet
<1>8. {Buf64k} \in SUBSET Vars /\ {Buf1m} \in SUBSET Vars /\ FALSE \in BOOLEAN
  BY <1>4
<1>9. /\ i1 \in Instructions /\ <<"none", i1, "calm">> \in SaysRule
  BY <1>4, <1>5, <1>6, <1>7, Instr, SaysInstr
<1>10. /\ i2 \in Instructions /\ <<"calm", i2, "calm">> \in SaysRule
       /\ i4 \in Instructions /\ <<"above", i4, "above">> \in SaysRule
  BY <1>6, <1>7, <1>8, Instr, SaysInstr
<1>11. /\ i3 \in Instructions /\ <<"calm", i3, "above">> \in SaysRule
  <2>1. /\ i3 \in Instructions /\ i3.do = "alloc" /\ i3.var = Buf1m /\ i3.size = Ask(Buf1m)
    BY <1>4, <1>5, <1>6, Instr
  <2>. QED
    BY <1>7, <2>1 DEF SaysRule, SaysAlloc
<1>12. /\ i5 \in Instructions /\ <<"above", i5, "calm">> \in SaysRule
  <2>1. i5 \in Instructions /\ i5.do = "above"
    BY <1>4, <1>6, Instr
  <2>2. i5.var = Buf1m /\ i5.than = Buf64k
    BY <1>6 DEF Above
  <2>. QED
    BY <1>7, <2>1, <2>2 DEF SaysRule
<1>13. /\ i6 \in Instructions /\ <<"calm", i6, "calm">> \in SaysRule
  BY <1>4, <1>5, <1>6, <1>7, Instr, SaysInstr
<1>14. /\ i7 \in Instructions /\ <<"calm", i7, "spent">> \in SaysRule
  <2>1. /\ i7 \in Instructions /\ i7.do = "alloc" /\ i7.var = Tbuf8 /\ i7.size = Ask(Tbuf8)
    BY <1>4, <1>5, <1>6, Instr
  <2>. QED
    BY <1>7, <2>1 DEF SaysRule, SaysAlloc
<1>15. /\ i8 \in Instructions /\ <<"spent", i8, "paired">> \in SaysRule
  <2>1. /\ i8 \in Instructions /\ i8.do = "alloc" /\ i8.var = Tbig /\ i8.size = Ask(Tbig)
    BY <1>4, <1>5, <1>6, Instr
  <2>. QED
    BY <1>7, <2>1 DEF SaysRule, SaysAlloc
<1>16. Runs(SaysRule, <<i1, i2, i3, i4, i5, i6, i7, i8>>, "none", "paired")
  <2>. DEFINE n == [k \in 0 .. 8 |->
                      IF k = 0 THEN "none" ELSE IF k \in {1, 2, 5, 6} THEN "calm"
                      ELSE IF k \in {3, 4} THEN "above" ELSE IF k = 7 THEN "spent"
                      ELSE "paired"]
  <2>1. /\ n[0] = "none" /\ n[1] = "calm" /\ n[2] = "calm" /\ n[3] = "above"
        /\ n[4] = "above" /\ n[5] = "calm" /\ n[6] = "calm" /\ n[7] = "spent"
        /\ n[8] = "paired"
    OBVIOUS
  <2>. HIDE DEF n
  <2>2. /\ <<n[0], i1, n[1]>> \in SaysRule /\ <<n[1], i2, n[2]>> \in SaysRule
        /\ <<n[2], i3, n[3]>> \in SaysRule /\ <<n[3], i4, n[4]>> \in SaysRule
        /\ <<n[4], i5, n[5]>> \in SaysRule /\ <<n[5], i6, n[6]>> \in SaysRule
        /\ <<n[6], i7, n[7]>> \in SaysRule /\ <<n[7], i8, n[8]>> \in SaysRule
    BY <1>9, <1>10, <1>11, <1>12, <1>13, <1>14, <1>15, <2>1
  <2>3. Runs(SaysRule, <<i1, i2, i3, i4, i5, i6, i7, i8>>, n[0], n[8])
    BY <1>9, <1>10, <1>11, <1>12, <1>13, <1>14, <1>15, <2>2, RunsEight
  <2>. QED
    BY <2>1, <2>3
<1>17. Runs(SaysRule, q, "paired", "none")
  <2>1. /\ q = [k \in 1 .. 5 |-> q[k]] /\ q[1] = Free(Tbig) /\ q[2] = Free(v6)
        /\ q[3] = Free(Tbuf8) /\ q[4] = Free(Buf64k) /\ q[5] = Free(Buf1m)
    BY <1>2, <1>3 DEF memtest_v2_frees
  <2>. HIDE DEF q
  <2>2. \A k \in 1 .. 5 : k = 1 \/ k = 2 \/ k = 3 \/ k = 4 \/ k = 5
    OBVIOUS
  <2>3. \A k \in 1 .. 5 : q[k] \in Instructions
    BY <1>4, <2>1, <2>2, Instr
  <2>4. q \in Seq(Instructions) /\ Len(q) = 5
    BY <2>1, <2>3
  <2>5. <<"paired", q[1], "cover">> \in SaysRule /\ <<"cover", q[3], "calm">> \in SaysRule
        /\ <<"calm", q[5], "none">> \in SaysRule
    <3>1. /\ Free(Tbig) \in Instructions /\ Free(Tbig).do = "free" /\ Free(Tbig).var = Tbig
          /\ Free(Tbuf8) \in Instructions /\ Free(Tbuf8).do = "free"
          /\ Free(Tbuf8).var = Tbuf8
          /\ Free(Buf1m) \in Instructions /\ Free(Buf1m).do = "free"
          /\ Free(Buf1m).var = Buf1m
      BY <1>4, Instr
    <3>. QED
      BY <1>7, <2>1, <3>1 DEF SaysRule, SaysFree
  <2>6. <<"cover", q[2], "cover">> \in SaysRule /\ <<"calm", q[4], "calm">> \in SaysRule
    BY <1>4, <1>7, <2>1, SaysInstr
  <2>. DEFINE n == [k \in 0 .. 5 |-> IF k = 0 THEN "paired" ELSE IF k \in {1, 2} THEN "cover"
                                     ELSE IF k \in {3, 4} THEN "calm" ELSE "none"]
  <2>7. /\ n[0] = "paired" /\ n[1] = "cover" /\ n[2] = "cover" /\ n[3] = "calm"
        /\ n[4] = "calm" /\ n[5] = "none"
    OBVIOUS
  <2>. HIDE DEF n
  <2>8. /\ <<n[0], q[1], n[1]>> \in SaysRule /\ <<n[1], q[2], n[2]>> \in SaysRule
        /\ <<n[2], q[3], n[3]>> \in SaysRule /\ <<n[3], q[4], n[4]>> \in SaysRule
        /\ <<n[4], q[5], n[5]>> \in SaysRule
    BY <2>5, <2>6, <2>7
  <2>9. \A k \in 1 .. 5 : <<n[k - 1], q[k], n[k]>> \in SaysRule
    <3>1. \A k \in 1 .. 5 : \/ (k = 1 /\ k - 1 = 0) \/ (k = 2 /\ k - 1 = 1)
                            \/ (k = 3 /\ k - 1 = 2) \/ (k = 4 /\ k - 1 = 3)
                            \/ (k = 5 /\ k - 1 = 4)
      OBVIOUS
    <3>. QED
      BY <2>8, <3>1
  <2>. QED
    BY <2>4, <2>7, <2>9 DEF Runs
<1>. HIDE DEF q
<1>. QED
  BY <1>1, <1>16, <1>17, RunsJoin

\* Every command starts with nothing known.
LEMMA SaysCommand ==
    ASSUME NEW cmd \in Commands
    PROVE  \E z : Runs(SaysRule, process_input(cmd), "none", z)
<1>1. /\ Argv \in Vars /\ Argv \in SmallVars /\ Ask(Argv) = SizeOf["argv"]
      /\ Ask(Argv) \in Sizes /\ Buffer \in Vars
  BY Kinds, AskFacts, Names DEF SmallVars, Argv
<1>2. "none" \in Notes /\ "calm" \in Notes /\ "none" \in Quiet /\ "calm" \in Quiet
  BY DEF Notes, Quiet
<1>3. Runs(SaysRule, <<Alloc(Argv, SizeOf["argv"], "fault")>>, "none", "none")
  <2>1. PICK i : i = Alloc(Argv, Ask(Argv), "fault")
    OBVIOUS
  <2>2. i \in Instructions /\ <<"none", i, "none">> \in SaysRule
    BY <1>1, <1>2, <2>1, Instr, SaysInstr
  <2>3. i = Alloc(Argv, SizeOf["argv"], "fault")
    BY <1>1, <2>1
  <2>. QED
    BY <2>2, <2>3, RunsOne
<1>4. /\ Runs(SaysRule, <<Free(Argv)>>, "none", "none")
      /\ Runs(SaysRule, <<Free(Argv)>>, "calm", "calm")
  BY <1>1, <1>2, Instr, SaysInstr, RunsOne
<1>. DEFINE rest ==
    CASE cmd.name = "other"     -> <<Free(Argv)>>
      [] cmd.name = "refused"   -> <<>>
      [] cmd.name = "diskR"     -> <<Alloc(Var("buffer"), cmd.size, "fault"), Free(Argv)>>
      [] cmd.name = "memtest 1" -> cmd_memtest_v1 \o <<Free(Argv)>>
      [] cmd.name = "memtest 2" -> cmd_memtest_v2 \o <<Free(Argv)>>
<1>5. process_input(cmd) = <<Alloc(Argv, SizeOf["argv"], "fault")>> \o rest
  BY DEF process_input, Argv
<1>6. /\ cmd.name \in {"other", "refused", "memtest 1", "memtest 2", "diskR"}
      /\ cmd.name = "diskR" => cmd.size \in ReadSizes
  BY DEF Commands
<1>7. \E z : Runs(SaysRule, rest, "none", z)
  <2>1. CASE cmd.name = "other"
    <3>1. rest = <<Free(Argv)>>
      BY <2>1
    <3>. HIDE DEF rest
    <3>. QED
      BY <1>4, <3>1
  <2>2. CASE cmd.name = "refused"
    <3>1. rest = <<>>
      BY <2>2
    <3>. HIDE DEF rest
    <3>. QED
      BY <3>1, RunsNone
  <2>3. CASE cmd.name = "diskR"
    <3>1. PICK i : i = Alloc(Buffer, cmd.size, "fault")
      OBVIOUS
    <3>2. rest = <<i, Free(Argv)>>
      BY <2>3, <3>1 DEF Buffer
    <3>3. i \in Instructions /\ i.do = "alloc" /\ i.var = Buffer
      <4>1. cmd.size \in Sizes
        BY <1>6, <2>3, Names
      <4>. QED
        BY <1>1, <3>1, <4>1, Instr
    <3>4. <<"none", i, "none">> \in SaysRule
      BY <1>2, <3>3 DEF SaysRule, SaysAlloc
    <3>5. Free(Argv) \in Instructions /\ <<"none", Free(Argv), "none">> \in SaysRule
      BY <1>1, <1>2, Instr, SaysInstr
    <3>. HIDE DEF rest
    <3>. QED
      BY <3>2, <3>3, <3>4, <3>5, RunsTwo
  <2>4. CASE cmd.name = "memtest 1"
    <3>1. rest = cmd_memtest_v1 \o <<Free(Argv)>>
      BY <2>4
    <3>. HIDE DEF rest
    <3>. QED
      BY <1>4, <3>1, SaysMemtest1, RunsJoin
  <2>5. CASE cmd.name = "memtest 2"
    <3>1. rest = cmd_memtest_v2 \o <<Free(Argv)>>
      BY <2>5
    <3>. HIDE DEF rest
    <3>. QED
      BY <1>4, <3>1, SaysMemtest2, RunsJoin
  <2>. QED
    BY <1>6, <2>1, <2>2, <2>3, <2>4, <2>5
<1>. HIDE DEF rest
<1>. QED
  BY <1>3, <1>5, <1>7, RunsJoin
-----------------------------------------------------------------------------
(* The invariant of the verdicts.                                          *)

\* Under a slot that is long enough for buf64k there is none for buf1m.
Adjacent(len, n) ==
    \A k \in 1 .. n : k > 1 => len[k - 1] < PagesOf("buf1m") \/ len[k] < PagesOf("buf64k")

Short(len, n) == n # 0 => len[n] < PagesOf("buf1m")

\* The last slot is too short for buf1m, or will be when the kfree in progress
\* is done.
Ready(len, n) ==
    IF op.kind = "unmap" THEN op.pages < PagesOf("buf1m") ELSE Short(len, n)

\* The frames are used up, but for one that goes to the first page.
Tight ==
    \/ op.i = 0 /\ \E f : Frame \ {f} \subseteq m.bitmap
    \/ op.i = 1 /\ Full

SaysShort(c, len, n) == c \in {"calm", "above", "paired"} => Ready(len, n)
SaysAbove(c) ==
    c = "above" /\ held[Buf64k] # Nothing =>
        /\ held[Buf1m] # Nothing => held[Buf64k].ptr < held[Buf1m].ptr
        /\ op.kind = "map" => held[Buf64k].ptr <= op.start
        /\ op.kind = "fill" => held[Buf64k].ptr < op.of.ptr
SaysSpent(c) == c = "spent" /\ ~waiting /\ held[Tbuf8] = Nothing => Full
SaysPaired(c) ==
    c = "paired" /\ held[Tbuf8] = Nothing =>
        /\ held[Tbig] = Nothing /\ op.kind # "fill"
        /\ op.kind = "map" => Tight
SaysCover(c, len, n) == c = "cover" => held[Tbuf8] # Nothing \/ Ready(len, n)

Says(c, len, n) ==
    /\ SaysShort(c, len, n) /\ SaysAbove(c) /\ SaysSpent(c) /\ SaysPaired(c)
    /\ SaysCover(c, len, n)

\* What is left of the command goes with the note.
Left(c, z) ==
    IF waiting
    THEN /\ \E b : <<b, Head(program), c>> \in SaysRule
         /\ Runs(SaysRule, Tail(program), c, z)
    ELSE Runs(SaysRule, program, c, z)

Noted(len, n, c, z) ==
    /\ c \in Notes /\ InvWith(len, n) /\ Adjacent(len, n) /\ Says(c, len, n) /\ Left(c, z)
    /\ op.kind = "unmap" => c \in Quiet /\ (op.pages < PagesOf("buf64k") \/ Short(len, n))
    /\ op.kind \in {"init", "premap"} => c = "none"

HeldSizes == \A v \in Vars : v # Buffer /\ held[v] # Nothing => held[v].size = Ask(v)
NullIsFull == waiting /\ op = Idle => Full

SaysInv ==
    /\ ClientInv /\ "overlap" \notin verdict /\ HeldSizes /\ NullIsFull
    /\ \E len, n, c, z : Noted(len, n, c, z)

\* A slot is taken off the list, or none fits.
LEMMA SlotTaken ==
    ASSUME Fits, Ordered, NEW len, NEW n \in Nat, \A k \in 1 .. n : len[k] \in Nat,
           Adjacent(len, n), NEW n1, NEW pages \in Nat, Begins(len, n, n1, pages)
    PROVE  /\ Adjacent(len, n1)
           /\ PagesOf("buf64k") <= pages /\ pages <= PagesOf("buf1m") => Short(len, n1)
           /\ Short(len, n) /\ pages = PagesOf("buf1m") => op'.start = cursor[Large]
           /\ \E f : m.bitmap \ {f} \subseteq m'.bitmap
<1>1. PagesOf("buf64k") \in Nat /\ PagesOf("buf1m") \in Nat
  BY KindSizes
<1>2. CASE n1 = n /\ (n # 0 => len[n] < pages) /\ m' = m /\ op'.start = cursor[Large]
  <2>1. n # 0 => len[n] \in Nat
    OBVIOUS
  <2>2. pages <= PagesOf("buf1m") => Short(len, n1)
    BY <1>1, <1>2, <2>1 DEF Short
  <2>3. \E f : m.bitmap \ {f} \subseteq m'.bitmap
    BY <1>2
  <2>. QED
    BY <1>2, <2>2, <2>3
<1>3. CASE /\ n1 = n - 1 /\ n # 0 /\ len[n] >= pages
           /\ \E f : m.bitmap \ {f} \subseteq m'.bitmap
  <2>1. len[n] \in Nat /\ n - 1 \in Nat /\ \A k \in 1 .. n - 1 : k \in 1 .. n
    BY <1>3
  <2>2. Adjacent(len, n1)
    BY <1>3, <2>1 DEF Adjacent
  <2>3. PagesOf("buf64k") <= pages => Short(len, n1)
    <3>. SUFFICES ASSUME PagesOf("buf64k") <= pages, n1 # 0
                  PROVE  len[n1] < PagesOf("buf1m")
      BY DEF Short
    <3>1. n \in 1 .. n /\ n > 1 /\ ~(len[n] < PagesOf("buf64k"))
      BY <1>1, <1>3, <2>1
    <3>. QED
      BY <1>3, <3>1 DEF Adjacent
  <2>4. ~(Short(len, n) /\ pages = PagesOf("buf1m"))
    BY <1>1, <1>3, <2>1 DEF Short
  <2>. QED
    BY <1>3, <2>2, <2>3, <2>4
<1>. QED
  BY <1>2, <1>3 DEF Begins

\* A slot is put on the list.
LEMMA SlotPut ==
    ASSUME Fits, Ordered, NEW len, NEW n \in Nat, Adjacent(len, n), NEW x \in Nat,
           x < PagesOf("buf64k") \/ Short(len, n)
    PROVE  /\ Adjacent(Longer(len, n, x), n + 1)
           /\ x < PagesOf("buf1m") => Short(Longer(len, n, x), n + 1)
<1>1. PICK l : l = Longer(len, n, x)
  OBVIOUS
<1>2. l[n + 1] = x /\ \A k \in Nat : k # n + 1 => l[k] = len[k]
  BY <1>1 DEF Longer
<1>3. Adjacent(l, n + 1)
  <2>. SUFFICES ASSUME NEW k \in 1 .. n + 1, k > 1
                PROVE  l[k - 1] < PagesOf("buf1m") \/ l[k] < PagesOf("buf64k")
    BY DEF Adjacent
  <2>1. k - 1 \in Nat /\ k - 1 # n + 1 /\ k \in Nat
    OBVIOUS
  <2>2. CASE k = n + 1
    <3>1. k - 1 = n /\ n # 0
      BY <2>2
    <3>. QED
      BY <1>2, <2>1, <2>2, <3>1 DEF Short
  <2>3. CASE k # n + 1
    <3>1. k \in 1 .. n
      BY <2>3
    <3>. QED
      BY <1>2, <2>1, <2>3, <3>1 DEF Adjacent
  <2>. QED
    BY <2>2, <2>3
<1>4. x < PagesOf("buf1m") => Short(l, n + 1)
  BY <1>2 DEF Short
<1>. QED
  BY <1>1, <1>3, <1>4

\* The first instruction and the note after it.
LEMMA FirstSays ==
    ASSUME NEW len, NEW n, NEW c, NEW z, Noted(len, n, c, z), ~waiting, program # <<>>
    PROVE  /\ Head(program) \in Instructions
           /\ \E b : /\ b \in Notes /\ <<c, Head(program), b>> \in SaysRule
                     /\ Runs(SaysRule, Tail(program), b, z)
<1>1. Runs(SaysRule, program, c, z)
  BY DEF Noted, Left
<1>2. Head(program) \in Instructions
  BY <1>1, RunsTail
<1>3. PICK b : <<c, Head(program), b>> \in SaysRule /\ Runs(SaysRule, Tail(program), b, z)
  BY <1>1, RunsTail
<1>4. b \in Notes
  BY <1>3 DEF SaysRule
<1>. QED
  BY <1>2, <1>3, <1>4

\* The rule an instruction follows.
LEMMA RuleOf ==
    ASSUME NEW a, NEW i, NEW b, <<a, i, b>> \in SaysRule
    PROVE  /\ a \in Notes /\ b \in Notes /\ i \in Instructions
           /\ i.do = "alloc" => SaysAlloc(a, i, b)
           /\ i.do = "free" => SaysFree(a, i, b)
           /\ i.do = "verify" => b = a
           /\ i.do = "above" => i.var = Buf1m /\ i.than = Buf64k /\ a = "above" /\ b = "calm"
BY DEF SaysRule

\* A variable is taken memory for when it holds none.
LEMMA FreshVar ==
    ASSUME ClientInv, program # <<>>, Head(program).do = "alloc"
    PROVE  /\ Head(program).var \in Vars /\ held[Head(program).var] = Nothing
           /\ Head(program).size \in Sizes
<1>1. PICK a, z : Client(a, z)
  BY DEF ClientInv
<1>2. Head(program) \in Instructions
  BY <1>1, FirstInstr
<1>3. Head(program).var \in Vars /\ Head(program).size \in Sizes
  BY <1>2, InstrFields
<1>4. PICK b : <<a, Head(program), b>> \in OwnRule
  BY <1>1, FirstInstr
<1>5. Head(program).var \notin a
  BY <1>4 DEF OwnRule
<1>. QED
  BY <1>1, <1>3, <1>5 DEF Client, Holds

\* What a variable holds is allocated.
LEMMA HeldLive ==
    ASSUME ClientInv, NEW v \in Vars, held[v] # Nothing
    PROVE  held[v] \in live
BY DEF ClientInv, Client, Holds

\* A command is entered.
LEMMA SaysEnter ==
    ASSUME Fits, Ordered, SaysInv, ClientInv', NEW cmd \in Commands, enter_command(cmd)
    PROVE  SaysInv'
<1>1. PICK len, n, c, z : Noted(len, n, c, z)
  BY DEF SaysInv
<1>2. /\ op = Idle /\ program = <<>> /\ UNCHANGED vars /\ waiting' = waiting
      /\ verdict' = verdict /\ program' = process_input(cmd)
      /\ held' = [v \in Vars |-> Nothing]
  BY DEF enter_command
<1>3. ~waiting /\ waiting' = FALSE /\ op' = Idle /\ op'.kind = "idle"
  BY <1>2 DEF SaysInv, ClientInv, Waits, vars, Idle
<1>4. PICK y : Runs(SaysRule, program', "none", y)
  BY <1>2, SaysCommand
<1>5. InvWith(len, n)' /\ Adjacent(len, n)'
  BY <1>1, <1>2, RestCall DEF Noted, Adjacent
<1>6. HeldSizes' /\ NullIsFull'
  BY <1>2, <1>3 DEF HeldSizes, NullIsFull
<1>7. Says("none", len, n)'
  BY DEF Says, SaysShort, SaysAbove, SaysSpent, SaysPaired, SaysCover
<1>8. Noted(len, n, "none", y)'
  BY <1>3, <1>4, <1>5, <1>7 DEF Noted, Left, Notes, Quiet
<1>. QED
  BY <1>2, <1>6, <1>8 DEF SaysInv

\* The command goes on while the heap rests, with the next note.
LEMMA SaysPass ==
    ASSUME SaysInv, ClientInv', op = Idle, UNCHANGED vars, held' = held, waiting' = FALSE,
           program' = Tail(program), "overlap" \notin verdict',
           NEW len, NEW n, NEW c, NEW z, NEW b, Noted(len, n, c, z), b \in Notes,
           Runs(SaysRule, Tail(program), b, z), Says(b, len, n)'
    PROVE  SaysInv'
<1>1. InvWith(len, n)' /\ Adjacent(len, n)'
  BY RestCall DEF Noted, Adjacent
<1>2. op' = Idle /\ op'.kind = "idle"
  BY DEF vars, Idle
<1>3. HeldSizes' /\ NullIsFull'
  BY DEF SaysInv, HeldSizes, NullIsFull
<1>4. Left(b, z)'
  BY DEF Left
<1>5. Noted(len, n, b, z)'
  BY <1>1, <1>2, <1>4 DEF Noted
<1>. QED
  BY <1>3, <1>5 DEF SaysInv

\* The values are looked at: nothing changes.
LEMMA SaysVerify ==
    ASSUME Fits, SaysInv, Sane, Sane', verify
    PROVE  SaysInv'
<1>1. PICK len, n, c, z : Noted(len, n, c, z)
  BY DEF SaysInv
<1>2. /\ ClientInv' /\ verdict' = verdict /\ program' = Tail(program)
      /\ UNCHANGED vars /\ held' = held /\ waiting' = waiting
  BY VerifyStep DEF SaysInv
<1>3. op = Idle /\ ~waiting /\ program # <<>> /\ Head(program).do = "verify"
  BY DEF verify, At
<1>4. PICK b : /\ b \in Notes /\ <<c, Head(program), b>> \in SaysRule
               /\ Runs(SaysRule, Tail(program), b, z)
  BY <1>1, <1>3, FirstSays
<1>5. b = c
  BY <1>3, <1>4, RuleOf
<1>6. op' = op /\ m' = m /\ waiting' = FALSE
  BY <1>2, <1>3 DEF vars, SaysInv, ClientInv, Waits
<1>7. Says(c, len, n)'
  <2>1. Says(c, len, n) /\ (Ready(len, n)' <=> Ready(len, n)) /\ (Full' <=> Full)
        /\ (Tight' <=> Tight)
    BY <1>1, <1>6 DEF Noted, Ready, Full, Tight, Short
  <2>. QED
    BY <1>2, <1>6, <2>1 DEF Says, SaysShort, SaysAbove, SaysSpent, SaysPaired, SaysCover
<1>8. "overlap" \notin verdict'
  BY <1>2 DEF SaysInv
<1>. QED
  BY <1>1, <1>2, <1>3, <1>4, <1>5, <1>6, <1>7, <1>8, SaysPass

\* The addresses are compared, and buf1m lies above.
LEMMA SaysCompare ==
    ASSUME Fits, SaysInv, Sane, Sane', above
    PROVE  SaysInv'
<1>1. PICK len, n, c, z : Noted(len, n, c, z)
  BY DEF SaysInv
<1>2. ClientInv'
  BY AboveStep DEF SaysInv
<1>3. op = Idle /\ ~waiting /\ program # <<>> /\ Head(program).do = "above"
  BY DEF above, At
<1>4. PICK b : /\ b \in Notes /\ <<c, Head(program), b>> \in SaysRule
               /\ Runs(SaysRule, Tail(program), b, z)
  BY <1>1, <1>3, FirstSays
<1>5. Head(program).var = Buf1m /\ Head(program).than = Buf64k /\ c = "above" /\ b = "calm"
  BY <1>3, <1>4, RuleOf
<1>6. held[Buf1m].ptr \in Nat /\ held[Buf64k].ptr \in Nat
  <2>1. Buf1m \in Vars /\ Buf64k \in Vars
    BY Kinds DEF MiddleVars
  <2>. QED
    BY <2>1 DEF SaysInv, ClientInv
<1>7. ~(held[Buf1m] # Nothing /\ held[Buf64k] # Nothing /\ held[Buf1m].ptr <= held[Buf64k].ptr)
  BY <1>1, <1>5, <1>6 DEF Noted, Says, SaysAbove
<1>8. /\ verdict' = verdict /\ program' = Tail(program)
      /\ UNCHANGED vars /\ held' = held /\ waiting' = waiting
  BY <1>5, <1>7 DEF above
<1>9. op' = op /\ waiting' = FALSE
  BY <1>3, <1>8 DEF vars, SaysInv, ClientInv, Waits
<1>10. Says("calm", len, n)'
  <2>1. Ready(len, n)'
    BY <1>1, <1>5, <1>9 DEF Noted, Says, SaysShort, Ready, Short
  <2>. QED
    BY <2>1 DEF Says, SaysShort, SaysAbove, SaysSpent, SaysPaired, SaysCover
<1>11. "overlap" \notin verdict'
  BY <1>8 DEF SaysInv
<1>. QED
  BY <1>1, <1>2, <1>3, <1>4, <1>5, <1>8, <1>9, <1>10, <1>11, SaysPass

\* kmalloc returned NULL: all frames are used.
LEMMA SaysNull ==
    ASSUME Fits, SaysInv, Sane, Sane', got_null, cpu' = "run"
    PROVE  SaysInv'
<1>1. PICK len, n, c, z : Noted(len, n, c, z)
  BY DEF SaysInv
<1>2. ClientInv'
  BY NullStep DEF SaysInv
<1>3. op = Idle /\ waiting
  BY DEF got_null
<1>4. /\ program' = Tail(program) /\ waiting' = FALSE /\ UNCHANGED vars /\ held' = held
      /\ verdict' \subseteq verdict \cup {"null"}
  BY DEF got_null, Stop
<1>5. Runs(SaysRule, Tail(program), c, z) /\ c \in Notes
  BY <1>1, <1>3 DEF Noted, Left
<1>6. op' = op /\ m' = m
  BY <1>4 DEF vars
<1>7. Full'
  BY <1>3, <1>6 DEF SaysInv, NullIsFull, Full
<1>8. Says(c, len, n)'
  <2>1. Says(c, len, n) /\ (Ready(len, n)' <=> Ready(len, n)) /\ (Tight' <=> Tight)
    BY <1>1, <1>6 DEF Noted, Ready, Full, Tight, Short
  <2>. QED
    BY <1>4, <1>6, <1>7, <2>1 DEF Says, SaysShort, SaysAbove, SaysSpent, SaysPaired, SaysCover
<1>9. "overlap" \notin verdict'
  BY <1>4 DEF SaysInv
<1>. QED
  BY <1>1, <1>2, <1>3, <1>4, <1>5, <1>8, <1>9, SaysPass

\* kmalloc is called: a table or buf64k leaves a short slot on top, buf1m then
\* comes from behind everything, and tbig finds at most one frame when there was
\* none for tbuf8.
LEMMA SaysKmalloc ==
    ASSUME Fits, Ordered, SaysInv, Sane, Sane', call_kmalloc
    PROVE  SaysInv'
<1>1. PICK len, n, c, z : Noted(len, n, c, z)
  BY DEF SaysInv
<1>2. op = Idle /\ ~waiting /\ program # <<>> /\ Head(program).do = "alloc"
  BY DEF call_kmalloc, At
<1>3. PICK b : /\ b \in Notes /\ <<c, Head(program), b>> \in SaysRule
               /\ Runs(SaysRule, Tail(program), b, z)
  BY <1>1, <1>2, FirstSays
<1>4. PICK size, v : size = Head(program).size /\ v = Head(program).var
  OBVIOUS
<1>5. v \in Vars /\ held[v] = Nothing /\ size \in Sizes
  BY <1>2, <1>4, FreshVar DEF SaysInv
<1>6. /\ waiting' = TRUE /\ program' = program /\ held' = held /\ verdict' = verdict
      /\ alloc_fast(size) \/ alloc_slow(size) \/ large_begin(size)
  BY <1>4 DEF call_kmalloc
<1>7. ClientInv' /\ cpu' = "run"
  <2>1. ClientInv'
    BY AllocStep DEF SaysInv
  <2>. QED
    BY <2>1 DEF ClientInv, IInv, Inv, Typed
<1>8. \/ v = Buffer /\ b = "none"
      \/ v \in SmallVars /\ size = Ask(v) /\ c \in Quiet /\ b = c
      \/ v \in MiddleVars /\ size = Ask(v) /\ b = "calm"
      \/ v = Buf1m /\ size = Ask(v) /\ c = "calm" /\ b = "above"
      \/ v = Tbuf8 /\ size = Ask(v) /\ b = "spent"
      \/ v = Tbig /\ size = Ask(v) /\ c = "spent" /\ b = "paired"
  BY <1>2, <1>3, <1>4, RuleOf DEF SaysAlloc
<1>9. Left(b, z)'
  BY <1>3, <1>6 DEF Left
<1>10. HeldSizes' /\ "overlap" \notin verdict'
  BY <1>6 DEF SaysInv, HeldSizes
<1>11. Large \notin Domains
  BY HeapNumbers DEF Domains, Large
<1>12. Says(c, len, n) /\ Adjacent(len, n) /\ InvWith(len, n) /\ op.kind = "idle"
  BY <1>1, <1>2 DEF Noted, Idle
<1>13. CASE alloc_fast(size) \/ alloc_slow(size)
  <2>1. InvWith(len, n)' /\ ((op' = Idle /\ Full') \/ op'.kind = "fill")
    BY <1>5, <1>12, <1>13, SmallCall
  <2>2. op'.kind \in {"idle", "fill"}
    BY <2>1 DEF Idle
  <2>3. ClassOf(size) # Large
    BY <1>11, <1>13 DEF alloc_fast, alloc_slow
  <2>4. b = "none" \/ (c \in Quiet /\ b = c)
    BY <1>8, <2>3, KindSizes
  <2>5. Says(b, len, n)'
    <3>1. (c = "calm" => Short(len, n)) /\ (c = "cover" => held[Tbuf8] # Nothing \/ Short(len, n))
      BY <1>12 DEF Says, SaysShort, SaysCover, Ready
    <3>2. Short(len, n) => Ready(len, n)'
      BY <2>2 DEF Ready, Short
    <3>. QED
      BY <1>6, <2>4, <3>1, <3>2
         DEF Says, SaysShort, SaysAbove, SaysSpent, SaysPaired, SaysCover, Quiet
  <2>6. NullIsFull'
    BY <2>1, <2>2 DEF NullIsFull, Idle
  <2>7. Noted(len, n, b, z)'
    BY <1>3, <1>9, <1>12, <2>1, <2>2, <2>5 DEF Noted, Adjacent
  <2>. QED
    BY <1>7, <1>10, <2>6, <2>7 DEF SaysInv
<1>14. CASE large_begin(size)
  <2>1. PICK pages : pages = PagesFor(size)
    OBVIOUS
  <2>2. pages \in Nat /\ n \in Nat /\ \A k \in 1 .. n : len[k] \in Nat
    BY <1>5, <1>12, <2>1, PagesForFacts, SlotTop
  <2>3. PICK n1 : InvWith(len, n1)' /\ Begins(len, n, n1, pages)
    BY <1>5, <1>7, <1>12, <1>14, <2>1, LargeCall
  <2>4. op'.kind = "map" /\ op'.i = 0
    BY <1>5, <1>7, <1>12, <1>14, LargeCall
  <2>5. /\ Adjacent(len, n1)
        /\ PagesOf("buf64k") <= pages /\ pages <= PagesOf("buf1m") => Short(len, n1)
        /\ Short(len, n) /\ pages = PagesOf("buf1m") => op'.start = cursor[Large]
        /\ \E f : m.bitmap \ {f} \subseteq m'.bitmap
    BY <1>12, <2>2, <2>3, SlotTaken
  <2>6. ClassOf(size) = Large
    BY <1>14 DEF large_begin
  <2>7. PagesOf("buf64k") \in Nat /\ PagesOf("buf1m") \in Nat
        /\ PagesOf("buf64k") < PagesOf("buf1m")
    BY KindSizes
  <2>8. Short(len, n1) => Ready(len, n1)'
    BY <2>4 DEF Ready, Short
  <2>9. Says(b, len, n1)'
    <3>1. CASE b = "none"
      BY <3>1 DEF Says, SaysShort, SaysAbove, SaysSpent, SaysPaired, SaysCover
    <3>2. CASE v \in MiddleVars /\ size = Ask(v) /\ b = "calm"
      <4>1. PagesOf("buf64k") <= pages /\ pages < PagesOf("buf1m")
        BY <2>1, <3>2, KindSizes
      <4>2. Ready(len, n1)'
        BY <2>2, <2>5, <2>7, <2>8, <4>1
      <4>. QED
        BY <3>2, <4>2 DEF Says, SaysShort, SaysAbove, SaysSpent, SaysPaired, SaysCover
    <3>3. CASE v = Buf1m /\ size = Ask(v) /\ c = "calm" /\ b = "above"
      <4>1. pages = PagesOf("buf1m")
        BY <2>1, <3>3, KindSizes
      <4>2. Short(len, n)
        BY <1>12, <3>3 DEF Says, SaysShort, Ready
      <4>3. Ready(len, n1)' /\ op'.start = cursor[Large]
        BY <2>5, <2>7, <2>8, <4>1, <4>2
      <4>4. held[Buf64k] # Nothing => held[Buf64k].ptr <= cursor[Large]
        <5>. SUFFICES ASSUME held[Buf64k] # Nothing PROVE held[Buf64k].ptr <= cursor[Large]
          OBVIOUS
        <5>1. Buf64k \in Vars /\ Buf64k # Buffer
          BY Kinds
        <5>2. held[Buf64k] \in live
          BY <5>1, HeldLive DEF SaysInv
        <5>3. held[Buf64k].size = Ask(Buf64k)
          BY <5>1 DEF SaysInv, HeldSizes
        <5>4. ClassOf(held[Buf64k].size) = Large
          BY <5>3, KindSizes
        <5>. QED
          BY <5>2, <5>4, HeldBelow DEF SaysInv, ClientInv
      <4>5. SaysAbove(b)'
        BY <1>5, <1>6, <2>4, <3>3, <4>3, <4>4 DEF SaysAbove
      <4>. QED
        BY <3>3, <4>3, <4>5 DEF Says, SaysShort, SaysSpent, SaysPaired, SaysCover
    <3>4. CASE b = "spent"
      BY <1>6, <3>4 DEF Says, SaysShort, SaysAbove, SaysSpent, SaysPaired, SaysCover
    <3>5. CASE v = Tbig /\ size = Ask(v) /\ c = "spent" /\ b = "paired"
      <4>1. pages = PagesOf("buf1m")
        BY <2>1, <3>5, KindSizes
      <4>2. Ready(len, n1)'
        BY <2>5, <2>7, <2>8, <4>1
      <4>3. held[Tbuf8] = Nothing => Tight'
        <5>. SUFFICES ASSUME held[Tbuf8] = Nothing PROVE Tight'
          OBVIOUS
        <5>1. Full
          BY <1>2, <1>12, <3>5 DEF Says, SaysSpent
        <5>2. PICK f : m.bitmap \ {f} \subseteq m'.bitmap
          BY <2>5
        <5>3. Frame \ {f} \subseteq m'.bitmap
          BY <5>1, <5>2 DEF Full
        <5>. QED
          BY <2>4, <5>3 DEF Tight
      <4>4. SaysPaired(b)'
        BY <1>5, <1>6, <2>4, <3>5, <4>3 DEF SaysPaired
      <4>. QED
        BY <3>5, <4>2, <4>4 DEF Says, SaysShort, SaysAbove, SaysSpent, SaysCover
    <3>6. v \notin SmallVars \/ size # Ask(v)
      BY <1>11, <2>6, KindSizes
    <3>. QED
      BY <1>8, <3>1, <3>2, <3>3, <3>4, <3>5, <3>6
  <2>10. NullIsFull'
    BY <2>4 DEF NullIsFull, Idle
  <2>11. Noted(len, n1, b, z)'
    BY <1>3, <1>9, <2>3, <2>4, <2>5, <2>9 DEF Noted, Adjacent
  <2>. QED
    BY <1>7, <1>10, <2>10, <2>11 DEF SaysInv
<1>. QED
  BY <1>6, <1>13, <1>14

\* kfree is called: tbig goes back while tbuf8 is held, or was not held itself,
\* and tbuf8 covers its slot.
LEMMA SaysKfree ==
    ASSUME Fits, Ordered, SaysInv, Sane, Sane', call_kfree
    PROVE  SaysInv'
<1>1. PICK len, n, c, z : Noted(len, n, c, z)
  BY DEF SaysInv
<1>2. op = Idle /\ ~waiting /\ program # <<>> /\ Head(program).do = "free"
  BY DEF call_kfree, At
<1>3. PICK b : /\ b \in Notes /\ <<c, Head(program), b>> \in SaysRule
               /\ Runs(SaysRule, Tail(program), b, z)
  BY <1>1, <1>2, FirstSays
<1>4. PICK v, x : v = Head(program).var /\ x = held[v]
  OBVIOUS
<1>5. \/ v \in SmallVars /\ c \in Quiet /\ b = c
      \/ v \in MiddleVars /\ c = "calm" /\ b = "calm"
      \/ v = Buf1m /\ c = "calm" /\ b = "none"
      \/ v = Tbig /\ c = "paired" /\ b = "cover"
      \/ v = Tbuf8 /\ c = "cover" /\ b = "calm"
  BY <1>2, <1>3, <1>4, RuleOf DEF SaysFree
<1>6. v \in Vars /\ v # Buffer
  BY <1>5, Kinds
<1>7. /\ program' = Tail(program) /\ held' = [held EXCEPT ![v] = Nothing]
      /\ waiting' = waiting /\ verdict' = verdict
      /\ \/ free_small(x) \/ large_free_begin(x)
         \/ Route(x.ptr) = 0 /\ UNCHANGED vars
  BY <1>4 DEF call_kfree
<1>8. ClientInv' /\ cpu' = "run"
  <2>1. ClientInv'
    BY FreeCall DEF SaysInv
  <2>. QED
    BY <2>1 DEF ClientInv, IInv, Inv, Typed
<1>9. /\ held \in [Vars -> [ptr : Nat, size : Nat]] /\ IInv /\ waiting' = FALSE
      /\ "overlap" \notin verdict'
  BY <1>2, <1>7 DEF SaysInv, ClientInv, Waits
<1>10. held'[v] = Nothing /\ \A w \in Vars \ {v} : held'[w] = held[w]
  BY <1>6, <1>7, <1>9
<1>11. /\ Says(c, len, n) /\ Adjacent(len, n) /\ InvWith(len, n) /\ op.kind = "idle"
       /\ (c \in {"calm", "paired"} => Short(len, n))
       /\ (c = "cover" => held[Tbuf8] # Nothing \/ Short(len, n))
       /\ (c = "paired" /\ held[Tbig] # Nothing => held[Tbuf8] # Nothing)
  BY <1>1, <1>2 DEF Noted, Idle, Says, SaysShort, SaysCover, SaysPaired, Ready
<1>12. CASE x = Nothing
  <2>1. Route(x.ptr) = 0
    BY <1>12, RouteOfNull DEF Nothing
  <2>2. UNCHANGED vars
    <3>1. 0 \notin Domains /\ 0 # Large
      BY HeapNumbers DEF Domains, Large
    <3>. QED
      BY <1>7, <2>1, <3>1 DEF free_small, large_free_begin
  <2>3. held' = held
    BY <1>4, <1>6, <1>7, <1>9, <1>12
  <2>4. Short(len, n) => Ready(len, n)'
    BY <1>2, <2>2 DEF Ready, Short, vars, Idle
  <2>5. Says(b, len, n)'
    BY <1>4, <1>5, <1>11, <1>12, <2>3, <2>4
       DEF Says, SaysShort, SaysAbove, SaysSpent, SaysPaired, SaysCover, Quiet
  <2>. QED
    BY <1>1, <1>2, <1>3, <1>7, <1>8, <1>9, <2>2, <2>3, <2>5, SaysPass
<1>13. CASE x # Nothing
  <2>1. x \in live /\ x.size = Ask(v)
    BY <1>4, <1>6, <1>13, HeldLive DEF SaysInv, HeldSizes
  <2>2. free_small(x) \/ large_free_begin(x)
    <3>1. Route(x.ptr) \in Heaps
      BY <1>9, <2>1, HeldRoute
    <3>2. 0 \notin Heaps
      BY HeapNumbers DEF Heaps, Domains, Large
    <3>. QED
      BY <1>7, <3>1, <3>2
  <2>3. /\ InvWith(len, n)'
        /\ \/ ClassOf(x.size) \in Domains /\ op' = Idle
           \/ ClassOf(x.size) = Large /\ op'.kind = "unmap" /\ op'.pages = PagesFor(x.size)
    BY <1>8, <1>11, <2>1, <2>2, FreeSlots
  <2>4. Large \notin Domains
    BY HeapNumbers DEF Domains, Large
  <2>5. HeldSizes'
    BY <1>10 DEF SaysInv, HeldSizes
  <2>6. NullIsFull' /\ Left(b, z)'
    BY <1>3, <1>7, <1>9 DEF NullIsFull, Left
  <2>7. CASE ClassOf(x.size) \in Domains /\ op' = Idle
    <3>1. v \in SmallVars /\ c \in Quiet /\ b = c
      BY <1>5, <2>1, <2>4, <2>7, KindSizes
    <3>2. held'[Tbuf8] = held[Tbuf8]
      BY <1>10, <3>1, Kinds
    <3>3. op'.kind = "idle" /\ (Short(len, n) => Ready(len, n)')
      BY <2>7 DEF Ready, Short, Idle
    <3>4. Says(b, len, n)'
      BY <1>11, <3>1, <3>2, <3>3
         DEF Says, SaysShort, SaysAbove, SaysSpent, SaysPaired, SaysCover, Quiet
    <3>5. Noted(len, n, b, z)'
      BY <1>3, <1>11, <2>3, <2>6, <3>3, <3>4 DEF Noted, Adjacent
    <3>. QED
      BY <1>8, <1>9, <2>5, <2>6, <3>5 DEF SaysInv
  <2>8. CASE ClassOf(x.size) = Large /\ op'.kind = "unmap" /\ op'.pages = PagesFor(x.size)
    <3>1. v \notin SmallVars
      BY <2>1, <2>4, <2>8, KindSizes
    <3>2. PICK k : k = op'.pages
      OBVIOUS
    <3>3. /\ k \in Nat /\ PagesOf("buf64k") \in Nat /\ PagesOf("buf1m") \in Nat
          /\ PagesOf("buf64k") < PagesOf("buf1m")
      BY <1>9, <2>1, <2>8, <3>2, HeldRoute, PagesForFacts, KindSizes
    <3>4. v \in MiddleVars => k < PagesOf("buf1m")
      BY <2>1, <2>8, <3>2, KindSizes
    <3>5. v = Tbuf8 => k < PagesOf("buf64k")
      BY <2>1, <2>8, <3>2, KindSizes
    <3>6. k < PagesOf("buf1m") => Ready(len, n)'
      BY <2>8, <3>2 DEF Ready
    <3>7. Says(b, len, n)' /\ b \in Quiet
      <4>1. CASE b = "calm" /\ v \in MiddleVars
        BY <3>4, <3>6, <4>1
           DEF Says, SaysShort, SaysAbove, SaysSpent, SaysPaired, SaysCover, Quiet
      <4>2. CASE b = "none"
        BY <4>2 DEF Says, SaysShort, SaysAbove, SaysSpent, SaysPaired, SaysCover, Quiet
      <4>3. CASE v = Tbig /\ c = "paired" /\ b = "cover"
        <5>1. held'[Tbuf8] # Nothing
          BY <1>4, <1>10, <1>11, <1>13, <4>3, Kinds
        <5>. QED
          BY <4>3, <5>1 DEF Says, SaysShort, SaysAbove, SaysSpent, SaysPaired, SaysCover, Quiet
      <4>4. CASE v = Tbuf8 /\ c = "cover" /\ b = "calm"
        <5>1. Ready(len, n)'
          BY <3>3, <3>5, <3>6, <4>4
        <5>. QED
          BY <4>4, <5>1 DEF Says, SaysShort, SaysAbove, SaysSpent, SaysPaired, SaysCover, Quiet
      <4>. QED
        BY <1>5, <3>1, <4>1, <4>2, <4>3, <4>4
    <3>8. k < PagesOf("buf64k") \/ Short(len, n)
      BY <1>5, <1>11, <3>1, <3>5
    <3>9. Noted(len, n, b, z)'
      BY <1>3, <1>11, <2>3, <2>6, <2>8, <3>2, <3>7, <3>8 DEF Noted, Adjacent, Short
    <3>. QED
      BY <1>8, <1>9, <2>5, <2>6, <3>9 DEF SaysInv
  <2>. QED
    BY <2>3, <2>7, <2>8
<1>. QED
  BY <1>12, <1>13

\* The memory is filled and its caller has the pointer.
LEMMA SaysFill ==
    ASSUME Fits, Ordered, SaysInv, Sane, Sane', heap_step, op.kind = "fill"
    PROVE  SaysInv'
<1>1. PICK len, n, c, z : Noted(len, n, c, z)
  BY DEF SaysInv
<1>2. ClientInv' /\ cpu' = "run" /\ Step /\ IInv /\ Waits
      /\ held \in [Vars -> [ptr : Nat, size : Nat]]
  <2>1. ClientInv' /\ Step
    BY HeapStep DEF SaysInv, heap_step
  <2>. QED
    BY <2>1 DEF SaysInv, ClientInv, IInv, Inv, Typed
<1>3. PICK x, v : x = op.of /\ v = Head(program).var
  OBVIOUS
<1>4. op' = Idle /\ op'.kind = "idle"
  BY <1>2, CallGoesOn DEF Idle
<1>5. /\ held' = [held EXCEPT ![v] = x] /\ program' = Tail(program) /\ waiting' = FALSE
      /\ verdict' = verdict
  BY <1>3 DEF heap_step
<1>6. x \in live /\ x # Nothing
  <2>1. op \in [kind : {"fill"}, of : live]
    BY <1>2, CallKinds DEF IInv, Inv, Typed
  <2>. QED
    BY <1>2, <1>3, <2>1, HeldRoute
<1>7. waiting /\ program # <<>> /\ Head(program).do = "alloc" /\ x.size = Head(program).size
  BY <1>2, <1>3 DEF Waits
<1>8. v \in Vars /\ held[v] = Nothing
  BY <1>3, <1>7, FreshVar DEF SaysInv
<1>9. PICK b : <<b, Head(program), c>> \in SaysRule
  BY <1>1, <1>7 DEF Noted, Left
<1>10. Runs(SaysRule, Tail(program), c, z) /\ c \in Notes
  BY <1>1, <1>7 DEF Noted, Left
<1>11. /\ v = Buffer \/ x.size = Ask(v)
       /\ \/ v = Buffer /\ c = "none"
          \/ v \in SmallVars /\ c \in Quiet
          \/ v \in MiddleVars /\ c = "calm"
          \/ v = Buf1m /\ c = "above"
          \/ v = Tbuf8 /\ c = "spent"
          \/ v = Tbig /\ c = "paired"
  BY <1>3, <1>7, <1>9, RuleOf DEF SaysAlloc
<1>12. held'[v] = x /\ \A w \in Vars \ {v} : held'[w] = held[w]
  BY <1>2, <1>5, <1>8
<1>13. user_fill
  BY <1>2 DEF Step, init_heap, premap, large_map, large_return, large_unmap,
              large_free_return
<1>14. InvWith(len, n)' /\ Adjacent(len, n)'
  BY <1>1, <1>13, FillCall DEF Noted, Adjacent
<1>15. HeldSizes'
  BY <1>11, <1>12 DEF SaysInv, HeldSizes
<1>16. NullIsFull' /\ Left(c, z)' /\ "overlap" \notin verdict'
  BY <1>5, <1>10 DEF NullIsFull, Left, SaysInv
<1>17. /\ (c \in {"calm", "above", "paired"} => Ready(len, n)')
       /\ (c = "cover" => held[Tbuf8] # Nothing \/ Ready(len, n)')
       /\ SaysAbove(c) /\ SaysPaired(c)
  BY <1>1, <1>4 DEF Noted, Says, SaysShort, SaysCover, Ready, Short
<1>18. Says(c, len, n)'
  <2>1. CASE c \in {"none", "calm"}
    BY <1>17, <2>1 DEF Says, SaysShort, SaysAbove, SaysSpent, SaysPaired, SaysCover
  <2>2. CASE c = "cover"
    <3>1. held'[Tbuf8] = held[Tbuf8]
      BY <1>11, <1>12, <2>2, Kinds
    <3>. QED
      BY <1>17, <2>2, <3>1 DEF Says, SaysShort, SaysAbove, SaysSpent, SaysPaired, SaysCover
  <2>3. CASE c = "above"
    <3>1. held'[Buf64k] = held[Buf64k] /\ held'[Buf1m] = x
      BY <1>11, <1>12, <2>3, Kinds DEF Quiet
    <3>2. SaysAbove(c)'
      BY <1>3, <1>4, <1>17, <2>3, <3>1 DEF SaysAbove
    <3>. QED
      BY <1>17, <2>3, <3>2 DEF Says, SaysShort, SaysSpent, SaysPaired, SaysCover
  <2>4. CASE c = "spent"
    <3>1. held'[Tbuf8] # Nothing
      BY <1>6, <1>11, <1>12, <2>4 DEF Quiet
    <3>. QED
      BY <2>4, <3>1 DEF Says, SaysShort, SaysAbove, SaysSpent, SaysPaired, SaysCover
  <2>5. CASE c = "paired"
    <3>1. held'[Tbuf8] = held[Tbuf8]
      BY <1>11, <1>12, <2>5, Kinds DEF Quiet
    <3>2. held[Tbuf8] # Nothing
      BY <1>17, <2>5 DEF SaysPaired
    <3>. QED
      BY <1>17, <2>5, <3>1, <3>2 DEF Says, SaysShort, SaysAbove, SaysSpent, SaysPaired, SaysCover
  <2>. QED
    BY <1>10, <2>1, <2>2, <2>3, <2>4, <2>5 DEF Notes, Quiet
<1>19. Noted(len, n, c, z)'
  BY <1>4, <1>10, <1>14, <1>16, <1>18 DEF Noted
<1>. QED
  BY <1>2, <1>15, <1>16, <1>19 DEF SaysInv

\* A round of kmalloc_large's loop.  Without memory for tbuf8 there is none for
\* the second page of tbig.
LEMMA SaysMap ==
    ASSUME Fits, Ordered, SaysInv, Sane, Sane', heap_step, op.kind = "map"
    PROVE  SaysInv'
<1>1. PICK len, n, c, z : Noted(len, n, c, z)
  BY DEF SaysInv
<1>2. ClientInv' /\ Step /\ IInv /\ Waits /\ held \in [Vars -> [ptr : Nat, size : Nat]]
  <2>1. ClientInv' /\ Step
    BY HeapStep DEF SaysInv, heap_step
  <2>. QED
    BY <2>1 DEF SaysInv, ClientInv
<1>3. large_map \/ large_return
  BY <1>2 DEF Step, init_heap, premap, large_unmap, large_free_return, user_fill
<1>4. /\ waiting /\ Head(program).do = "alloc" /\ op.size = Head(program).size
      /\ waiting' = waiting /\ program' = program /\ held' = held /\ verdict' = verdict
  BY <1>2 DEF Waits, heap_step, clientVars
<1>5. InvWith(len, n) /\ Adjacent(len, n)' /\ Says(c, len, n) /\ c \in Notes
  BY <1>1 DEF Noted, Adjacent
<1>6. /\ InvWith(len, n)' /\ op.i \in Nat /\ op.pages = PagesFor(op.size)
      /\ op.start \in Nat
      /\ \/ op' = Idle /\ Full'
         \/ /\ op'.kind = "map" /\ op'.i = op.i + 1 /\ op'.start = op.start
            /\ \E f \in Frame \ m.bitmap : m.bitmap \cup {f} \subseteq m'.bitmap
         \/ /\ op.i = op.pages /\ op'.kind = "fill" /\ op'.of.ptr = op.start + 1
  BY <1>3, <1>5, MapCall
<1>7. op'.kind \in {"idle", "map", "fill"} /\ (op' = Idle => Full')
  BY <1>6 DEF Idle
<1>8. PICK b : <<b, Head(program), c>> \in SaysRule
  BY <1>1, <1>4 DEF Noted, Left
<1>9. Left(c, z)'
  <2>1. Runs(SaysRule, Tail(program), c, z)
    BY <1>1, <1>4 DEF Noted, Left
  <2>. QED
    BY <1>4, <1>8, <2>1 DEF Left
<1>10. HeldSizes' /\ NullIsFull' /\ "overlap" \notin verdict'
  BY <1>4, <1>7 DEF SaysInv, HeldSizes, NullIsFull
<1>11. Ready(len, n) => Ready(len, n)'
  BY <1>7 DEF Ready, Short
<1>12. SaysAbove(c)'
  <2>. SUFFICES ASSUME c = "above", held[Buf64k] # Nothing
                PROVE  SaysAbove(c)'
    BY <1>4 DEF SaysAbove
  <2>1. held[Buf64k].ptr \in Nat
    BY <1>2, Kinds
  <2>2. /\ held[Buf1m] # Nothing => held[Buf64k].ptr < held[Buf1m].ptr
        /\ held[Buf64k].ptr <= op.start
    BY <1>5 DEF Says, SaysAbove
  <2>3. op'.kind = "map" => op'.start = op.start
    BY <1>6 DEF Idle
  <2>4. op'.kind = "fill" => op'.of.ptr = op.start + 1
    BY <1>6 DEF Idle
  <2>5. held[Buf64k].ptr < op.start + 1
    BY <1>6, <2>1, <2>2
  <2>. QED
    BY <1>4, <2>2, <2>3, <2>4, <2>5 DEF SaysAbove
<1>13. SaysPaired(c)'
  <2>. SUFFICES ASSUME c = "paired", held[Tbuf8] = Nothing
                PROVE  held[Tbig] = Nothing /\ op'.kind # "fill" /\ (op'.kind = "map" => Tight')
    BY <1>4 DEF SaysPaired
  <2>1. held[Tbig] = Nothing /\ Tight
    BY <1>5 DEF Says, SaysPaired
  <2>2. op.pages > 1
    <3>1. op.size = Ask(Tbig)
      BY <1>4, <1>8, RuleOf DEF SaysAlloc, Quiet
    <3>2. PagesFor(Ask(Tbig)) = PagesOf("buf1m") /\ PagesOf("buf1m") > 1
      BY KindSizes
    <3>. QED
      BY <1>6, <3>1, <3>2
  <2>3. op'.kind # "fill"
    <3>1. op.i \in {0, 1} /\ op.pages \in Nat
      <4>1. op.pages \in Nat
        BY <1>2, CallKinds DEF IInv, Inv, Typed
      <4>. QED
        BY <2>1, <4>1 DEF Tight
    <3>. QED
      BY <1>6, <2>2, <3>1 DEF Idle
  <2>4. op'.kind = "map" => Tight'
    <3>. SUFFICES ASSUME op'.kind = "map" PROVE Tight'
      OBVIOUS
    <3>1. op'.i = op.i + 1
      BY <1>6 DEF Idle
    <3>2. PICK f \in Frame \ m.bitmap : m.bitmap \cup {f} \subseteq m'.bitmap
      BY <1>6 DEF Idle
    <3>3. op.i = 0 /\ \E g : Frame \ {g} \subseteq m.bitmap
      BY <2>1, <3>2 DEF Tight, Full
    <3>4. Full'
      BY <3>2, <3>3 DEF Full
    <3>. QED
      BY <3>1, <3>3, <3>4 DEF Tight
  <2>. QED
    BY <2>1, <2>3, <2>4
<1>14. Says(c, len, n)'
  BY <1>4, <1>5, <1>11, <1>12, <1>13 DEF Says, SaysShort, SaysSpent, SaysCover
<1>15. Noted(len, n, c, z)'
  BY <1>5, <1>6, <1>7, <1>9, <1>14 DEF Noted
<1>. QED
  BY <1>2, <1>10, <1>15 DEF SaysInv

\* A round of kfree_large's loop; at its end the slot is on top of the list.
LEMMA SaysUnmap ==
    ASSUME Fits, Ordered, SaysInv, Sane, Sane', heap_step, op.kind = "unmap"
    PROVE  SaysInv'
<1>1. PICK len, n, c, z : Noted(len, n, c, z)
  BY DEF SaysInv
<1>2. ClientInv' /\ Step /\ IInv /\ Waits
  <2>1. ClientInv' /\ Step
    BY HeapStep DEF SaysInv, heap_step
  <2>. QED
    BY <2>1 DEF SaysInv, ClientInv
<1>3. large_unmap \/ large_free_return
  BY <1>2 DEF Step, init_heap, premap, large_map, large_return, user_fill
<1>4. /\ waiting = FALSE /\ waiting' = waiting /\ program' = program /\ held' = held
      /\ verdict' = verdict
  BY <1>2 DEF Waits, heap_step, clientVars
<1>5. /\ InvWith(len, n) /\ Adjacent(len, n) /\ Says(c, len, n) /\ c \in Notes /\ c \in Quiet
      /\ op.pages < PagesOf("buf64k") \/ Short(len, n)
  BY <1>1 DEF Noted
<1>6. Left(c, z)'
  BY <1>1, <1>4 DEF Noted, Left
<1>7. HeldSizes' /\ NullIsFull' /\ "overlap" \notin verdict'
  BY <1>4 DEF SaysInv, HeldSizes, NullIsFull
<1>8. /\ (c = "calm" => op.pages < PagesOf("buf1m"))
      /\ (c = "cover" => held[Tbuf8] # Nothing \/ op.pages < PagesOf("buf1m"))
  BY <1>5 DEF Says, SaysShort, SaysCover, Ready
<1>9. CASE InvWith(len, n)' /\ op'.kind = "unmap" /\ op'.pages = op.pages
  <2>1. op.pages < PagesOf("buf1m") => Ready(len, n)'
    BY <1>9 DEF Ready
  <2>2. Says(c, len, n)'
    BY <1>4, <1>5, <1>8, <2>1
       DEF Says, SaysShort, SaysAbove, SaysSpent, SaysPaired, SaysCover, Quiet
  <2>3. Noted(len, n, c, z)'
    BY <1>5, <1>6, <1>9, <2>2 DEF Noted, Adjacent, Short
  <2>. QED
    BY <1>2, <1>7, <2>3 DEF SaysInv
<1>10. CASE op' = Idle /\ \E x : x = op.pages /\ InvWith(Longer(len, n, x), n + 1)'
  <2>1. PICK x : x = op.pages /\ InvWith(Longer(len, n, x), n + 1)'
    BY <1>10
  <2>2. PICK l, k : l = Longer(len, n, x) /\ k = n + 1
    OBVIOUS
  <2>3. InvWith(l, k)'
    BY <2>1, <2>2
  <2>4. x \in Nat /\ n \in Nat
    BY <1>3, <1>5, <2>1, UnmapCall, SlotTop
  <2>5. Adjacent(l, k) /\ (x < PagesOf("buf1m") => Short(l, k))
    BY <1>5, <2>1, <2>2, <2>4, SlotPut
  <2>6. op'.kind = "idle" /\ (Short(l, k) => Ready(l, k)')
    BY <1>10 DEF Ready, Short, Idle
  <2>7. Says(c, l, k)'
    BY <1>4, <1>5, <1>8, <2>1, <2>5, <2>6
       DEF Says, SaysShort, SaysAbove, SaysSpent, SaysPaired, SaysCover, Quiet
  <2>8. Noted(l, k, c, z)'
    BY <1>5, <1>6, <2>3, <2>5, <2>6, <2>7 DEF Noted, Adjacent
  <2>. QED
    BY <1>2, <1>7, <2>8 DEF SaysInv
<1>. QED
  BY <1>3, <1>5, <1>9, <1>10, UnmapCall

\* The heap is set up at boot, before any command.
LEMMA SaysBoot ==
    ASSUME Fits, SaysInv, Sane, Sane', heap_step, op.kind \in {"init", "premap"}
    PROVE  SaysInv'
<1>1. PICK len, n, c, z : Noted(len, n, c, z)
  BY DEF SaysInv
<1>2. ClientInv' /\ cpu' = "run" /\ Step /\ IInv /\ Waits
  <2>1. ClientInv' /\ Step
    BY HeapStep DEF SaysInv, heap_step
  <2>. QED
    BY <2>1 DEF SaysInv, ClientInv, IInv, Inv, Typed
<1>3. init_heap \/ premap
  BY <1>2 DEF Step, large_map, large_return, large_unmap, large_free_return, user_fill
<1>4. /\ waiting = FALSE /\ waiting' = waiting /\ program' = program /\ held' = held
      /\ verdict' = verdict
  BY <1>2 DEF Waits, heap_step, clientVars
<1>5. InvWith(len, n)' /\ Adjacent(len, n)' /\ c = "none" /\ c \in Notes
  BY <1>1, <1>3, BootCall DEF Noted, Adjacent
<1>6. op'.kind \in {"init", "premap", "idle"}
  <2>1. CASE init_heap
    BY <1>2, <2>1 DEF init_heap, Stop, Idle
  <2>2. CASE premap
    <3>1. op \in [kind : {"premap"}, heap : Domains, i : 0 .. PremapPages]
      BY <1>2, <2>2, CallKinds DEF IInv, Inv, Typed, premap
    <3>2. \/ op' = [kind |-> "init", heap |-> op.heap + 1]
          \/ op' = [op EXCEPT !.i = @ + 1]
      BY <1>2, <2>2 DEF premap, Stop
    <3>. QED
      BY <3>1, <3>2
  <2>. QED
    BY <1>3, <2>1, <2>2
<1>7. Left(c, z)' /\ HeldSizes' /\ NullIsFull' /\ "overlap" \notin verdict'
  BY <1>1, <1>4 DEF Noted, Left, SaysInv, HeldSizes, NullIsFull
<1>8. Says(c, len, n)'
  BY <1>5 DEF Says, SaysShort, SaysAbove, SaysSpent, SaysPaired, SaysCover
<1>9. Noted(len, n, c, z)'
  BY <1>5, <1>6, <1>7, <1>8 DEF Noted
<1>. QED
  BY <1>2, <1>7, <1>9 DEF SaysInv

\* The kernel starts with no freed slot.
LEMMA SaysStarts ==
    ASSUME Fits, ClientInit
    PROVE  SaysInv
<1>1. /\ Init /\ program = <<>> /\ waiting = FALSE /\ verdict = {}
      /\ held = [v \in Vars |-> Nothing] /\ op.kind = "init" /\ head[Large] = NULL
  BY DEF ClientInit, Init, Heaps
<1>2. ClientInv
  BY ClientStarts
<1>3. PICK stk, dep, len, use, from : Inv(stk, dep, len, use, from)
  BY <1>2 DEF ClientInv, IInv
<1>4. PICK n : n = dep[Large]
  OBVIOUS
<1>5. InvWith(len, n)
  BY <1>3, <1>4 DEF InvWith
<1>6. n = 0
  BY <1>1, <1>5, SlotTop
<1>7. Adjacent(len, n)
  BY <1>6 DEF Adjacent
<1>8. Left("none", "none") /\ "none" \in Notes
  BY <1>1, RunsNone DEF Left, Notes, Quiet
<1>9. Says("none", len, n)
  BY DEF Says, SaysShort, SaysAbove, SaysSpent, SaysPaired, SaysCover
<1>10. Noted(len, n, "none", "none")
  BY <1>1, <1>5, <1>7, <1>8, <1>9 DEF Noted
<1>11. HeldSizes /\ NullIsFull
  BY <1>1 DEF HeldSizes, NullIsFull
<1>. QED
  BY <1>1, <1>2, <1>10, <1>11 DEF SaysInv

\* Every step keeps the invariant, or the machine has stopped on a store through
\* the NULL that a command did not look at.
LEMMA SaysStep ==
    ASSUME Fits, Ordered, SizeOf["argv"] \notin ReadSizes, Sane, Sane',
           cpu = "run" => SaysInv, verdict \subseteq {"null"},
           [ClientNext]_<<vars, clientVars>>
    PROVE  (cpu' = "run" => SaysInv') /\ verdict' \subseteq {"null"}
<1>1. SaysInv' => verdict' \subseteq {"null"}
  BY DEF SaysInv, ClientInv
<1>2. CASE UNCHANGED <<vars, clientVars>>
  <2>1. /\ op' = op /\ m' = m /\ cpu' = cpu /\ program' = program /\ held' = held
        /\ waiting' = waiting /\ verdict' = verdict /\ UNCHANGED vars
    BY <1>2 DEF vars, clientVars
  <2>2. cpu = "run" => SaysInv'
    <3>. SUFFICES ASSUME cpu = "run" PROVE SaysInv'
      OBVIOUS
    <3>1. PICK len, n, c, z : Noted(len, n, c, z)
      BY DEF SaysInv
    <3>2. ClientInv'
      BY <1>2, <2>1, ClientStep DEF SaysInv
    <3>3. InvWith(len, n)'
      BY <2>1, <3>1, RestCall DEF Noted
    <3>4. Says(c, len, n)'
      <4>1. Says(c, len, n) /\ (Ready(len, n)' <=> Ready(len, n)) /\ (Full' <=> Full)
            /\ (Tight' <=> Tight)
        BY <2>1, <3>1 DEF Noted, Ready, Full, Tight, Short
      <4>. QED
        BY <2>1, <4>1 DEF Says, SaysShort, SaysAbove, SaysSpent, SaysPaired, SaysCover
    <3>5. Left(c, z)'
      BY <2>1, <3>1 DEF Noted, Left
    <3>6. Noted(len, n, c, z)'
      BY <2>1, <3>1, <3>3, <3>4, <3>5 DEF Noted, Adjacent, Short
    <3>. QED
      BY <2>1, <3>2, <3>6 DEF SaysInv, HeldSizes, NullIsFull, Full
  <2>. QED
    BY <2>1, <2>2
<1>3. CASE ClientNext
  <2>1. cpu = "run"
    BY <1>3 DEF ClientNext, enter_command, call_kmalloc, heap_step, got_null, verify, above,
                call_kfree, At, Step, init_heap, premap, large_map, large_return, large_unmap,
                large_free_return, user_fill
  <2>2. SaysInv
    BY <2>1
  <2>3. ASSUME NEW cmd \in Commands, enter_command(cmd) PROVE SaysInv'
    <3>1. ClientInv'
      BY <2>2, <2>3, EnterStep DEF SaysInv
    <3>. QED
      BY <2>2, <2>3, <3>1, SaysEnter
  <2>4. CASE heap_step
    <3>1. op.kind \in {"init", "premap", "map", "unmap", "fill"}
      BY <2>4 DEF heap_step, Step, init_heap, premap, large_map, large_return, large_unmap,
                  large_free_return, user_fill
    <3>. QED
      BY <1>1, <2>2, <2>4, <3>1, SaysFill, SaysMap, SaysUnmap, SaysBoot
  <2>5. CASE got_null
    <3>1. verdict' \subseteq {"null"}
      BY <2>5 DEF got_null, clientVars
    <3>. QED
      BY <2>2, <2>5, <3>1, SaysNull
  <2>6. call_kmalloc \/ verify \/ above \/ call_kfree => SaysInv'
    BY <2>2, SaysKmalloc, SaysVerify, SaysCompare, SaysKfree
  <2>. QED
    BY <1>1, <1>3, <2>3, <2>4, <2>5, <2>6 DEF ClientNext
<1>. QED
  BY <1>2, <1>3

\* The memory tests never blame a heap that works: whatever commands came before
\* and whatever they left on the free lists, the tests print no failure but
\* "returned NULL".  The values they stored are there, and buf1m lies above
\* buf64k.
THEOREM AlarmsAreTrue ==
    ASSUME Fits, Ordered, SizeOf["argv"] \notin ReadSizes
    PROVE  ClientSpec /\ []Supplied => []NoFalseAlarm
<1>. DEFINE Safe == (cpu = "run" => SaysInv) /\ verdict \subseteq {"null"}
<1>1. ClientInit => Safe /\ Settled
  BY SaysStarts, GrownStarts DEF ClientInit
<1>2. Safe /\ Settled /\ Supplied /\ Supplied' /\ [ClientNext]_<<vars, clientVars>>
         => Safe' /\ Settled'
  <2>. SUFFICES ASSUME Safe, Settled, Supplied, Supplied', [ClientNext]_<<vars, clientVars>>
                PROVE  Safe' /\ Settled'
    OBVIOUS
  <2>1. Settled'
    BY ClientSettled DEF Supplied, SaysInv
  <2>2. Sane /\ Sane'
    BY <2>1 DEF Settled, Supplied, Sane
  <2>. QED
    BY <2>1, <2>2, SaysStep
<1>3. Safe => NoFalseAlarm
  BY DEF NoFalseAlarm
<1>. HIDE DEF Safe
<1>. QED
  BY <1>1, <1>2, <1>3, PTL DEF ClientSpec
=============================================================================
