-------------------------- MODULE AllocCacheProofs --------------------------
(* Proofs about AllocCache, for every number of threads and blocks and every *)
(* sizes of lists, batches and slabs: what the counters say of the chains,   *)
(* and that every block has one owner, wherever it moves.                    *)
(* The argument gives each block a rank: how many blocks its chain has from  *)
(* it to the end.  A block that joins a list in front, or leaves it, changes *)
(* no other's.                                                               *)
EXTENDS AllocCache, FiniteSetTheorems, WellFoundedInduction, TLAPS

\* In memory m, the blocks of S are one chain of n blocks that starts at top.
Stack(S, r, m, top, n) ==
  /\ \A b \in S : r[b] \in 1..n
  /\ \A b, c \in S : r[b] = r[c] => b = c
  /\ n > 0 => top \in S /\ r[top] = n
  /\ \A b \in S : r[b] > 1 => m[b] \in S /\ r[m[b]] = r[b] - 1

\* The chain ends.
Ends(S, r, m, top, n) ==
  /\ n = 0 => top = Null
  /\ \A b \in S : r[b] = 1 => m[b] = Null

-----------------------------------------------------------------------------
(* Walks along a stack                                                      *)

LEMMA Least == ASSUME NEW T, T \subseteq Nat, T # {} PROVE \E x \in T : \A y \in T : x <= y
<1>1. \E x \in T : \A y \in T : ~(<<y, x>> \in OpToRel(<, Nat))
  BY WFMin, NatLessThanWellFounded
<1>2. PICK x \in T : \A y \in T : ~(<<y, x>> \in OpToRel(<, Nat))
  BY <1>1
<1>3. ASSUME NEW y \in T PROVE x <= y
  <2>1. x \in Nat /\ y \in Nat
    OBVIOUS
  <2>2. ~(y < x)
    BY <1>2, <2>1 DEF OpToRel
  <2> QED BY <2>1, <2>2
<1> QED BY <1>3

\* Every rank is some block's.
LEMMA RankTaken ==
  ASSUME NEW S, NEW r, NEW m, NEW top, NEW n \in Nat, Stack(S, r, m, top, n), NEW k \in 1..n
  PROVE  \E b \in S : r[b] = k
<1> DEFINE T == {i \in 0..(n - 1) : ~ \E b \in S : r[b] = n - i}
<1>1. SUFFICES T = {}
  <2>1. n - k \in 0..(n - 1) /\ n - (n - k) = k
    OBVIOUS
  <2> QED BY <2>1
<1>2. SUFFICES ASSUME T # {} PROVE FALSE
  OBVIOUS
<1>3. T \subseteq Nat
  OBVIOUS
<1>4. PICK i \in T : \A j \in T : i <= j
  BY <1>2, <1>3, Least
<1>5. i # 0
  <2>1. top \in S /\ r[top] = n
    BY DEF Stack
  <2> QED BY <2>1, <1>4
<1>6. i - 1 \in 0..(n - 1) /\ i - 1 \notin T
  BY <1>4, <1>5
<1>7. PICK b \in S : r[b] = n - (i - 1)
  BY <1>6
<1>8. m[b] \in S /\ r[m[b]] = n - i
  BY <1>4, <1>7 DEF Stack
<1> QED BY <1>4, <1>8

\* The word that a walk reaches, step by step.
LEMMA WalkFollows ==
  ASSUME NEW m, NEW n \in Nat, NEW f, DOMAIN f = 0..n, f = [i \in 0..n |-> f[i]],
         \A i \in 0..(n - 1) : f[i] \in Blocks /\ f[i + 1] = m[f[i]]
  PROVE  Walk(m, f[0], n) = f[n]
<1> DEFINE Rec(g) == [i \in 0..n |-> IF i = 0 THEN f[0] ELSE IF g[i - 1] \in Blocks THEN m[g[i - 1]] ELSE Data]
           at == CHOOSE g : g = Rec(g)
<1>1. f = Rec(f)
  <2>1. \A i \in 0..n : f[i] = Rec(f)[i]
    <3> SUFFICES ASSUME NEW i \in 0..n PROVE f[i] = Rec(f)[i]
      OBVIOUS
    <3>1. CASE i = 0
      BY <3>1
    <3>2. CASE i # 0
      <4>1. i - 1 \in 0..(n - 1) /\ (i - 1) + 1 = i
        BY <3>2
      <4> QED BY <3>2, <4>1
    <3> QED BY <3>1, <3>2
  <2> QED BY <2>1
<1>2. at = Rec(at)
  BY <1>1
<1>3. Walk(m, f[0], n) = at[n]
  BY DEF Walk
<1> HIDE DEF at
<1> DEFINE T == {i \in 0..n : at[i] # f[i]}
<1>4. SUFFICES ASSUME T # {} PROVE FALSE
  <2>1. n \in 0..n
    OBVIOUS
  <2> QED BY <1>3, <2>1
<1>5. PICK i \in T : \A j \in T : i <= j
  <2>1. T \subseteq Nat
    OBVIOUS
  <2> QED BY <1>4, <2>1, Least
<1>6. i # 0
  BY <1>2, <1>5
<1>7. i - 1 \in 0..(n - 1) /\ i - 1 \notin T
  BY <1>5, <1>6
<1>8. at[i - 1] = f[i - 1] /\ f[i - 1] \in Blocks /\ f[(i - 1) + 1] = m[f[i - 1]] /\ (i - 1) + 1 = i
  <2>1. i - 1 \in 0..n /\ i \in Nat
    BY <1>5, <1>7
  <2>2. at[i - 1] = f[i - 1]
    BY <1>7, <2>1
  <2>3. (i - 1) + 1 = i
    BY <2>1
  <2> QED BY <1>7, <2>2, <2>3
<1>9. at[i] = m[at[i - 1]]
  BY <1>2, <1>5, <1>6, <1>8
<1> QED BY <1>5, <1>8, <1>9

\* The walk from the top of a stack meets its blocks in the order of ranks.
LEMMA StackWalk ==
  ASSUME NEW S, NEW r, NEW m, NEW top, NEW n \in Nat, Stack(S, r, m, top, n), S \subseteq Blocks,
         NEW k \in 0..(n - 1)
  PROVE  Walk(m, top, k) \in S /\ r[Walk(m, top, k)] = n - k
<1> DEFINE f == [i \in 0..k |-> CHOOSE b \in S : r[b] = n - i]
<1>1. \A i \in 0..k : f[i] \in S /\ r[f[i]] = n - i
  <2> SUFFICES ASSUME NEW i \in 0..k PROVE f[i] \in S /\ r[f[i]] = n - i
    OBVIOUS
  <2>1. n - i \in 1..n
    OBVIOUS
  <2>2. \E b \in S : r[b] = n - i
    BY <2>1, RankTaken
  <2> QED BY <2>2
<1>2. f = [i \in 0..k |-> f[i]] /\ DOMAIN f = 0..k
  OBVIOUS
<1> HIDE DEF f
<1>3. ASSUME NEW i \in 0..(k - 1) PROVE f[i] \in Blocks /\ f[i + 1] = m[f[i]]
  <2>1. i \in 0..k /\ i + 1 \in 0..k /\ n - i > 1 /\ n - i - 1 = n - (i + 1)
    OBVIOUS
  <2>2. f[i] \in S /\ r[f[i]] = n - i /\ f[i + 1] \in S /\ r[f[i + 1]] = n - (i + 1)
    BY <1>1, <2>1
  <2>3. m[f[i]] \in S /\ r[m[f[i]]] = n - (i + 1)
    BY <2>1, <2>2 DEF Stack
  <2> QED BY <2>2, <2>3 DEF Stack
<1>4. Walk(m, f[0], k) = f[k]
  <2>1. k \in Nat
    OBVIOUS
  <2>2. \A i \in 0..(k - 1) : f[i] \in Blocks /\ f[i + 1] = m[f[i]]
    BY <1>3
  <2> QED BY <1>2, <2>1, <2>2, WalkFollows
<1>5. f[0] = top
  <2>1. 0 \in 0..k /\ n - 0 = n /\ n > 0
    OBVIOUS
  <2> QED BY <1>1, <2>1 DEF Stack
<1>6. k \in 0..k
  OBVIOUS
<1> QED BY <1>1, <1>4, <1>5, <1>6

\* Its blocks are those of the chain, and its last word ends the chain.
LEMMA StackChain ==
  ASSUME NEW S, NEW r, NEW m, NEW top, NEW n \in Nat, Stack(S, r, m, top, n), S \subseteq Blocks
  PROVE  Chain(m, top, n) = S
<1>1. \A k \in 0..(n - 1) : Walk(m, top, k) \in S /\ r[Walk(m, top, k)] = n - k
  BY StackWalk
<1>2. ASSUME NEW b \in S PROVE b \in Chain(m, top, n)
  <2>1. n - r[b] \in 0..(n - 1) /\ n - (n - r[b]) = r[b]
    BY DEF Stack
  <2>2. b = Walk(m, top, n - r[b])
    BY <1>1, <2>1 DEF Stack
  <2> QED BY <2>1, <2>2 DEF Chain
<1> QED BY <1>1, <1>2 DEF Chain

LEMMA StackEnd ==
  ASSUME NEW S, NEW r, NEW m, NEW top, NEW n \in Nat, Stack(S, r, m, top, n), S \subseteq Blocks,
         Ends(S, r, m, top, n)
  PROVE  Walk(m, top, n) = Null
<1>1. CASE n = 0
  <2> DEFINE f == [i \in 0..0 |-> top]
  <2>1. DOMAIN f = 0..0 /\ f = [i \in 0..0 |-> f[i]] /\ f[0] = top /\ 0..(0 - 1) = {}
    OBVIOUS
  <2> HIDE DEF f
  <2>2. Walk(m, f[0], 0) = f[0]
    BY <2>1, WalkFollows
  <2> QED BY <1>1, <2>1, <2>2 DEF Ends
<1>2. CASE n > 0
  <2> DEFINE f == [i \in 0..n |-> IF i = n THEN Null ELSE CHOOSE b \in S : r[b] = n - i]
  <2>1. \A i \in 0..(n - 1) : f[i] \in S /\ r[f[i]] = n - i
    <3> SUFFICES ASSUME NEW i \in 0..(n - 1) PROVE f[i] \in S /\ r[f[i]] = n - i
      OBVIOUS
    <3>1. n - i \in 1..n /\ i # n /\ i \in 0..n
      OBVIOUS
    <3>2. \E b \in S : r[b] = n - i
      BY <3>1, RankTaken
    <3> QED BY <3>1, <3>2
  <2>2. f = [i \in 0..n |-> f[i]] /\ DOMAIN f = 0..n /\ f[n] = Null
    OBVIOUS
  <2> HIDE DEF f
  <2>3. ASSUME NEW i \in 0..(n - 1) PROVE f[i] \in Blocks /\ f[i + 1] = m[f[i]]
    <3>1. f[i] \in S /\ r[f[i]] = n - i
      BY <2>1
    <3>2. CASE i + 1 = n
      <4>1. r[f[i]] = 1
        BY <3>1, <3>2
      <4> QED BY <2>2, <3>1, <3>2, <4>1 DEF Ends
    <3>3. CASE i + 1 # n
      <4>1. i + 1 \in 0..(n - 1) /\ n - i > 1 /\ n - i - 1 = n - (i + 1)
        BY <3>3
      <4>2. f[i + 1] \in S /\ r[f[i + 1]] = n - (i + 1)
        BY <2>1, <4>1
      <4>3. m[f[i]] \in S /\ r[m[f[i]]] = n - (i + 1)
        BY <3>1, <4>1 DEF Stack
      <4> QED BY <3>1, <4>2, <4>3 DEF Stack
    <3> QED BY <3>2, <3>3
  <2>4. Walk(m, f[0], n) = f[n]
    BY <2>2, <2>3, WalkFollows
  <2>5. f[0] = top
    <3>1. 0 \in 0..(n - 1) /\ n - 0 = n
      BY <1>2
    <3> QED BY <1>2, <2>1, <3>1 DEF Stack
  <2> QED BY <2>2, <2>4, <2>5
<1> QED BY <1>1, <1>2

-----------------------------------------------------------------------------
(* What is done to stacks                                                   *)

\* A stack whose blocks and ranks nobody touched.
LEMMA StackKept ==
  ASSUME NEW S, NEW r, NEW m, NEW top, NEW n \in Nat, Stack(S, r, m, top, n),
         NEW q, NEW w, \A b \in S : q[b] = r[b] /\ w[b] = m[b]
  PROVE  Stack(S, q, w, top, n) /\ (Ends(S, r, m, top, n) => Ends(S, q, w, top, n))
  BY DEF Stack, Ends

\* A block joins in front.
LEMMA StackPush ==
  ASSUME NEW S, NEW r, NEW m, NEW top, NEW n \in Nat, Stack(S, r, m, top, n), Ends(S, r, m, top, n),
         NEW b, b \notin S, NEW q, NEW w,
         q[b] = n + 1, w[b] = top, \A c \in S : q[c] = r[c] /\ w[c] = m[c]
  PROVE  Stack(S \cup {b}, q, w, b, n + 1) /\ Ends(S \cup {b}, q, w, b, n + 1)
<1>1. \A c \in S : q[c] \in 1..n
  BY DEF Stack
<1>2. Stack(S \cup {b}, q, w, b, n + 1)
  <2>1. \A c \in S \cup {b} : q[c] \in 1..(n + 1)
    BY <1>1
  <2>2. \A c, d \in S \cup {b} : q[c] = q[d] => c = d
    BY <1>1 DEF Stack
  <2>3. ASSUME NEW c \in S \cup {b}, q[c] > 1 PROVE w[c] \in S \cup {b} /\ q[w[c]] = q[c] - 1
    <3>1. CASE c = b
      <4>1. n > 0 /\ top \in S /\ r[top] = n
        BY <2>3, <3>1 DEF Stack
      <4> QED BY <3>1, <4>1
    <3>2. CASE c \in S
      BY <2>3, <3>2 DEF Stack
    <3> QED BY <3>1, <3>2
  <2> QED BY <2>1, <2>2, <2>3 DEF Stack
<1>3. Ends(S \cup {b}, q, w, b, n + 1)
  BY <1>1 DEF Ends
<1> QED BY <1>2, <1>3

\* The first block leaves.
LEMMA StackPop ==
  ASSUME NEW S, NEW r, NEW m, NEW top, NEW n \in Nat, Stack(S, r, m, top, n), Ends(S, r, m, top, n),
         n > 0, NEW w, \A c \in S \ {top} : w[c] = m[c]
  PROVE  /\ top \in S
         /\ Stack(S \ {top}, r, w, m[top], n - 1) /\ Ends(S \ {top}, r, w, m[top], n - 1)
<1>1. top \in S /\ r[top] = n
  BY DEF Stack
<1>2. \A c \in S \ {top} : r[c] \in 1..(n - 1)
  BY <1>1 DEF Stack
<1>3. \A c \in S \ {top} : r[c] > 1 => w[c] \in S \ {top} /\ r[w[c]] = r[c] - 1
  BY <1>1, <1>2 DEF Stack
<1>4. n - 1 > 0 => m[top] \in S \ {top} /\ r[m[top]] = n - 1
  BY <1>1 DEF Stack
<1>5. Stack(S \ {top}, r, w, m[top], n - 1)
  BY <1>2, <1>3, <1>4 DEF Stack
<1>6. Ends(S \ {top}, r, w, m[top], n - 1)
  <2>1. n - 1 = 0 => m[top] = Null
    BY <1>1 DEF Ends
  <2>2. \A c \in S \ {top} : r[c] = 1 => w[c] = Null
    BY DEF Ends
  <2> QED BY <2>1, <2>2 DEF Ends
<1> QED BY <1>1, <1>5, <1>6

\* The blocks of S with a rank above d, and their ranks in a stack of their own.
Above(S, r, d) == {b \in S : r[b] > d}
Lowered(S, r, q, d) == \A b \in S : q[b] = IF r[b] > d THEN r[b] - d ELSE r[b]

\* Where the first k of n blocks end, and d others follow.
CutPoint(m, top, n, k, d, last) == k \in 1..n /\ d = n - k /\ last = Walk(m, top, k - 1)

\* The first k blocks leave together: the last of them is where they part.
LEMMA StackCut ==
  ASSUME NEW S, NEW r, NEW m, NEW top, NEW n \in Nat, Stack(S, r, m, top, n), Ends(S, r, m, top, n),
         S \subseteq Blocks, NEW k, NEW d, NEW last, CutPoint(m, top, n, k, d, last),
         NEW q, Lowered(S, r, q, d)
  PROVE  /\ last \in Above(S, r, d) /\ q[last] = 1
         /\ Stack(Above(S, r, d), q, m, top, k)
         /\ Stack(S \ Above(S, r, d), q, m, m[last], d) /\ Ends(S \ Above(S, r, d), q, m, m[last], d)
<1> DEFINE front == Above(S, r, d)
<1> USE DEF Above, Lowered, CutPoint
<1>1. last \in S /\ r[last] = n - k + 1
  <2>1. k - 1 \in 0..(n - 1) /\ n - (k - 1) = n - k + 1
    OBVIOUS
  <2> QED BY <2>1, StackWalk
<1>2. \A b \in S : r[b] \in 1..n
  BY DEF Stack
<1>3. last \in front /\ q[last] = 1
  BY <1>1
<1>4. \A b \in front : b \in S /\ q[b] = r[b] - (n - k) /\ r[b] > n - k
  OBVIOUS
<1>5. \A b \in S \ front : b \in S /\ q[b] = r[b] /\ r[b] <= n - k
  BY <1>2
<1>6. \A b \in S : r[b] > 1 => m[b] \in S /\ r[m[b]] = r[b] - 1
  BY DEF Stack
<1>7. Stack(front, q, m, top, k)
  <2>1. \A b \in front : q[b] \in 1..k
    BY <1>2, <1>4
  <2>2. \A b, c \in front : q[b] = q[c] => b = c
    <3> SUFFICES ASSUME NEW b \in front, NEW c \in front, q[b] = q[c] PROVE b = c
      OBVIOUS
    <3>1. r[b] = r[c]
      BY <1>2, <1>4
    <3> QED BY <1>4, <3>1 DEF Stack
  <2>3. top \in front /\ q[top] = k
    <3>1. top \in S /\ r[top] = n
      BY DEF Stack
    <3> QED BY <3>1
  <2>4. ASSUME NEW b \in front, q[b] > 1 PROVE m[b] \in front /\ q[m[b]] = q[b] - 1
    <3>1. b \in S /\ r[b] > n - k + 1 /\ r[b] > 1
      BY <1>2, <1>4, <2>4
    <3>2. m[b] \in S /\ r[m[b]] = r[b] - 1
      BY <1>6, <3>1
    <3>3. m[b] \in front
      BY <1>2, <3>1, <3>2
    <3> QED BY <1>2, <1>4, <3>1, <3>2, <3>3
  <2> QED BY <2>1, <2>2, <2>3, <2>4 DEF Stack
<1>8. Stack(S \ front, q, m, m[last], d)
  <2>1. \A b \in S \ front : q[b] \in 1..(n - k)
    BY <1>2, <1>5
  <2>2. \A b, c \in S \ front : q[b] = q[c] => b = c
    BY <1>5 DEF Stack
  <2>3. n - k > 0 => m[last] \in S \ front /\ q[m[last]] = n - k
    BY <1>1, <1>5, <1>6
  <2>4. ASSUME NEW b \in S \ front, q[b] > 1 PROVE m[b] \in S \ front /\ q[m[b]] = q[b] - 1
    <3>1. b \in S /\ q[b] = r[b] /\ r[b] <= n - k /\ r[b] > 1
      BY <1>5, <2>4
    <3>2. m[b] \in S /\ r[m[b]] = r[b] - 1
      BY <1>6, <3>1
    <3>3. m[b] \in S \ front
      BY <1>2, <3>1, <3>2
    <3> QED BY <1>5, <3>1, <3>2, <3>3
  <2> QED BY <2>1, <2>2, <2>3, <2>4 DEF Stack
<1>9. Ends(S \ front, q, m, m[last], d)
  <2>1. n - k = 0 => m[last] = Null
    BY <1>1 DEF Ends
  <2>2. \A b \in S \ front : q[b] = 1 => m[b] = Null
    BY <1>5 DEF Ends
  <2> QED BY <2>1, <2>2 DEF Ends
<1> QED BY <1>3, <1>7, <1>8, <1>9

\* The ranks and the memory when T is put in front of the n blocks of S.
Joined(S, T, r, q, m, w, top, n, last) ==
  /\ last \in T /\ r[last] = 1 /\ S \cap T = {}
  /\ \A b \in S : q[b] = r[b]
  /\ \A b \in T : q[b] = r[b] + n
  /\ w[last] = top /\ \A b \in (S \cup T) \ {last} : w[b] = m[b]

\* A chain of j blocks joins in front, its last word set to the old top.
LEMMA StackJoin ==
  ASSUME NEW S, NEW T, NEW r, NEW m, NEW top, NEW n \in Nat, Stack(S, r, m, top, n), Ends(S, r, m, top, n),
         NEW first, NEW j \in Nat, j > 0, Stack(T, r, m, first, j),
         NEW q, NEW w, NEW last, Joined(S, T, r, q, m, w, top, n, last)
  PROVE  Stack(S \cup T, q, w, first, n + j) /\ Ends(S \cup T, q, w, first, n + j)
<1> USE DEF Joined
<1>1. \A b \in S : r[b] \in 1..n /\ q[b] = r[b] /\ w[b] = m[b]
  BY DEF Stack
<1>2. \A b \in T : r[b] \in 1..j /\ q[b] = r[b] + n
  BY DEF Stack
<1>3. \A b \in T : r[b] = 1 => b = last
  BY DEF Stack
<1>4. Stack(S \cup T, q, w, first, n + j)
  <2>1. \A b \in S \cup T : q[b] \in 1..(n + j)
    BY <1>1, <1>2
  <2>2. \A b, c \in S \cup T : q[b] = q[c] => b = c
    <3>1. \A b, c \in S : q[b] = q[c] => b = c
      BY <1>1 DEF Stack
    <3>2. ASSUME NEW b \in T, NEW c \in T, q[b] = q[c] PROVE b = c
      <4>1. r[b] = r[c]
        BY <1>2, <3>2
      <4> QED BY <4>1 DEF Stack
    <3>3. \A b \in S, c \in T : q[b] # q[c]
      BY <1>1, <1>2
    <3> QED BY <3>1, <3>2, <3>3
  <2>3. first \in T /\ r[first] = j
    BY DEF Stack
  <2>4. first \in S \cup T /\ q[first] = n + j
    BY <1>2, <2>3
  <2>5. ASSUME NEW b \in S \cup T, q[b] > 1 PROVE w[b] \in S \cup T /\ q[w[b]] = q[b] - 1
    <3>1. CASE b \in S
      <4>1. m[b] \in S /\ r[m[b]] = r[b] - 1
        BY <1>1, <2>5, <3>1 DEF Stack
      <4> QED BY <1>1, <3>1, <4>1
    <3>2. CASE b \in T /\ b # last
      <4>1. r[b] > 1
        BY <1>2, <1>3, <3>2
      <4>2. m[b] \in T /\ r[m[b]] = r[b] - 1
        BY <3>2, <4>1 DEF Stack
      <4> QED BY <1>2, <3>2, <4>1, <4>2
    <3>3. CASE b = last
      <4>1. n > 0 /\ top \in S /\ r[top] = n
        BY <1>2, <2>5, <3>3 DEF Stack
      <4> QED BY <1>1, <1>2, <3>3, <4>1
    <3> QED BY <3>1, <3>2, <3>3
  <2> QED BY <2>1, <2>2, <2>4, <2>5 DEF Stack
<1>5. Ends(S \cup T, q, w, first, n + j)
  <2>1. \A b \in S : q[b] = 1 => w[b] = Null
    BY <1>1 DEF Ends
  <2>2. ASSUME NEW b \in T, q[b] = 1 PROVE w[b] = Null
    <3>1. n = 0 /\ b = last
      BY <1>2, <1>3, <2>2
    <3> QED BY <3>1 DEF Ends
  <2> QED BY <2>1, <2>2 DEF Ends
<1> QED BY <1>4, <1>5

-----------------------------------------------------------------------------
(* The heap: who has each block, and with what rank                         *)

Kinds == {"used", "held", "list", "moving", "pool"}
Chains == [first : Words, last : Words, count : Nat]

\* The blocks of one kind, and of one thread: k and y say whose each block is.
Part(k, y, kind, th) == {b \in DOMAIN k : k[b] = kind /\ y[b] = th}

\* The blocks of the program (us), and those that realloc copies from (od).
Sorted(k, y, r, us, od, tk) ==
  /\ tk \in 0..MaxBlocks
  /\ k \in [1..tk -> Kinds] /\ y \in [1..tk -> Threads \cup {Null}] /\ r \in [1..tk -> Nat]
  /\ us = {b \in 1..tk : k[b] = "used"}
  /\ od \in [Threads -> Words]
  /\ \A th \in Threads : od[th] # Null => od[th] \in Part(k, y, "held", th)
  /\ \A b \in 1..tk : /\ k[b] = "held" => y[b] \in Threads /\ od[y[b]] = b
                      /\ k[b] \in {"list", "moving"} => y[b] \in Threads
                      /\ k[b] = "pool" => y[b] = Null

Shaped(m, hd, ct, mv, pl) ==
  /\ m \in [Blocks -> Words \cup {Data}]
  /\ hd \in [Threads -> Words] /\ ct \in [Threads -> Nat]
  /\ mv \in [Threads -> Chains] /\ pl \in [head : Words, count : Nat]

ListAt(P, r, m, h, n) == Stack(P, r, m, h, n) /\ Ends(P, r, m, h, n)
MoveAt(P, r, m, c) == /\ Stack(P, r, m, c.first, c.count)
                      /\ c.count > 0 => c.last \in P /\ r[c.last] = 1

Chained(k, y, r, m, hd, ct, mv, pl) ==
  /\ \A th \in Threads : ListAt(Part(k, y, "list", th), r, m, hd[th], ct[th])
  /\ \A th \in Threads : MoveAt(Part(k, y, "moving", th), r, m, mv[th])
  /\ ListAt(Part(k, y, "pool", Null), r, m, pl.head, pl.count)

Heap(k, y, r, m, hd, ct, mv, pl, us, od, tk) ==
  Sorted(k, y, r, us, od, tk) /\ Shaped(m, hd, ct, mv, pl) /\ Chained(k, y, r, m, hd, ct, mv, pl)

HeapAt(m, hd, ct, mv, pl, us, od, tk) ==
  \E k, y, r : Heap(k, y, r, m, hd, ct, mv, pl, us, od, tk)

\* What a thread's words say together: a guard exists since the first block
\* was freed, a thread looks for a slab with an empty list, a copy has its
\* block, blocks move only while a thread gives them, and after its guard a
\* thread that stays away from the allocator has no list.
Sound(th) ==
  /\ guarded[th] <=> guard[th] # "initial"
  /\ pc[th] = "slab" => head[th] = Null
  /\ pc[th] = "copied" => old[th] # Null
  /\ pc[th] = "giving" <=> moving[th].count > 0
  /\ guard[th] = "destroyed" /\ th \notin late => head[th] = Null /\ pc[th] # "slab"
  /\ life[th] = "over" => guard[th] # "alive" /\ pc[th] = "run"

ControlTypes ==
  /\ guarded \in [Threads -> BOOLEAN]
  /\ guard \in [Threads -> {"initial", "alive", "destroyed"}]
  /\ life \in [Threads -> {"unborn", "running", "ending", "over"}]
  /\ pc \in [Threads -> {"run", "slab", "copied", "giving"}]
  /\ late \subseteq Threads

Control == ControlTypes /\ \A th \in Threads : Sound(th)

HeapExact == HeapAt(next, head, count, moving, pool, used, old, taken)

\* The inductive invariant.
IInv == HeapExact /\ Control /\ ListBounded

\* A part that a step leaves alone.
LEMMA PartKept ==
  ASSUME NEW P, NEW r, NEW m, NEW q, NEW w, \A b \in P : q[b] = r[b] /\ w[b] = m[b]
  PROVE  /\ \A h : \A n \in Nat : ListAt(P, r, m, h, n) => ListAt(P, q, w, h, n)
         /\ \A c \in Chains : MoveAt(P, r, m, c) => MoveAt(P, q, w, c)
<1>1. ASSUME NEW h, NEW n \in Nat, ListAt(P, r, m, h, n) PROVE ListAt(P, q, w, h, n)
  BY <1>1, StackKept DEF ListAt
<1>2. ASSUME NEW c \in Chains, MoveAt(P, r, m, c) PROVE MoveAt(P, q, w, c)
  <2>1. c.count \in Nat
    BY DEF Chains
  <2> QED BY <1>2, <2>1, StackKept DEF MoveAt
<1> QED BY <1>1, <1>2

\* The parts are made of blocks.
LEMMA PartBlocks ==
  ASSUME NEW k, NEW y, NEW r, NEW us, NEW od, NEW tk, Sorted(k, y, r, us, od, tk)
  PROVE  /\ 1..tk \subseteq Blocks /\ tk \in Nat
         /\ \A kind, th : Part(k, y, kind, th) \subseteq 1..tk
         /\ \A kind, th : \A b \in Part(k, y, kind, th) : k[b] = kind /\ y[b] = th
         /\ Null \notin 1..tk
  BY SizesAssumption DEF Sorted, Blocks, Part

\* A list that has a first block has as many as its counter says.
LEMMA ListTop ==
  ASSUME NEW P, NEW r, NEW m, NEW h, NEW n \in Nat, ListAt(P, r, m, h, n), Null \notin P
  PROVE  /\ h # Null <=> n > 0
         /\ h # Null => h \in P
         /\ h = Null => P = {}
  BY DEF ListAt, Stack, Ends

\* The same for the part of a heap that kind and t name.
LEMMA OtherKept ==
  ASSUME NEW k, NEW y, NEW r, NEW m, NEW hd, NEW ct, NEW mv, NEW pl,
         Shaped(m, hd, ct, mv, pl), Chained(k, y, r, m, hd, ct, mv, pl),
         NEW k2, NEW y2, NEW q, NEW w, NEW kind, NEW t,
         Part(k2, y2, kind, t) = Part(k, y, kind, t),
         \A b \in Part(k, y, kind, t) : q[b] = r[b] /\ w[b] = m[b]
  PROVE  /\ kind = "list" /\ t \in Threads => ListAt(Part(k2, y2, "list", t), q, w, hd[t], ct[t])
         /\ kind = "moving" /\ t \in Threads => MoveAt(Part(k2, y2, "moving", t), q, w, mv[t])
         /\ kind = "pool" /\ t = Null => ListAt(Part(k2, y2, "pool", Null), q, w, pl.head, pl.count)
<1>1. \A th \in Threads : ct[th] \in Nat /\ mv[th] \in Chains
  BY DEF Shaped
<1>2. pl.count \in Nat
  BY DEF Shaped
<1> QED BY <1>1, <1>2, PartKept DEF Chained

\* The program takes the first block of a list.
LEMMA PopHeap ==
  ASSUME NEW m, NEW hd, NEW ct, NEW mv, NEW pl, NEW us, NEW od, NEW tk,
         HeapAt(m, hd, ct, mv, pl, us, od, tk),
         NEW th \in Threads, hd[th] # Null
  PROVE  /\ ct[th] > 0
         /\ HeapAt([m EXCEPT ![hd[th]] = Data], [hd EXCEPT ![th] = m[hd[th]]],
                   [ct EXCEPT ![th] = ct[th] - 1], mv, pl, us \cup {hd[th]}, od, tk)
<1>1. PICK k, y, r : Heap(k, y, r, m, hd, ct, mv, pl, us, od, tk)
  BY DEF HeapAt
<1> DEFINE h == hd[th]
           k2 == [k EXCEPT ![h] = "used"]
           w == [m EXCEPT ![h] = Data]
           hd2 == [hd EXCEPT ![th] = m[h]]
           ct2 == [ct EXCEPT ![th] = ct[th] - 1]
           P == Part(k, y, "list", th)
<1>2. Sorted(k, y, r, us, od, tk) /\ Shaped(m, hd, ct, mv, pl) /\ Chained(k, y, r, m, hd, ct, mv, pl)
  BY <1>1 DEF Heap
<1>3. /\ 1..tk \subseteq Blocks /\ Null \notin 1..tk
      /\ \A kind, t : Part(k, y, kind, t) \subseteq 1..tk
      /\ \A kind, t : \A b \in Part(k, y, kind, t) : k[b] = kind /\ y[b] = t
  BY <1>2, PartBlocks
<1>4. ListAt(P, r, m, h, ct[th]) /\ ct[th] \in Nat
  BY <1>2 DEF Chained, Shaped
<1>5. ct[th] > 0 /\ h \in P /\ h \in 1..tk /\ k[h] = "list" /\ y[h] = th
  BY <1>3, <1>4, ListTop
<1>6. ListAt(P \ {h}, r, w, m[h], ct[th] - 1)
  <2>1. \A c \in P \ {h} : w[c] = m[c]
    BY <1>2, <1>3 DEF Shaped
  <2> QED BY <1>4, <1>5, <2>1, StackPop DEF ListAt
<1>7. Part(k2, y, "list", th) = P \ {h}
  BY <1>2, <1>5 DEF Part, Sorted
<1>8. \A kind \in {"held", "list", "moving", "pool"}, t \in Threads \cup {Null} :
         ~(kind = "list" /\ t = th) => Part(k2, y, kind, t) = Part(k, y, kind, t) /\ h \notin Part(k, y, kind, t)
  BY <1>2, <1>3, <1>5 DEF Part, Sorted
<1>9. \A kind, t : h \notin Part(k, y, kind, t) => \A b \in Part(k, y, kind, t) : r[b] = r[b] /\ w[b] = m[b]
  BY <1>2, <1>3 DEF Shaped
<1>10. Sorted(k2, y, r, us \cup {h}, od, tk)
  <2>1. k2 \in [1..tk -> Kinds]
    BY <1>2, <1>5 DEF Sorted, Kinds
  <2>2. us \cup {h} = {b \in 1..tk : k2[b] = "used"}
    BY <1>2, <1>5 DEF Sorted
  <2>3. \A t \in Threads : od[t] # Null => od[t] \in Part(k2, y, "held", t)
    BY <1>2, <1>8 DEF Sorted
  <2>4. \A b \in 1..tk : /\ k2[b] = "held" => y[b] \in Threads /\ od[y[b]] = b
                         /\ k2[b] \in {"list", "moving"} => y[b] \in Threads
                         /\ k2[b] = "pool" => y[b] = Null
    BY <1>2, <1>5 DEF Sorted
  <2> QED BY <1>2, <2>1, <2>2, <2>3, <2>4 DEF Sorted
<1>11. Shaped(w, hd2, ct2, mv, pl)
  <2>1. m[h] \in Words
    <3>1. ct[th] - 1 = 0 \/ m[h] \in P
      BY <1>4, <1>5 DEF ListAt, Stack
    <3>2. ct[th] - 1 = 0 => m[h] = Null
      BY <1>6 DEF ListAt, Ends
    <3> QED BY <1>3, <3>1, <3>2 DEF Words
  <2>2. ct[th] - 1 \in Nat
    BY <1>4, <1>5
  <2> QED BY <1>2, <2>1, <2>2 DEF Shaped
<1>12. Chained(k2, y, r, w, hd2, ct2, mv, pl)
  <2>1. ASSUME NEW t \in Threads PROVE ListAt(Part(k2, y, "list", t), r, w, hd2[t], ct2[t])
    <3>1. CASE t = th
      BY <1>2, <1>6, <1>7, <3>1 DEF Shaped
    <3>2. CASE t # th
      <4>1. hd2[t] = hd[t] /\ ct2[t] = ct[t]
        BY <1>2, <3>2 DEF Shaped
      <4>2. Part(k2, y, "list", t) = Part(k, y, "list", t) /\ h \notin Part(k, y, "list", t)
        BY <1>8, <3>2
      <4> HIDE DEF w, hd2, ct2, k2
      <4> QED BY <1>2, <1>9, <4>1, <4>2, OtherKept
    <3> QED BY <3>1, <3>2
  <2>2. ASSUME NEW t \in Threads PROVE MoveAt(Part(k2, y, "moving", t), r, w, mv[t])
    <3>1. Part(k2, y, "moving", t) = Part(k, y, "moving", t) /\ h \notin Part(k, y, "moving", t)
      BY <1>8
    <3> HIDE DEF w, k2
    <3> QED BY <1>2, <1>9, <3>1, OtherKept
  <2>3. ListAt(Part(k2, y, "pool", Null), r, w, pl.head, pl.count)
    <3>1. Part(k2, y, "pool", Null) = Part(k, y, "pool", Null) /\ h \notin Part(k, y, "pool", Null)
      BY <1>8
    <3> HIDE DEF w, k2
    <3> QED BY <1>2, <1>9, <3>1, OtherKept
  <2> QED BY <2>1, <2>2, <2>3 DEF Chained
<1> QED BY <1>5, <1>10, <1>11, <1>12 DEF Heap, HeapAt

\* The blocks that realloc copies from are not the program's, and not shared.
LEMMA HeldApart ==
  ASSUME NEW m, NEW hd, NEW ct, NEW mv, NEW pl, NEW us, NEW od, NEW tk,
         HeapAt(m, hd, ct, mv, pl, us, od, tk)
  PROVE  /\ \A t \in Threads : od[t] # Null => od[t] \notin us
         /\ \A t, u \in Threads : od[t] = od[u] /\ od[t] # Null => t = u
         /\ Null \notin us
<1>1. PICK k, y, r : Heap(k, y, r, m, hd, ct, mv, pl, us, od, tk)
  BY DEF HeapAt
<1>2. Sorted(k, y, r, us, od, tk)
  BY <1>1 DEF Heap
<1>3. Null \notin 1..tk /\ \A kind, t : \A c \in Part(k, y, kind, t) : k[c] = kind /\ y[c] = t
  BY <1>2, PartBlocks
<1>4. \A t \in Threads : od[t] # Null => k[od[t]] = "held" /\ y[od[t]] = t
  BY <1>2, <1>3 DEF Sorted
<1>5. us = {b \in 1..tk : k[b] = "used"}
  BY <1>2 DEF Sorted
<1> QED BY <1>3, <1>4, <1>5

\* The block is the program's, or one that realloc copies from.
Out(b, us, od) == b \in us \/ \E t \in Threads : od[t] # Null /\ b = od[t]

\* A block of the program, or one that realloc copied from, joins a list.
LEMMA PushHeap ==
  ASSUME NEW m, NEW hd, NEW ct, NEW mv, NEW pl, NEW us, NEW od, NEW tk,
         HeapAt(m, hd, ct, mv, pl, us, od, tk),
         NEW th \in Threads, NEW b, Out(b, us, od)
  PROVE  HeapAt([m EXCEPT ![b] = hd[th]], [hd EXCEPT ![th] = b], [ct EXCEPT ![th] = ct[th] + 1],
                mv, pl, us \ {b}, [t \in Threads |-> IF od[t] = b THEN Null ELSE od[t]], tk)
<1>1. PICK k, y, r : Heap(k, y, r, m, hd, ct, mv, pl, us, od, tk)
  BY DEF HeapAt
<1> DEFINE k2 == [k EXCEPT ![b] = "list"]
           y2 == [y EXCEPT ![b] = th]
           q == [r EXCEPT ![b] = ct[th] + 1]
           w == [m EXCEPT ![b] = hd[th]]
           hd2 == [hd EXCEPT ![th] = b]
           ct2 == [ct EXCEPT ![th] = ct[th] + 1]
           od2 == [t \in Threads |-> IF od[t] = b THEN Null ELSE od[t]]
           P == Part(k, y, "list", th)
<1>2. Sorted(k, y, r, us, od, tk) /\ Shaped(m, hd, ct, mv, pl) /\ Chained(k, y, r, m, hd, ct, mv, pl)
  BY <1>1 DEF Heap
<1>3. /\ 1..tk \subseteq Blocks /\ Null \notin 1..tk
      /\ \A kind, t : Part(k, y, kind, t) \subseteq 1..tk
      /\ \A kind, t : \A c \in Part(k, y, kind, t) : k[c] = kind /\ y[c] = t
  BY <1>2, PartBlocks
<1>4. ListAt(P, r, m, hd[th], ct[th]) /\ ct[th] \in Nat
  BY <1>2 DEF Chained, Shaped
<1>5. b \in 1..tk /\ k[b] \in {"used", "held"} /\ (b \in us <=> k[b] = "used")
  BY <1>2, <1>3 DEF Sorted, Out
<1>7. b \notin P
  BY <1>3, <1>5
<1>8. ListAt(P \cup {b}, q, w, b, ct[th] + 1)
  <2>1. q[b] = ct[th] + 1 /\ w[b] = hd[th] /\ \A c \in P : q[c] = r[c] /\ w[c] = m[c]
    BY <1>2, <1>3, <1>5, <1>7 DEF Shaped, Sorted
  <2>2. Stack(P, r, m, hd[th], ct[th]) /\ Ends(P, r, m, hd[th], ct[th])
    BY <1>4 DEF ListAt
  <2> HIDE DEF q, w, P
  <2>3. Stack(P \cup {b}, q, w, b, ct[th] + 1) /\ Ends(P \cup {b}, q, w, b, ct[th] + 1)
    BY <1>4, <1>7, <2>1, <2>2, StackPush
  <2> QED BY <2>3 DEF ListAt
<1>9. Part(k2, y2, "list", th) = P \cup {b}
  BY <1>2, <1>5 DEF Part, Sorted
<1>10. \A kind \in {"list", "moving", "pool"}, t \in Threads \cup {Null} :
         ~(kind = "list" /\ t = th) => Part(k2, y2, kind, t) = Part(k, y, kind, t)
  BY <1>2, <1>3, <1>5 DEF Part, Sorted
<1>11. \A kind \in {"list", "moving", "pool"} : \A t : \A c \in Part(k, y, kind, t) : q[c] = r[c] /\ w[c] = m[c]
  BY <1>2, <1>3, <1>5 DEF Shaped, Sorted
<1>12. Sorted(k2, y2, q, us \ {b}, od2, tk)
  <2>1. k2 \in [1..tk -> Kinds] /\ y2 \in [1..tk -> Threads \cup {Null}] /\ q \in [1..tk -> Nat]
    BY <1>2, <1>4, <1>5 DEF Sorted, Kinds
  <2>2. us \ {b} = {c \in 1..tk : k2[c] = "used"}
    BY <1>2, <1>5 DEF Sorted
  <2>3. od2 \in [Threads -> Words]
    BY <1>2 DEF Sorted, Words
  <2>4. ASSUME NEW t \in Threads, od2[t] # Null PROVE od2[t] \in Part(k2, y2, "held", t)
    <3>1. od2[t] = od[t] /\ od[t] # b
      BY <2>4
    <3>2. od[t] \in Part(k, y, "held", t)
      BY <1>2, <2>4, <3>1 DEF Sorted
    <3> QED BY <1>2, <3>1, <3>2 DEF Part, Sorted
  <2>5. ASSUME NEW c \in 1..tk
        PROVE  /\ k2[c] = "held" => y2[c] \in Threads /\ od2[y2[c]] = c
               /\ k2[c] \in {"list", "moving"} => y2[c] \in Threads
               /\ k2[c] = "pool" => y2[c] = Null
    <3>1. CASE c = b
      BY <1>2, <1>5, <3>1 DEF Sorted
    <3>2. CASE c # b
      <4>1. k2[c] = k[c] /\ y2[c] = y[c]
        BY <1>2, <3>2 DEF Sorted
      <4> QED BY <1>2, <3>2, <4>1 DEF Sorted
    <3> QED BY <3>1, <3>2
  <2> HIDE DEF k2, y2, q, od2
  <2> QED BY <1>2, <2>1, <2>2, <2>3, <2>4, <2>5 DEF Sorted
<1>13. Shaped(w, hd2, ct2, mv, pl)
  BY <1>2, <1>3, <1>4, <1>5 DEF Shaped, Words
<1>14. Chained(k2, y2, q, w, hd2, ct2, mv, pl)
  <2>1. ASSUME NEW t \in Threads PROVE ListAt(Part(k2, y2, "list", t), q, w, hd2[t], ct2[t])
    <3>1. CASE t = th
      BY <1>2, <1>8, <1>9, <3>1 DEF Shaped
    <3>2. CASE t # th
      <4>1. hd2[t] = hd[t] /\ ct2[t] = ct[t]
        BY <1>2, <3>2 DEF Shaped
      <4>2. Part(k2, y2, "list", t) = Part(k, y, "list", t)
        BY <1>10, <3>2
      <4> HIDE DEF w, hd2, ct2, k2, y2, q
      <4> QED BY <1>2, <1>11, <4>1, <4>2, OtherKept
    <3> QED BY <3>1, <3>2
  <2>2. ASSUME NEW t \in Threads PROVE MoveAt(Part(k2, y2, "moving", t), q, w, mv[t])
    <3>1. Part(k2, y2, "moving", t) = Part(k, y, "moving", t)
      BY <1>10
    <3> HIDE DEF w, k2, y2, q
    <3> QED BY <1>2, <1>11, <3>1, OtherKept
  <2>3. ListAt(Part(k2, y2, "pool", Null), q, w, pl.head, pl.count)
    <3>1. Part(k2, y2, "pool", Null) = Part(k, y, "pool", Null)
      BY <1>10
    <3> HIDE DEF w, k2, y2, q
    <3> QED BY <1>2, <1>11, <3>1, OtherKept
  <2> QED BY <2>1, <2>2, <2>3 DEF Chained
<1> HIDE DEF k2, y2, q, w, hd2, ct2, od2
<1>15. HeapAt(w, hd2, ct2, mv, pl, us \ {b}, od2, tk)
  BY <1>12, <1>13, <1>14 DEF Heap, HeapAt
<1> QED BY <1>15 DEF w, hd2, ct2, od2

\* A thread cuts the first n blocks off its list: they are in no list.
LEMMA CutHeap ==
  ASSUME NEW m, NEW hd, NEW ct, NEW mv, NEW pl, NEW us, NEW od, NEW tk,
         HeapAt(m, hd, ct, mv, pl, us, od, tk),
         NEW th \in Threads, mv[th].count = 0,
         NEW n, NEW rest, NEW last, CutPoint(m, hd[th], ct[th], n, rest, last)
  PROVE  /\ n = ct[th] => m[last] = Null
         /\ HeapAt(m, [hd EXCEPT ![th] = m[last]], [ct EXCEPT ![th] = rest],
                   [mv EXCEPT ![th] = [first |-> hd[th], last |-> last, count |-> n]], pl, us, od, tk)
<1>1. PICK k, y, r : Heap(k, y, r, m, hd, ct, mv, pl, us, od, tk)
  BY DEF HeapAt
<1> DEFINE P == Part(k, y, "list", th)
           Front == {b \in P : r[b] > rest}
           k2 == [b \in 1..tk |-> IF b \in Front THEN "moving" ELSE k[b]]
           q == [b \in 1..tk |-> IF b \in Front THEN r[b] - rest ELSE r[b]]
           hd2 == [hd EXCEPT ![th] = m[last]]
           ct2 == [ct EXCEPT ![th] = rest]
           mv2 == [mv EXCEPT ![th] = [first |-> hd[th], last |-> last, count |-> n]]
<1>2. Sorted(k, y, r, us, od, tk) /\ Shaped(m, hd, ct, mv, pl) /\ Chained(k, y, r, m, hd, ct, mv, pl)
  BY <1>1 DEF Heap
<1>3. /\ 1..tk \subseteq Blocks /\ Null \notin 1..tk /\ tk \in Nat
      /\ \A kind, t : Part(k, y, kind, t) \subseteq 1..tk
      /\ \A kind, t : \A b \in Part(k, y, kind, t) : k[b] = kind /\ y[b] = t
  BY <1>2, PartBlocks
<1>4. /\ ListAt(P, r, m, hd[th], ct[th]) /\ ct[th] \in Nat /\ rest \in Nat /\ n \in Nat /\ n > 0
      /\ rest = ct[th] - n
  BY <1>2 DEF Chained, Shaped, CutPoint
<1>5. \A b \in P : q[b] = IF r[b] > rest THEN r[b] - rest ELSE r[b]
  BY <1>3
<1>6. /\ last \in Front /\ q[last] = 1
      /\ Stack(Front, q, m, hd[th], n)
      /\ ListAt(P \ Front, q, m, m[last], rest)
  <2>1. P \subseteq Blocks
    BY <1>3
  <2>2. Stack(P, r, m, hd[th], ct[th]) /\ Ends(P, r, m, hd[th], ct[th])
    BY <1>4 DEF ListAt
  <2> HIDE DEF q, P
  <2>3. Lowered(P, r, q, rest) /\ Front = Above(P, r, rest)
    BY <1>5 DEF Lowered, Above
  <2> HIDE DEF Front
  <2>4. /\ last \in Above(P, r, rest) /\ q[last] = 1
        /\ Stack(Above(P, r, rest), q, m, hd[th], n)
        /\ Stack(P \ Above(P, r, rest), q, m, m[last], rest) /\ Ends(P \ Above(P, r, rest), q, m, m[last], rest)
    <3>1. ct[th] \in Nat
      BY <1>4
    <3>2. Stack(P, r, m, hd[th], ct[th])
      BY <2>2
    <3>3. Ends(P, r, m, hd[th], ct[th])
      BY <2>2
    <3>4. Lowered(P, r, q, rest)
      BY <2>3
    <3> QED BY <2>1, <3>1, <3>2, <3>3, <3>4, StackCut, ZenonT(30)
  <2> QED BY <2>3, <2>4 DEF ListAt
<1>7. \A b \in Front : b \in P /\ b \in 1..tk /\ k[b] = "list" /\ y[b] = th
  BY <1>3
<1>8. \A b \in P \ Front : r[b] <= rest
  <2>1. \A b \in P : r[b] \in Nat
    BY <1>2, <1>3 DEF Sorted
  <2> QED BY <1>4, <2>1
<1> HIDE DEF Front
<1>9. Part(k, y, "moving", th) = {}
  BY <1>2 DEF Chained, MoveAt, Stack
<1>10. DOMAIN k2 = 1..tk /\ DOMAIN k = 1..tk
  BY <1>2 DEF Sorted
<1>11. Part(k2, y, "list", th) = P \ Front
  BY <1>7, <1>10 DEF Part
<1>12. Part(k2, y, "moving", th) = Front
  BY <1>7, <1>9, <1>10 DEF Part
<1>13. \A kind \in {"held", "list", "moving", "pool"}, t \in Threads \cup {Null} :
         ~(kind \in {"list", "moving"} /\ t = th) => Part(k2, y, kind, t) = Part(k, y, kind, t) /\ Part(k, y, kind, t) \cap Front = {}
  BY <1>7, <1>10 DEF Part
<1>14. \A kind, t : Part(k, y, kind, t) \cap Front = {} => \A b \in Part(k, y, kind, t) : q[b] = r[b] /\ m[b] = m[b]
  BY <1>3
<1>15. Sorted(k2, y, q, us, od, tk)
  <2>1. k2 \in [1..tk -> Kinds]
    BY <1>2 DEF Sorted, Kinds
  <2>2. q \in [1..tk -> Nat]
    <3>1. \A b \in 1..tk : r[b] \in Nat
      BY <1>2 DEF Sorted
    <3>2. \A b \in Front : r[b] - rest \in Nat
      BY <1>4, <1>7, <3>1 DEF Front
    <3> QED BY <3>1, <3>2
  <2>3. us = {b \in 1..tk : k2[b] = "used"}
    BY <1>2, <1>7 DEF Sorted
  <2>4. \A t \in Threads : od[t] # Null => od[t] \in Part(k2, y, "held", t)
    BY <1>2, <1>13 DEF Sorted
  <2>5. \A b \in 1..tk : /\ k2[b] = "held" => y[b] \in Threads /\ od[y[b]] = b
                         /\ k2[b] \in {"list", "moving"} => y[b] \in Threads
                         /\ k2[b] = "pool" => y[b] = Null
    BY <1>2, <1>7 DEF Sorted
  <2> HIDE DEF k2, q
  <2> QED BY <1>2, <2>1, <2>2, <2>3, <2>4, <2>5 DEF Sorted
<1>16. Shaped(m, hd2, ct2, mv2, pl)
  <2>1. last \in Words /\ hd[th] \in Words
    BY <1>2, <1>3, <1>6, <1>7 DEF Shaped, Words
  <2>2. m[last] \in Words
    <3>1. rest = 0 \/ m[last] \in P
      BY <1>4, <1>6 DEF ListAt, Stack
    <3>2. rest = 0 => m[last] = Null
      BY <1>6 DEF ListAt, Ends
    <3> QED BY <1>3, <3>1, <3>2 DEF Words
  <2> QED BY <1>2, <1>4, <2>1, <2>2 DEF Shaped, Chains
<1>17. Chained(k2, y, q, m, hd2, ct2, mv2, pl)
  <2>1. ASSUME NEW t \in Threads PROVE ListAt(Part(k2, y, "list", t), q, m, hd2[t], ct2[t])
    <3>1. CASE t = th
      BY <1>2, <1>6, <1>11, <3>1 DEF Shaped
    <3>2. CASE t # th
      <4>1. hd2[t] = hd[t] /\ ct2[t] = ct[t]
        BY <1>2, <3>2 DEF Shaped
      <4>2. Part(k2, y, "list", t) = Part(k, y, "list", t) /\ Part(k, y, "list", t) \cap Front = {}
        BY <1>13, <3>2
      <4> HIDE DEF hd2, ct2, k2, q
      <4> QED BY <1>2, <1>14, <4>1, <4>2, OtherKept
    <3> QED BY <3>1, <3>2
  <2>2. ASSUME NEW t \in Threads PROVE MoveAt(Part(k2, y, "moving", t), q, m, mv2[t])
    <3>1. CASE t = th
      <4>1. mv2[t] = [first |-> hd[th], last |-> last, count |-> n]
        BY <1>2, <3>1 DEF Shaped
      <4> HIDE DEF mv2
      <4> QED BY <1>6, <1>12, <3>1, <4>1 DEF MoveAt
    <3>2. CASE t # th
      <4>1. mv2[t] = mv[t]
        BY <1>2, <3>2 DEF Shaped
      <4>2. Part(k2, y, "moving", t) = Part(k, y, "moving", t) /\ Part(k, y, "moving", t) \cap Front = {}
        BY <1>13, <3>2
      <4> HIDE DEF mv2, k2, q
      <4> QED BY <1>2, <1>14, <4>1, <4>2, OtherKept
    <3> QED BY <3>1, <3>2
  <2>3. ListAt(Part(k2, y, "pool", Null), q, m, pl.head, pl.count)
    <3>1. Part(k2, y, "pool", Null) = Part(k, y, "pool", Null) /\ Part(k, y, "pool", Null) \cap Front = {}
      BY <1>13
    <3> HIDE DEF k2, q
    <3> QED BY <1>2, <1>14, <3>1, OtherKept
  <2> QED BY <2>1, <2>2, <2>3 DEF Chained
<1>18. n = ct[th] => m[last] = Null
  BY <1>4, <1>6 DEF ListAt, Ends
<1> HIDE DEF k2, q, hd2, ct2, mv2
<1>19. HeapAt(m, hd2, ct2, mv2, pl, us, od, tk)
  BY <1>15, <1>16, <1>17 DEF Heap, HeapAt
<1> QED BY <1>18, <1>19 DEF hd2, ct2, mv2

\* A thread gives its blocks to the pool, in front.
LEMMA GiveHeap ==
  ASSUME NEW m, NEW hd, NEW ct, NEW mv, NEW pl, NEW us, NEW od, NEW tk,
         HeapAt(m, hd, ct, mv, pl, us, od, tk), NEW th \in Threads, mv[th].count > 0
  PROVE  HeapAt([m EXCEPT ![mv[th].last] = pl.head], hd, ct, [mv EXCEPT ![th] = NoChain],
                [head |-> mv[th].first, count |-> pl.count + mv[th].count], us, od, tk)
<1>1. PICK k, y, r : Heap(k, y, r, m, hd, ct, mv, pl, us, od, tk)
  BY DEF HeapAt
<1> DEFINE S == Part(k, y, "pool", Null)
           T == Part(k, y, "moving", th)
           first == mv[th].first
           last == mv[th].last
           j == mv[th].count
           k2 == [b \in 1..tk |-> IF b \in T THEN "pool" ELSE k[b]]
           y2 == [b \in 1..tk |-> IF b \in T THEN Null ELSE y[b]]
           q == [b \in 1..tk |-> IF b \in T THEN r[b] + pl.count ELSE r[b]]
           w == [m EXCEPT ![last] = pl.head]
           mv2 == [mv EXCEPT ![th] = NoChain]
           pl2 == [head |-> first, count |-> pl.count + j]
<1>2. Sorted(k, y, r, us, od, tk) /\ Shaped(m, hd, ct, mv, pl) /\ Chained(k, y, r, m, hd, ct, mv, pl)
  BY <1>1 DEF Heap
<1>3. /\ 1..tk \subseteq Blocks /\ Null \notin 1..tk /\ tk \in Nat
      /\ \A kind, t : Part(k, y, kind, t) \subseteq 1..tk
      /\ \A kind, t : \A b \in Part(k, y, kind, t) : k[b] = kind /\ y[b] = t
  BY <1>2, PartBlocks
<1>4. /\ Stack(S, r, m, pl.head, pl.count) /\ Ends(S, r, m, pl.head, pl.count)
      /\ pl.count \in Nat /\ pl.head \in Words
  BY <1>2 DEF Chained, Shaped, ListAt
<1>5. /\ Stack(T, r, m, first, j) /\ j \in Nat /\ j > 0 /\ first \in Words
      /\ last \in T /\ r[last] = 1
  BY <1>2 DEF Chained, Shaped, MoveAt, Chains
<1>6. T \subseteq 1..tk /\ S \subseteq 1..tk /\ S \cap T = {} /\ \A b \in T : k[b] = "moving" /\ y[b] = th
  BY <1>3
<1>7. ListAt(S \cup T, q, w, first, pl.count + j)
  <2>1. \A b \in S : q[b] = r[b]
    BY <1>6
  <2>2. \A b \in T : q[b] = r[b] + pl.count
    BY <1>6
  <2>3. w[last] = pl.head /\ \A b \in (S \cup T) \ {last} : w[b] = m[b]
    BY <1>2, <1>3, <1>5, <1>6 DEF Shaped
  <2>4. Joined(S, T, r, q, m, w, pl.head, pl.count, last)
    BY <1>5, <1>6, <2>1, <2>2, <2>3 DEF Joined
  <2> HIDE DEF S, T, first, last, j, q, w
  <2>5. Stack(S \cup T, q, w, first, pl.count + j) /\ Ends(S \cup T, q, w, first, pl.count + j)
    <3>1. pl.count \in Nat
      BY <1>4
    <3>2. Stack(S, r, m, pl.head, pl.count)
      BY <1>4
    <3>3. Ends(S, r, m, pl.head, pl.count)
      BY <1>4
    <3>4. j \in Nat
      BY <1>5
    <3>5. j > 0
      BY <1>5
    <3>6. Stack(T, r, m, first, j)
      BY <1>5
    <3> QED BY <2>4, <3>1, <3>2, <3>3, <3>4, <3>5, <3>6, StackJoin, ZenonT(30)
  <2> QED BY <2>5 DEF ListAt
<1>8. DOMAIN k2 = 1..tk /\ DOMAIN k = 1..tk
  BY <1>2 DEF Sorted
<1>10. Part(k2, y2, "pool", Null) = S \cup T
  BY <1>6, <1>8 DEF Part
<1>11. Part(k2, y2, "moving", th) = {}
  BY <1>6, <1>8 DEF Part
<1>12. \A kind \in {"held", "list", "moving"}, t \in Threads :
         ~(kind = "moving" /\ t = th) => Part(k2, y2, kind, t) = Part(k, y, kind, t) /\ Part(k, y, kind, t) \cap T = {}
  BY <1>6, <1>8 DEF Part
<1>13. \A kind, t : Part(k, y, kind, t) \cap T = {} => \A b \in Part(k, y, kind, t) : q[b] = r[b] /\ w[b] = m[b]
  <2>1. \A b \in 1..tk : b # last => w[b] = m[b]
    BY <1>2, <1>3 DEF Shaped
  <2> QED BY <1>3, <1>5, <2>1
<1>14. Sorted(k2, y2, q, us, od, tk)
  <2>1. k2 \in [1..tk -> Kinds] /\ y2 \in [1..tk -> Threads \cup {Null}] /\ q \in [1..tk -> Nat]
    <3>1. \A b \in 1..tk : k[b] \in Kinds /\ y[b] \in Threads \cup {Null} /\ r[b] \in Nat
      BY <1>2 DEF Sorted
    <3>2. \A b \in 1..tk : r[b] + pl.count \in Nat
      BY <1>4, <3>1
    <3> QED BY <3>1, <3>2 DEF Kinds
  <2>2. us = {b \in 1..tk : k2[b] = "used"}
    BY <1>2, <1>6 DEF Sorted
  <2>3. \A t \in Threads : od[t] # Null => od[t] \in Part(k2, y2, "held", t)
    BY <1>2, <1>12 DEF Sorted
  <2>4. \A b \in 1..tk : /\ k2[b] = "held" => y2[b] \in Threads /\ od[y2[b]] = b
                         /\ k2[b] \in {"list", "moving"} => y2[b] \in Threads
                         /\ k2[b] = "pool" => y2[b] = Null
    BY <1>2, <1>6 DEF Sorted
  <2> HIDE DEF k2, y2, q
  <2> QED BY <1>2, <2>1, <2>2, <2>3, <2>4 DEF Sorted
<1>15. Shaped(w, hd, ct, mv2, pl2)
  <2>1. NoChain \in Chains
    BY DEF NoChain, Chains, Words
  <2>2. pl2 \in [head : Words, count : Nat]
    BY <1>4, <1>5
  <2>3. w \in [Blocks -> Words \cup {Data}] /\ mv2 \in [Threads -> Chains]
    BY <1>2, <1>4, <2>1 DEF Shaped
  <2> HIDE DEF pl2, w, mv2
  <2> QED BY <1>2, <2>2, <2>3 DEF Shaped
<1>16. Chained(k2, y2, q, w, hd, ct, mv2, pl2)
  <2>1. ASSUME NEW t \in Threads PROVE ListAt(Part(k2, y2, "list", t), q, w, hd[t], ct[t])
    <3>1. Part(k2, y2, "list", t) = Part(k, y, "list", t) /\ Part(k, y, "list", t) \cap T = {}
      BY <1>12
    <3> HIDE DEF k2, y2, q, w, T
    <3> QED BY <1>2, <1>13, <3>1, OtherKept
  <2>2. ASSUME NEW t \in Threads PROVE MoveAt(Part(k2, y2, "moving", t), q, w, mv2[t])
    <3>1. CASE t = th
      <4>1. mv2[t] = NoChain
        BY <1>2, <3>1 DEF Shaped
      <4> HIDE DEF mv2
      <4> QED BY <1>11, <3>1, <4>1 DEF MoveAt, NoChain, Stack
    <3>2. CASE t # th
      <4>1. mv2[t] = mv[t]
        BY <1>2, <3>2 DEF Shaped
      <4>2. Part(k2, y2, "moving", t) = Part(k, y, "moving", t) /\ Part(k, y, "moving", t) \cap T = {}
        BY <1>12, <3>2
      <4> HIDE DEF mv2, k2, y2, q, w, T
      <4> QED BY <1>2, <1>13, <4>1, <4>2, OtherKept
    <3> QED BY <3>1, <3>2
  <2>3. ListAt(Part(k2, y2, "pool", Null), q, w, pl2.head, pl2.count)
    <3> HIDE DEF k2, y2, q, w
    <3> QED BY <1>7, <1>10
  <2> HIDE DEF k2, y2, q, w, mv2, pl2
  <2> QED BY <2>1, <2>2, <2>3 DEF Chained
<1> HIDE DEF k2, y2, q, w, mv2, pl2
<1>17. HeapAt(w, hd, ct, mv2, pl2, us, od, tk)
  BY <1>14, <1>15, <1>16 DEF Heap, HeapAt
<1> QED BY <1>17 DEF w, mv2, pl2

\* A thread whose list is empty takes the first n blocks of the pool.
LEMMA TakeHeap ==
  ASSUME NEW m, NEW hd, NEW ct, NEW mv, NEW pl, NEW us, NEW od, NEW tk,
         HeapAt(m, hd, ct, mv, pl, us, od, tk), NEW th \in Threads, hd[th] = Null,
         NEW n, NEW rest, NEW last, CutPoint(m, pl.head, pl.count, n, rest, last)
  PROVE  /\ ct[th] = 0 /\ pl.head # Null
         /\ HeapAt([m EXCEPT ![last] = hd[th]], [hd EXCEPT ![th] = pl.head], [ct EXCEPT ![th] = ct[th] + n],
                   mv, [head |-> m[last], count |-> rest], us, od, tk)
<1>1. PICK k, y, r : Heap(k, y, r, m, hd, ct, mv, pl, us, od, tk)
  BY DEF HeapAt
<1> DEFINE P == Part(k, y, "pool", Null)
           Front == {b \in P : r[b] > rest}
           k2 == [b \in 1..tk |-> IF b \in Front THEN "list" ELSE k[b]]
           y2 == [b \in 1..tk |-> IF b \in Front THEN th ELSE y[b]]
           q == [b \in 1..tk |-> IF b \in Front THEN r[b] - rest ELSE r[b]]
           w == [m EXCEPT ![last] = hd[th]]
           hd2 == [hd EXCEPT ![th] = pl.head]
           ct2 == [ct EXCEPT ![th] = ct[th] + n]
           pl2 == [head |-> m[last], count |-> rest]
<1>2. Sorted(k, y, r, us, od, tk) /\ Shaped(m, hd, ct, mv, pl) /\ Chained(k, y, r, m, hd, ct, mv, pl)
  BY <1>1 DEF Heap
<1>3. /\ 1..tk \subseteq Blocks /\ Null \notin 1..tk /\ tk \in Nat
      /\ \A kind, t : Part(k, y, kind, t) \subseteq 1..tk
      /\ \A kind, t : \A b \in Part(k, y, kind, t) : k[b] = kind /\ y[b] = t
  BY <1>2, PartBlocks
<1>4. /\ ListAt(P, r, m, pl.head, pl.count) /\ pl.count \in Nat /\ rest \in Nat /\ n \in Nat /\ n > 0
      /\ rest = pl.count - n
  BY <1>2 DEF Chained, Shaped, CutPoint
<1>5. ct[th] = 0 /\ Part(k, y, "list", th) = {}
  <2>1. ListAt(Part(k, y, "list", th), r, m, hd[th], ct[th]) /\ ct[th] \in Nat
    BY <1>2 DEF Chained, Shaped
  <2>2. Null \notin Part(k, y, "list", th)
    BY <1>3
  <2> QED BY <2>1, <2>2, ListTop
<1>6. pl.head # Null /\ pl.head \in P
  <2>1. Null \notin P
    BY <1>3
  <2> QED BY <1>4, <2>1, ListTop
<1>7. \A b \in P : q[b] = IF r[b] > rest THEN r[b] - rest ELSE r[b]
  BY <1>3
<1>8. /\ last \in Front /\ q[last] = 1
      /\ Stack(Front, q, m, pl.head, n)
      /\ ListAt(P \ Front, q, m, m[last], rest)
  <2>1. P \subseteq Blocks
    BY <1>3
  <2> HIDE DEF q, P
  <2>2. Lowered(P, r, q, rest) /\ Front = Above(P, r, rest)
    BY <1>7 DEF Lowered, Above
  <2> HIDE DEF Front
  <2>3. /\ last \in Above(P, r, rest) /\ q[last] = 1
        /\ Stack(Above(P, r, rest), q, m, pl.head, n)
        /\ Stack(P \ Above(P, r, rest), q, m, m[last], rest) /\ Ends(P \ Above(P, r, rest), q, m, m[last], rest)
    <3>1. pl.count \in Nat
      BY <1>4
    <3>2. Stack(P, r, m, pl.head, pl.count)
      BY <1>4 DEF ListAt
    <3>3. Ends(P, r, m, pl.head, pl.count)
      BY <1>4 DEF ListAt
    <3>4. Lowered(P, r, q, rest)
      BY <2>2
    <3> QED BY <2>1, <3>1, <3>2, <3>3, <3>4, StackCut, ZenonT(30)
  <2> QED BY <2>2, <2>3 DEF ListAt
<1>9. \A b \in Front : b \in P /\ b \in 1..tk /\ k[b] = "pool" /\ y[b] = Null
  BY <1>3
<1>10. ListAt(Front, q, w, pl.head, n)
  <2>1. w[last] = Null /\ \A b \in Front \ {last} : w[b] = m[b]
    BY <1>2, <1>3, <1>8, <1>9 DEF Shaped
  <2> HIDE DEF q, w, Front
  <2>2. \A b \in Front : q[b] = 1 => b = last
    BY <1>8 DEF Stack
  <2>3. \A b \in Front : q[b] > 1 => b # last
    BY <1>8
  <2>4. Stack(Front, q, w, pl.head, n)
    BY <1>8, <2>1, <2>3 DEF Stack
  <2>5. Ends(Front, q, w, pl.head, n)
    BY <1>4, <2>1, <2>2 DEF Ends
  <2> QED BY <2>4, <2>5 DEF ListAt
<1>11. ListAt(P \ Front, q, w, m[last], rest)
  <2>1. \A b \in P \ Front : q[b] = q[b] /\ w[b] = m[b]
    BY <1>2, <1>3, <1>8 DEF Shaped
  <2>2. rest \in Nat /\ ListAt(P \ Front, q, m, m[last], rest)
    BY <1>4, <1>8
  <2> HIDE DEF q, w, Front, P
  <2>3. ListAt(P \ Front, q, m, m[last], rest) => ListAt(P \ Front, q, w, m[last], rest)
    BY <2>1, <2>2, PartKept
  <2> QED BY <2>2, <2>3
<1> HIDE DEF Front
<1>12. DOMAIN k2 = 1..tk /\ DOMAIN k = 1..tk
  BY <1>2 DEF Sorted
<1>13. Part(k2, y2, "pool", Null) = P \ Front
  BY <1>9, <1>12 DEF Part
<1>14. Part(k2, y2, "list", th) = Front
  BY <1>5, <1>9, <1>12 DEF Part
<1>15. \A kind \in {"held", "list", "moving"}, t \in Threads :
         ~(kind = "list" /\ t = th) => Part(k2, y2, kind, t) = Part(k, y, kind, t) /\ Part(k, y, kind, t) \cap Front = {}
  BY <1>9, <1>12 DEF Part
<1>16. \A kind, t : Part(k, y, kind, t) \cap Front = {} => \A b \in Part(k, y, kind, t) : q[b] = r[b] /\ w[b] = m[b]
  <2>1. \A b \in 1..tk : b # last => w[b] = m[b]
    BY <1>2, <1>3 DEF Shaped
  <2> QED BY <1>3, <1>8, <2>1
<1>17. Sorted(k2, y2, q, us, od, tk)
  <2>1. k2 \in [1..tk -> Kinds] /\ y2 \in [1..tk -> Threads \cup {Null}]
    BY <1>2 DEF Sorted, Kinds
  <2>2. q \in [1..tk -> Nat]
    <3>1. \A b \in 1..tk : r[b] \in Nat
      BY <1>2 DEF Sorted
    <3>2. \A b \in Front : r[b] - rest \in Nat
      BY <1>4, <1>9, <3>1 DEF Front
    <3> QED BY <3>1, <3>2
  <2>3. us = {b \in 1..tk : k2[b] = "used"}
    BY <1>2, <1>9 DEF Sorted
  <2>4. \A t \in Threads : od[t] # Null => od[t] \in Part(k2, y2, "held", t)
    BY <1>2, <1>15 DEF Sorted
  <2>5. \A b \in 1..tk : /\ k2[b] = "held" => y2[b] \in Threads /\ od[y2[b]] = b
                         /\ k2[b] \in {"list", "moving"} => y2[b] \in Threads
                         /\ k2[b] = "pool" => y2[b] = Null
    BY <1>2, <1>9 DEF Sorted
  <2> HIDE DEF k2, y2, q
  <2> QED BY <1>2, <2>1, <2>2, <2>3, <2>4, <2>5 DEF Sorted
<1>18. Shaped(w, hd2, ct2, mv, pl2)
  <2>1. m[last] \in Words
    <3>1. rest = 0 \/ m[last] \in P
      BY <1>4, <1>11 DEF ListAt, Stack
    <3>2. rest = 0 => m[last] = Null
      BY <1>11 DEF ListAt, Ends
    <3> QED BY <1>3, <3>1, <3>2 DEF Words
  <2>2. pl.head \in Words /\ Null \in Words /\ n \in Nat
    BY <1>2, <1>4 DEF Shaped, Words
  <2>3. ct[th] + n \in Nat
    BY <1>5, <2>2
  <2>4. pl2 \in [head : Words, count : Nat]
    BY <1>4, <2>1
  <2>5. w \in [Blocks -> Words \cup {Data}] /\ hd2 \in [Threads -> Words] /\ ct2 \in [Threads -> Nat]
    BY <1>2, <2>2, <2>3 DEF Shaped
  <2> HIDE DEF pl2, w, hd2, ct2
  <2> QED BY <1>2, <2>4, <2>5 DEF Shaped
<1>19. Chained(k2, y2, q, w, hd2, ct2, mv, pl2)
  <2>1. ASSUME NEW t \in Threads PROVE ListAt(Part(k2, y2, "list", t), q, w, hd2[t], ct2[t])
    <3>1. CASE t = th
      <4>1. hd2[t] = pl.head /\ ct2[t] = n
        BY <1>2, <1>4, <1>5, <3>1 DEF Shaped
      <4> HIDE DEF hd2, ct2, k2, y2, q, w
      <4> QED BY <1>10, <1>14, <3>1, <4>1
    <3>2. CASE t # th
      <4>1. hd2[t] = hd[t] /\ ct2[t] = ct[t]
        BY <1>2, <3>2 DEF Shaped
      <4>2. Part(k2, y2, "list", t) = Part(k, y, "list", t) /\ Part(k, y, "list", t) \cap Front = {}
        BY <1>15, <3>2
      <4> HIDE DEF hd2, ct2, k2, y2, q, w
      <4> QED BY <1>2, <1>16, <4>1, <4>2, OtherKept
    <3> QED BY <3>1, <3>2
  <2>2. ASSUME NEW t \in Threads PROVE MoveAt(Part(k2, y2, "moving", t), q, w, mv[t])
    <3>1. Part(k2, y2, "moving", t) = Part(k, y, "moving", t) /\ Part(k, y, "moving", t) \cap Front = {}
      BY <1>15
    <3> HIDE DEF k2, y2, q, w
    <3> QED BY <1>2, <1>16, <3>1, OtherKept
  <2>3. ListAt(Part(k2, y2, "pool", Null), q, w, pl2.head, pl2.count)
    <3> HIDE DEF k2, y2, q, w
    <3> QED BY <1>11, <1>13
  <2> HIDE DEF k2, y2, q, w, hd2, ct2, pl2
  <2> QED BY <2>1, <2>2, <2>3 DEF Chained
<1> HIDE DEF k2, y2, q, w, hd2, ct2, pl2
<1>20. HeapAt(w, hd2, ct2, mv, pl2, us, od, tk)
  BY <1>17, <1>18, <1>19 DEF Heap, HeapAt
<1> QED BY <1>5, <1>6, <1>20 DEF w, hd2, ct2, pl2

\* A new slab is the list of a thread that had none.
LEMMA SlabHeap ==
  ASSUME NEW m, NEW hd, NEW ct, NEW mv, NEW pl, NEW us, NEW od, NEW tk,
         HeapAt(m, hd, ct, mv, pl, us, od, tk), NEW th \in Threads, hd[th] = Null,
         tk + Slab <= MaxBlocks
  PROVE  /\ ct[th] = 0 /\ tk + 1 # Null
         /\ HeapAt([b \in Blocks |-> IF b \notin (tk + 1)..(tk + Slab) THEN m[b]
                                     ELSE IF b < tk + Slab THEN b + 1 ELSE hd[th]],
                   [hd EXCEPT ![th] = tk + 1], [ct EXCEPT ![th] = ct[th] + Slab], mv, pl, us, od, tk + Slab)
<1>1. PICK k, y, r : Heap(k, y, r, m, hd, ct, mv, pl, us, od, tk)
  BY DEF HeapAt
<1> DEFINE New == (tk + 1)..(tk + Slab)
           end == tk + Slab
           k2 == [b \in 1..end |-> IF b \in New THEN "list" ELSE k[b]]
           y2 == [b \in 1..end |-> IF b \in New THEN th ELSE y[b]]
           q == [b \in 1..end |-> IF b \in New THEN end - b + 1 ELSE r[b]]
           w == [b \in Blocks |-> IF b \notin New THEN m[b] ELSE IF b < end THEN b + 1 ELSE hd[th]]
           hd2 == [hd EXCEPT ![th] = tk + 1]
           ct2 == [ct EXCEPT ![th] = ct[th] + Slab]
<1>2. Sorted(k, y, r, us, od, tk) /\ Shaped(m, hd, ct, mv, pl) /\ Chained(k, y, r, m, hd, ct, mv, pl)
  BY <1>1 DEF Heap
<1>3. /\ 1..tk \subseteq Blocks /\ Null \notin 1..tk /\ tk \in Nat
      /\ \A kind, t : Part(k, y, kind, t) \subseteq 1..tk
      /\ \A kind, t : \A b \in Part(k, y, kind, t) : k[b] = kind /\ y[b] = t
  BY <1>2, PartBlocks
<1>4. ct[th] = 0 /\ Part(k, y, "list", th) = {}
  <2>1. ListAt(Part(k, y, "list", th), r, m, hd[th], ct[th]) /\ ct[th] \in Nat
    BY <1>2 DEF Chained, Shaped
  <2>2. Null \notin Part(k, y, "list", th)
    BY <1>3
  <2> QED BY <2>1, <2>2, ListTop
<1>5. /\ Slab \in Nat /\ Slab > 0 /\ end \in Nat /\ end \in 0..MaxBlocks /\ MaxBlocks \in Nat
      /\ New \subseteq Blocks /\ New \subseteq 1..end /\ tk + 1 \in New /\ end \in New
      /\ 1..tk \subseteq 1..end /\ New \cap 1..tk = {} /\ 1..end = 1..tk \cup New
      /\ Null \notin Blocks
  BY <1>3, SizesAssumption DEF Blocks
<1>6. ListAt(New, q, w, tk + 1, Slab)
  <2>1. \A b \in New : q[b] = end - b + 1 /\ w[b] = IF b < end THEN b + 1 ELSE Null
    BY <1>5
  <2> HIDE DEF q, w
  <2>2. \A b \in New : b \in Nat /\ b > tk /\ b <= end
    BY <1>3, <1>5
  <2>3. \A b \in New : q[b] \in 1..Slab
    BY <1>3, <1>5, <2>1, <2>2
  <2>4. \A b, c \in New : q[b] = q[c] => b = c
    BY <1>5, <2>1, <2>2
  <2>5. q[tk + 1] = Slab
    BY <1>3, <1>5, <2>1
  <2>6. \A b \in New : q[b] > 1 => w[b] \in New /\ q[w[b]] = q[b] - 1
    <3> SUFFICES ASSUME NEW b \in New, q[b] > 1 PROVE w[b] \in New /\ q[w[b]] = q[b] - 1
      OBVIOUS
    <3>1. b < end
      BY <1>5, <2>1, <2>2
    <3>2. b + 1 \in New /\ w[b] = b + 1
      BY <1>3, <1>5, <2>1, <2>2, <3>1
    <3>3. q[b + 1] = end - (b + 1) + 1
      BY <2>1, <3>2
    <3> QED BY <1>5, <2>1, <2>2, <3>2, <3>3
  <2>7. \A b \in New : q[b] = 1 => w[b] = Null
    BY <1>5, <2>1, <2>2
  <2> HIDE DEF New
  <2>8. Stack(New, q, w, tk + 1, Slab)
    BY <1>5, <2>3, <2>4, <2>5, <2>6 DEF Stack
  <2>9. Ends(New, q, w, tk + 1, Slab)
    BY <1>5, <2>7 DEF Ends
  <2> QED BY <2>8, <2>9 DEF ListAt
<1>7. \A b \in 1..tk : q[b] = r[b] /\ w[b] = m[b] /\ k2[b] = k[b] /\ y2[b] = y[b]
  BY <1>3, <1>5
<1>8. \A b \in New : k2[b] = "list" /\ y2[b] = th /\ q[b] \in Nat /\ w[b] \in Words
  <2>1. \A b \in New : b \in 1..end /\ b \in Nat /\ b <= end /\ end - b + 1 \in Nat
    BY <1>3, <1>5
  <2>2. \A b \in New : b < end => b + 1 \in Words
    BY <1>3, <1>5 DEF Blocks, Words
  <2> QED BY <1>5, <2>1, <2>2 DEF Words
<1>9. DOMAIN k2 = 1..end /\ DOMAIN k = 1..tk /\ DOMAIN y2 = 1..end /\ DOMAIN q = 1..end
  BY <1>2 DEF Sorted
<1>10. /\ k2 = [b \in 1..end |-> k2[b]] /\ y2 = [b \in 1..end |-> y2[b]] /\ q = [b \in 1..end |-> q[b]]
       /\ w = [b \in Blocks |-> w[b]]
  OBVIOUS
<1>11. \A b \in Blocks \ New : w[b] = m[b]
  OBVIOUS
<1> HIDE DEF New, end, k2, y2, q, w
<1>12. Part(k2, y2, "list", th) = New
  BY <1>4, <1>5, <1>7, <1>8, <1>9 DEF Part
<1>13. \A kind \in {"held", "list", "moving", "pool"}, t \in Threads \cup {Null} :
         ~(kind = "list" /\ t = th) => Part(k2, y2, kind, t) = Part(k, y, kind, t)
  BY <1>5, <1>7, <1>8, <1>9 DEF Part
<1>14. \A kind, t : \A b \in Part(k, y, kind, t) : q[b] = r[b] /\ w[b] = m[b]
  BY <1>3, <1>7
<1>15. Sorted(k2, y2, q, us, od, end)
  <2>1. \A b \in 1..tk : k[b] \in Kinds /\ y[b] \in Threads \cup {Null} /\ r[b] \in Nat
    BY <1>2 DEF Sorted
  <2>2. k2 \in [1..end -> Kinds]
    <3>1. \A b \in 1..end : k2[b] \in Kinds
      BY <1>5, <1>7, <1>8, <2>1 DEF Kinds
    <3> QED BY <1>10, <3>1
  <2>3. y2 \in [1..end -> Threads \cup {Null}]
    <3>1. \A b \in 1..end : y2[b] \in Threads \cup {Null}
      BY <1>5, <1>7, <1>8, <2>1
    <3> QED BY <1>10, <3>1
  <2>4. q \in [1..end -> Nat]
    <3>1. \A b \in 1..end : q[b] \in Nat
      BY <1>5, <1>7, <1>8, <2>1
    <3> QED BY <1>10, <3>1
  <2>5. us = {b \in 1..end : k2[b] = "used"}
    BY <1>2, <1>5, <1>7, <1>8 DEF Sorted
  <2>6. \A t \in Threads : od[t] # Null => od[t] \in Part(k2, y2, "held", t)
    BY <1>2, <1>13 DEF Sorted
  <2>7. \A b \in 1..end : /\ k2[b] = "held" => y2[b] \in Threads /\ od[y2[b]] = b
                          /\ k2[b] \in {"list", "moving"} => y2[b] \in Threads
                          /\ k2[b] = "pool" => y2[b] = Null
    <3> SUFFICES ASSUME NEW b \in 1..end
                 PROVE  /\ k2[b] = "held" => y2[b] \in Threads /\ od[y2[b]] = b
                        /\ k2[b] \in {"list", "moving"} => y2[b] \in Threads
                        /\ k2[b] = "pool" => y2[b] = Null
      OBVIOUS
    <3>1. CASE b \in New
      BY <1>8, <3>1
    <3>2. CASE b \in 1..tk
      BY <1>2, <1>7, <3>2 DEF Sorted
    <3> QED BY <1>5, <3>1, <3>2
  <2> QED BY <1>2, <1>5, <2>2, <2>3, <2>4, <2>5, <2>6, <2>7 DEF Sorted
<1>16. Shaped(w, hd2, ct2, mv, pl)
  <2>1. w \in [Blocks -> Words \cup {Data}]
    <3>1. \A b \in Blocks : w[b] \in Words \cup {Data}
      BY <1>2, <1>8, <1>11 DEF Shaped
    <3> QED BY <1>10, <3>1
  <2>2. hd2 \in [Threads -> Words] /\ ct2 \in [Threads -> Nat]
    <3>1. tk + 1 \in Words /\ ct[th] + Slab \in Nat
      BY <1>4, <1>5 DEF Words
    <3> QED BY <1>2, <3>1 DEF Shaped
  <2> HIDE DEF hd2, ct2
  <2> QED BY <1>2, <2>1, <2>2 DEF Shaped
<1>17. Chained(k2, y2, q, w, hd2, ct2, mv, pl)
  <2>1. ASSUME NEW t \in Threads PROVE ListAt(Part(k2, y2, "list", t), q, w, hd2[t], ct2[t])
    <3>1. CASE t = th
      <4>1. hd2[t] = tk + 1 /\ ct2[t] = Slab
        BY <1>2, <1>4, <1>5, <3>1 DEF Shaped
      <4> HIDE DEF hd2, ct2
      <4> QED BY <1>6, <1>12, <3>1, <4>1
    <3>2. CASE t # th
      <4>1. hd2[t] = hd[t] /\ ct2[t] = ct[t]
        BY <1>2, <3>2 DEF Shaped
      <4>2. Part(k2, y2, "list", t) = Part(k, y, "list", t)
        BY <1>13, <3>2
      <4> HIDE DEF hd2, ct2
      <4> QED BY <1>2, <1>14, <4>1, <4>2, OtherKept
    <3> QED BY <3>1, <3>2
  <2>2. ASSUME NEW t \in Threads PROVE MoveAt(Part(k2, y2, "moving", t), q, w, mv[t])
    <3>1. Part(k2, y2, "moving", t) = Part(k, y, "moving", t)
      BY <1>13
    <3> QED BY <1>2, <1>14, <3>1, OtherKept
  <2>3. ListAt(Part(k2, y2, "pool", Null), q, w, pl.head, pl.count)
    <3>1. Part(k2, y2, "pool", Null) = Part(k, y, "pool", Null)
      BY <1>13
    <3> QED BY <1>2, <1>14, <3>1, OtherKept
  <2> HIDE DEF hd2, ct2
  <2> QED BY <2>1, <2>2, <2>3 DEF Chained
<1> HIDE DEF hd2, ct2
<1>18. HeapAt(w, hd2, ct2, mv, pl, us, od, end)
  BY <1>15, <1>16, <1>17 DEF Heap, HeapAt
<1>19. tk + 1 # Null
  <2>1. tk + 1 \in Blocks
    BY <1>5
  <2> QED BY <1>5, <2>1
<1> QED BY <1>4, <1>18, <1>19 DEF w, hd2, ct2, end, New

\* Chains whose parts are the same.
LEMMA ChainsKept ==
  ASSUME NEW k, NEW y, NEW r, NEW m, NEW hd, NEW ct, NEW mv, NEW pl,
         Shaped(m, hd, ct, mv, pl), Chained(k, y, r, m, hd, ct, mv, pl), NEW k2, NEW y2, NEW q,
         \A kind \in {"list", "moving", "pool"}, t \in Threads \cup {Null} :
           /\ Part(k2, y2, kind, t) = Part(k, y, kind, t)
           /\ \A b \in Part(k, y, kind, t) : q[b] = r[b]
  PROVE  Chained(k2, y2, q, m, hd, ct, mv, pl)
<1>1. ASSUME NEW t \in Threads PROVE ListAt(Part(k2, y2, "list", t), q, m, hd[t], ct[t])
  BY OtherKept
<1>2. ASSUME NEW t \in Threads PROVE MoveAt(Part(k2, y2, "moving", t), q, m, mv[t])
  BY OtherKept
<1>3. ListAt(Part(k2, y2, "pool", Null), q, m, pl.head, pl.count)
  BY OtherKept
<1> QED BY <1>1, <1>2, <1>3 DEF Chained

\* The system gives one block to the program.
LEMMA SystemHeap ==
  ASSUME NEW m, NEW hd, NEW ct, NEW mv, NEW pl, NEW us, NEW od, NEW tk,
         HeapAt(m, hd, ct, mv, pl, us, od, tk), tk < MaxBlocks
  PROVE  HeapAt(m, hd, ct, mv, pl, us \cup {tk + 1}, od, tk + 1)
<1>1. PICK k, y, r : Heap(k, y, r, m, hd, ct, mv, pl, us, od, tk)
  BY DEF HeapAt
<1> DEFINE b0 == tk + 1
           k2 == [b \in 1..b0 |-> IF b = b0 THEN "used" ELSE k[b]]
           y2 == [b \in 1..b0 |-> IF b = b0 THEN Null ELSE y[b]]
           q == [b \in 1..b0 |-> IF b = b0 THEN 0 ELSE r[b]]
<1>2. Sorted(k, y, r, us, od, tk) /\ Shaped(m, hd, ct, mv, pl) /\ Chained(k, y, r, m, hd, ct, mv, pl)
  BY <1>1 DEF Heap
<1>3. /\ tk \in Nat
      /\ \A kind, t : Part(k, y, kind, t) \subseteq 1..tk
      /\ \A kind, t : \A b \in Part(k, y, kind, t) : k[b] = kind /\ y[b] = t
  BY <1>2, PartBlocks
<1>4. 1..b0 = 1..tk \cup {b0} /\ b0 \notin 1..tk /\ b0 \in 0..MaxBlocks
  BY <1>3, SizesAssumption
<1>5. \A b \in 1..tk : k2[b] = k[b] /\ y2[b] = y[b] /\ q[b] = r[b]
  BY <1>4
<1>6. k2[b0] = "used" /\ y2[b0] = Null /\ q[b0] = 0
  BY <1>4
<1>7. DOMAIN k2 = 1..b0 /\ DOMAIN k = 1..tk
  BY <1>2 DEF Sorted
<1>8. k2 \in [1..b0 -> Kinds] /\ y2 \in [1..b0 -> Threads \cup {Null}] /\ q \in [1..b0 -> Nat]
  <2>1. \A b \in 1..tk : k[b] \in Kinds /\ y[b] \in Threads \cup {Null} /\ r[b] \in Nat
    BY <1>2 DEF Sorted
  <2> QED BY <1>4, <2>1 DEF Kinds
<1> HIDE DEF b0, k2, y2, q
<1>9. \A kind \in {"held", "list", "moving", "pool"} : \A t : Part(k2, y2, kind, t) = Part(k, y, kind, t)
  BY <1>4, <1>5, <1>6, <1>7 DEF Part
<1>10. Sorted(k2, y2, q, us \cup {b0}, od, b0)
  <2>1. us \cup {b0} = {b \in 1..b0 : k2[b] = "used"}
    BY <1>2, <1>4, <1>5, <1>6 DEF Sorted
  <2>2. \A t \in Threads : od[t] # Null => od[t] \in Part(k2, y2, "held", t)
    BY <1>2, <1>9 DEF Sorted
  <2>3. \A b \in 1..b0 : /\ k2[b] = "held" => y2[b] \in Threads /\ od[y2[b]] = b
                         /\ k2[b] \in {"list", "moving"} => y2[b] \in Threads
                         /\ k2[b] = "pool" => y2[b] = Null
    BY <1>2, <1>4, <1>5, <1>6 DEF Sorted
  <2> QED BY <1>2, <1>4, <1>8, <2>1, <2>2, <2>3 DEF Sorted
<1>11. Chained(k2, y2, q, m, hd, ct, mv, pl)
  <2>1. \A kind \in {"list", "moving", "pool"}, t \in Threads \cup {Null} :
           /\ Part(k2, y2, kind, t) = Part(k, y, kind, t)
           /\ \A b \in Part(k, y, kind, t) : q[b] = r[b]
    BY <1>3, <1>5, <1>9
  <2> QED BY <1>2, <2>1, ChainsKept
<1> QED BY <1>2, <1>10, <1>11 DEF Heap, HeapAt, b0

\* realloc puts aside the block of the program that it copies from...
LEMMA ReallocHeap ==
  ASSUME NEW m, NEW hd, NEW ct, NEW mv, NEW pl, NEW us, NEW od, NEW tk,
         HeapAt(m, hd, ct, mv, pl, us, od, tk), NEW th \in Threads, od[th] = Null, NEW b \in us
  PROVE  b # Null /\ HeapAt(m, hd, ct, mv, pl, us \ {b}, [od EXCEPT ![th] = b], tk)
<1>1. PICK k, y, r : Heap(k, y, r, m, hd, ct, mv, pl, us, od, tk)
  BY DEF HeapAt
<1> DEFINE k2 == [k EXCEPT ![b] = "held"]
           y2 == [y EXCEPT ![b] = th]
           od2 == [od EXCEPT ![th] = b]
<1>2. Sorted(k, y, r, us, od, tk) /\ Shaped(m, hd, ct, mv, pl) /\ Chained(k, y, r, m, hd, ct, mv, pl)
  BY <1>1 DEF Heap
<1>3. /\ 1..tk \subseteq Blocks /\ Null \notin 1..tk
      /\ \A kind, t : Part(k, y, kind, t) \subseteq 1..tk
      /\ \A kind, t : \A c \in Part(k, y, kind, t) : k[c] = kind /\ y[c] = t
  BY <1>2, PartBlocks
<1>4. b \in 1..tk /\ k[b] = "used"
  BY <1>2 DEF Sorted
<1>5. /\ k2[b] = "held" /\ y2[b] = th /\ \A c \in 1..tk : c # b => k2[c] = k[c] /\ y2[c] = y[c]
      /\ k2 \in [1..tk -> Kinds] /\ y2 \in [1..tk -> Threads \cup {Null}]
      /\ DOMAIN k2 = 1..tk /\ DOMAIN k = 1..tk
  BY <1>2, <1>4 DEF Sorted, Kinds
<1>6. od2[th] = b /\ od2 \in [Threads -> Words] /\ \A t \in Threads : t # th => od2[t] = od[t]
  BY <1>2, <1>3, <1>4 DEF Sorted, Words
<1> HIDE DEF k2, y2, od2
<1>7. \A kind \in {"list", "moving", "pool"} : \A t : Part(k2, y2, kind, t) = Part(k, y, kind, t)
  BY <1>4, <1>5 DEF Part
<1>8. Sorted(k2, y2, r, us \ {b}, od2, tk)
  <2>1. us \ {b} = {c \in 1..tk : k2[c] = "used"}
    BY <1>2, <1>5 DEF Sorted
  <2>2. ASSUME NEW t \in Threads, od2[t] # Null PROVE od2[t] \in Part(k2, y2, "held", t)
    <3>1. CASE t = th
      BY <1>4, <1>5, <1>6, <3>1 DEF Part
    <3>2. CASE t # th
      <4>1. od[t] \in Part(k, y, "held", t) /\ od2[t] = od[t]
        BY <1>2, <1>6, <2>2, <3>2 DEF Sorted
      <4> QED BY <1>4, <1>5, <4>1 DEF Part
    <3> QED BY <3>1, <3>2
  <2>3. \A c \in 1..tk : /\ k2[c] = "held" => y2[c] \in Threads /\ od2[y2[c]] = c
                         /\ k2[c] \in {"list", "moving"} => y2[c] \in Threads
                         /\ k2[c] = "pool" => y2[c] = Null
    <3> SUFFICES ASSUME NEW c \in 1..tk
                 PROVE  /\ k2[c] = "held" => y2[c] \in Threads /\ od2[y2[c]] = c
                        /\ k2[c] \in {"list", "moving"} => y2[c] \in Threads
                        /\ k2[c] = "pool" => y2[c] = Null
      OBVIOUS
    <3>1. CASE c = b
      BY <1>5, <1>6, <3>1
    <3>2. CASE c # b
      <4>1. /\ k[c] = "held" => y[c] \in Threads /\ od[y[c]] = c
            /\ k[c] \in {"list", "moving"} => y[c] \in Threads
            /\ k[c] = "pool" => y[c] = Null
        BY <1>2 DEF Sorted
      <4>2. k2[c] = k[c] /\ y2[c] = y[c] /\ c # Null
        BY <1>3, <1>5, <3>2
      <4> QED BY <1>6, <4>1, <4>2
    <3> QED BY <3>1, <3>2
  <2> QED BY <1>2, <1>5, <1>6, <2>1, <2>2, <2>3 DEF Sorted
<1>9. Chained(k2, y2, r, m, hd, ct, mv, pl)
  BY <1>2, <1>7, ChainsKept
<1>10. HeapAt(m, hd, ct, mv, pl, us \ {b}, od2, tk)
  BY <1>2, <1>8, <1>9 DEF Heap, HeapAt
<1> QED BY <1>3, <1>4, <1>10 DEF od2

\* ... and gives it back when there is no memory for the copy.
LEMMA BackHeap ==
  ASSUME NEW m, NEW hd, NEW ct, NEW mv, NEW pl, NEW us, NEW od, NEW tk,
         HeapAt(m, hd, ct, mv, pl, us, od, tk), NEW th \in Threads, od[th] # Null
  PROVE  HeapAt(m, hd, ct, mv, pl, us \cup {od[th]}, [od EXCEPT ![th] = Null], tk)
<1>1. PICK k, y, r : Heap(k, y, r, m, hd, ct, mv, pl, us, od, tk)
  BY DEF HeapAt
<1> DEFINE b == od[th]
           k2 == [k EXCEPT ![b] = "used"]
           od2 == [od EXCEPT ![th] = Null]
<1>2. Sorted(k, y, r, us, od, tk) /\ Shaped(m, hd, ct, mv, pl) /\ Chained(k, y, r, m, hd, ct, mv, pl)
  BY <1>1 DEF Heap
<1>3. /\ 1..tk \subseteq Blocks /\ Null \notin 1..tk
      /\ \A kind, t : Part(k, y, kind, t) \subseteq 1..tk
      /\ \A kind, t : \A c \in Part(k, y, kind, t) : k[c] = kind /\ y[c] = t
  BY <1>2, PartBlocks
<1>4. b \in 1..tk /\ k[b] = "held" /\ y[b] = th
  BY <1>2, <1>3 DEF Sorted
<1>5. /\ k2[b] = "used" /\ \A c \in 1..tk : c # b => k2[c] = k[c]
      /\ k2 \in [1..tk -> Kinds] /\ DOMAIN k2 = 1..tk /\ DOMAIN k = 1..tk
  BY <1>2, <1>4 DEF Sorted, Kinds
<1>6. od2[th] = Null /\ od2 \in [Threads -> Words] /\ \A t \in Threads : t # th => od2[t] = od[t]
  BY <1>2 DEF Sorted, Words
<1>7. b = od[th]
  OBVIOUS
<1> HIDE DEF k2, od2, b
<1>8. \A kind \in {"list", "moving", "pool"} : \A t : Part(k2, y, kind, t) = Part(k, y, kind, t)
  BY <1>4, <1>5 DEF Part
<1>9. Sorted(k2, y, r, us \cup {b}, od2, tk)
  <2>1. us \cup {b} = {c \in 1..tk : k2[c] = "used"}
    BY <1>2, <1>4, <1>5 DEF Sorted
  <2>2. ASSUME NEW t \in Threads, od2[t] # Null PROVE od2[t] \in Part(k2, y, "held", t)
    <3>1. t # th /\ od2[t] = od[t]
      BY <1>6, <2>2
    <3>2. od[t] \in Part(k, y, "held", t) /\ k[od[t]] = "held" /\ y[od[t]] = t
      BY <1>2, <1>3, <2>2, <3>1 DEF Sorted
    <3> QED BY <1>4, <1>5, <3>1, <3>2 DEF Part
  <2>3. \A c \in 1..tk : /\ k2[c] = "held" => y[c] \in Threads /\ od2[y[c]] = c
                         /\ k2[c] \in {"list", "moving"} => y[c] \in Threads
                         /\ k2[c] = "pool" => y[c] = Null
    <3> SUFFICES ASSUME NEW c \in 1..tk
                 PROVE  /\ k2[c] = "held" => y[c] \in Threads /\ od2[y[c]] = c
                        /\ k2[c] \in {"list", "moving"} => y[c] \in Threads
                        /\ k2[c] = "pool" => y[c] = Null
      OBVIOUS
    <3>1. CASE c = b
      BY <1>5, <3>1
    <3>2. CASE c # b
      <4>1. /\ k[c] = "held" => y[c] \in Threads /\ od[y[c]] = c
            /\ k[c] \in {"list", "moving"} => y[c] \in Threads
            /\ k[c] = "pool" => y[c] = Null
        BY <1>2 DEF Sorted
      <4> QED BY <1>5, <1>6, <1>7, <3>2, <4>1
    <3> QED BY <3>1, <3>2
  <2> QED BY <1>2, <1>5, <1>6, <2>1, <2>2, <2>3 DEF Sorted
<1>10. Chained(k2, y, r, m, hd, ct, mv, pl)
  BY <1>2, <1>8, ChainsKept
<1>11. HeapAt(m, hd, ct, mv, pl, us \cup {b}, od2, tk)
  BY <1>2, <1>9, <1>10 DEF Heap, HeapAt
<1> QED BY <1>7, <1>11 DEF od2

-----------------------------------------------------------------------------
(* Steps                                                                    *)

LEMMA HeapTypes ==
  ASSUME NEW m, NEW hd, NEW ct, NEW mv, NEW pl, NEW us, NEW od, NEW tk,
         HeapAt(m, hd, ct, mv, pl, us, od, tk)
  PROVE  /\ Shaped(m, hd, ct, mv, pl) /\ od \in [Threads -> Words]
         /\ us \subseteq 1..tk /\ tk \in 0..MaxBlocks /\ 1..tk \subseteq Blocks /\ Null \notin 1..tk
         /\ \A th \in Threads : hd[th] # Null <=> ct[th] > 0
<1>1. PICK k, y, r : Heap(k, y, r, m, hd, ct, mv, pl, us, od, tk)
  BY DEF HeapAt
<1>2. Sorted(k, y, r, us, od, tk) /\ Shaped(m, hd, ct, mv, pl) /\ Chained(k, y, r, m, hd, ct, mv, pl)
  BY <1>1 DEF Heap
<1>3. 1..tk \subseteq Blocks /\ Null \notin 1..tk /\ \A kind, t : Part(k, y, kind, t) \subseteq 1..tk
  BY <1>2, PartBlocks
<1>4. us \subseteq 1..tk
  BY <1>2 DEF Sorted
<1>5. ASSUME NEW th \in Threads PROVE hd[th] # Null <=> ct[th] > 0
  <2>1. ListAt(Part(k, y, "list", th), r, m, hd[th], ct[th]) /\ ct[th] \in Nat
    BY <1>2 DEF Chained, Shaped
  <2>2. Null \notin Part(k, y, "list", th)
    BY <1>3
  <2> QED BY <2>1, <2>2, ListTop
<1> QED BY <1>2, <1>3, <1>4, <1>5 DEF Sorted

LEMMA Types ==
  ASSUME IInv
  PROVE  /\ next \in [Blocks -> Words \cup {Data}]
         /\ head \in [Threads -> Words] /\ count \in [Threads -> Nat]
         /\ moving \in [Threads -> Chains] /\ pool \in [head : Words, count : Nat]
         /\ old \in [Threads -> Words]
         /\ used \subseteq 1..taken /\ taken \in 0..MaxBlocks /\ 1..taken \subseteq Blocks /\ Null \notin 1..taken
         /\ \A th \in Threads : head[th] # Null <=> count[th] > 0
         /\ ControlTypes
  BY HeapTypes DEF IInv, HeapExact, Control, Shaped

\* What a step of another thread leaves alone.
Same(t) ==
  /\ guarded'[t] = guarded[t] /\ guard'[t] = guard[t] /\ life'[t] = life[t] /\ pc'[t] = pc[t]
  /\ head'[t] = head[t] /\ old'[t] = old[t] /\ moving'[t] = moving[t]
  /\ t \in late' <=> t \in late

LEMMA ControlStep ==
  ASSUME Control, NEW th \in Threads, ControlTypes', \A t \in Threads \ {th} : Same(t), Sound(th)'
  PROVE  Control'
<1>1. ASSUME NEW t \in Threads, t # th PROVE Sound(t)'
  <2>1. Sound(t) /\ Same(t)
    BY <1>1 DEF Control
  <2> QED BY <2>1 DEF Sound, Same
<1> QED BY <1>1 DEF Control

LEMMA InitIInv == Init => IInv
<1> SUFFICES ASSUME Init PROVE IInv
  OBVIOUS
<1>1. HeapExact
  <2> DEFINE e == [b \in 1..0 |-> 0]
  <2>1. 1..0 = {} /\ DOMAIN e = {} /\ taken = 0 /\ used = {}
    BY DEF Init
  <2>2. \A kind, t : Part(e, e, kind, t) = {}
    BY <2>1 DEF Part
  <2>3. Sorted(e, e, e, used, old, taken)
    <3>1. 0 \in 0..MaxBlocks
      BY SizesAssumption
    <3>2. old \in [Threads -> Words] /\ \A th \in Threads : old[th] = Null
      BY DEF Init, Words
    <3>3. e \in [1..taken -> Kinds] /\ e \in [1..taken -> Threads \cup {Null}] /\ e \in [1..taken -> Nat]
      BY <2>1
    <3> HIDE DEF e
    <3> QED BY <2>1, <3>1, <3>2, <3>3 DEF Sorted
  <2>4. Shaped(next, head, count, moving, pool)
    <3>1. NoChain \in Chains
      BY DEF NoChain, Chains, Words
    <3> QED BY <3>1 DEF Init, Shaped, Words
  <2>5. Chained(e, e, e, next, head, count, moving, pool)
    <3> HIDE DEF e
    <3>1. ListAt({}, e, next, Null, 0) /\ MoveAt({}, e, next, NoChain)
      BY DEF ListAt, MoveAt, Stack, Ends, NoChain
    <3>2. pool.head = Null /\ pool.count = 0
      BY DEF Init
    <3>3. \A th \in Threads : head[th] = Null /\ count[th] = 0 /\ moving[th] = NoChain
      BY DEF Init
    <3> QED BY <2>2, <3>1, <3>2, <3>3 DEF Chained
  <2> HIDE DEF e
  <2> QED BY <2>3, <2>4, <2>5 DEF HeapExact, HeapAt, Heap
<1>2. Control
  BY DEF Init, Control, ControlTypes, Sound, NoChain
<1>3. ListBounded
  BY SizesAssumption DEF Init, ListBounded
<1> QED BY <1>1, <1>2, <1>3 DEF IInv

Limit == IF Slab - 1 > LocalMax THEN Slab - 1 ELSE LocalMax

\* Only the list of th changed, to n blocks.
LEMMA BoundStep ==
  ASSUME IInv, NEW th \in Threads, NEW n \in Nat, n <= Limit, count' = [count EXCEPT ![th] = n]
  PROVE  ListBounded'
<1>1. \A t \in Threads : count[t] <= Limit /\ count'[t] = IF t = th THEN n ELSE count[t]
  BY Types DEF IInv, ListBounded, Limit
<1> QED BY <1>1 DEF ListBounded, Limit

\* Handing the first block of the list that th has in hd and ct, where it is
\* h and total, when the other lists are those of head and count.
LEMMA HandStep ==
  ASSUME IInv, NEW th \in Threads, NEW m, NEW hd, NEW ct, NEW pl, NEW tk,
         HeapAt(m, hd, ct, moving, pl, used, old, tk), hd[th] # Null,
         \A t \in Threads \ {th} : hd[t] = head[t] /\ ct[t] = count[t],
         Hand(th, m, hd[th], ct[th]), ct[th] - 1 <= Limit
  PROVE  /\ HeapAt(next', head', count', moving, pl, used', old, tk) /\ ListBounded'
         /\ head' \in [Threads -> Words] /\ \A t \in Threads \ {th} : head'[t] = head[t]
         /\ pc' = [pc EXCEPT ![th] = IF old[th] = Null THEN "run" ELSE "copied"]
<1> DEFINE h == hd[th]
<1>1. /\ hd \in [Threads -> Words] /\ ct \in [Threads -> Nat]
  BY HeapTypes DEF Shaped
<1>2. ct[th] > 0 /\ HeapAt([m EXCEPT ![h] = Data], [hd EXCEPT ![th] = m[h]],
                   [ct EXCEPT ![th] = ct[th] - 1], moving, pl, used \cup {h}, old, tk)
  BY PopHeap
<1>3. head \in [Threads -> Words] /\ count \in [Threads -> Nat]
  BY Types
<1>4. [hd EXCEPT ![th] = m[h]] = [head EXCEPT ![th] = m[h]]
  BY <1>1, <1>3
<1>5. [ct EXCEPT ![th] = ct[th] - 1] = [count EXCEPT ![th] = ct[th] - 1]
  BY <1>1, <1>3
<1>6. /\ head' = [head EXCEPT ![th] = m[h]] /\ count' = [count EXCEPT ![th] = ct[th] - 1]
      /\ next' = [m EXCEPT ![h] = Data] /\ used' = used \cup {h}
      /\ pc' = [pc EXCEPT ![th] = IF old[th] = Null THEN "run" ELSE "copied"]
  BY DEF Hand
<1>7. HeapAt(next', head', count', moving, pl, used', old, tk)
  BY <1>2, <1>4, <1>5, <1>6
<1>8. ListBounded'
  <2>1. ct[th] - 1 \in Nat
    BY <1>1, <1>2
  <2> QED BY <1>6, <2>1, BoundStep
<1>9. head' \in [Threads -> Words]
  BY <1>7, HeapTypes DEF Shaped
<1> QED BY <1>3, <1>6, <1>7, <1>8, <1>9

\* Detaching n blocks of the list that starts at h in m and has total blocks.
LEMMA DetachStep ==
  ASSUME IInv, NEW th \in Threads, NEW m, NEW hd, NEW ct, NEW us, NEW od,
         HeapAt(m, hd, ct, moving, pool, us, od, taken), moving[th].count = 0,
         \A t \in Threads \ {th} : hd[t] = head[t] /\ ct[t] = count[t],
         NEW n \in 1..ct[th], Detach(th, m, hd[th], ct[th], n), ct[th] - n <= Limit
  PROVE  /\ HeapAt(m, head', count', moving', pool, us, od, taken) /\ ListBounded'
         /\ \A t \in Threads \ {th} : head'[t] = head[t] /\ moving'[t] = moving[t]
         /\ n = ct[th] => head'[th] = Null
         /\ moving'[th].count > 0
         /\ pc' = [pc EXCEPT ![th] = "giving"]
<1> DEFINE h == hd[th]
           last == Walk(m, h, n - 1)
           rest == ct[th] - n
<1>1. hd \in [Threads -> Words] /\ ct \in [Threads -> Nat]
  BY HeapTypes DEF Shaped
<1>2. head \in [Threads -> Words] /\ count \in [Threads -> Nat] /\ moving \in [Threads -> Chains]
  BY Types
<1>3. CutPoint(m, hd[th], ct[th], n, rest, last)
  BY DEF CutPoint
<1>4. /\ head' = [head EXCEPT ![th] = m[last]] /\ count' = [count EXCEPT ![th] = rest]
      /\ moving' = [moving EXCEPT ![th] = [first |-> h, last |-> last, count |-> n]]
      /\ pc' = [pc EXCEPT ![th] = "giving"]
  BY DEF Detach
<1>5. rest \in Nat /\ rest <= Limit /\ n > 0
  BY <1>1
<1>6. ListBounded'
  BY <1>4, <1>5, BoundStep
<1> HIDE DEF last, rest
<1>7. /\ n = ct[th] => m[last] = Null
      /\ HeapAt(m, [hd EXCEPT ![th] = m[last]], [ct EXCEPT ![th] = rest],
                [moving EXCEPT ![th] = [first |-> hd[th], last |-> last, count |-> n]], pool, us, od, taken)
  BY <1>3, CutHeap
<1>8. [hd EXCEPT ![th] = m[last]] = [head EXCEPT ![th] = m[last]] /\ [ct EXCEPT ![th] = rest] = [count EXCEPT ![th] = rest]
  BY <1>1, <1>2
<1>9. HeapAt(m, head', count', moving', pool, us, od, taken)
  BY <1>4, <1>7, <1>8
<1>10. \A t \in Threads \ {th} : head'[t] = head[t] /\ moving'[t] = moving[t]
  BY <1>2, <1>4
<1>11. head'[th] = m[last] /\ moving'[th] = [first |-> h, last |-> last, count |-> n]
  BY <1>2, <1>4
<1>12. moving'[th].count = n
  BY <1>11
<1> QED BY <1>4, <1>5, <1>6, <1>7, <1>9, <1>10, <1>11, <1>12

\* Notes and a thread's words.
LEMMA NotesStep ==
  ASSUME IInv, NEW th \in Threads, Notes(th)
  PROVE  /\ late' \subseteq Threads /\ \A t \in Threads \ {th} : t \in late' <=> t \in late
         /\ guard[th] = "destroyed" => th \in late'
  BY Types DEF Notes, ControlTypes

LEMMA AllocLocalStep == ASSUME IInv, NEW th \in Threads, AllocLocal(th) PROVE IInv'
<1>1. /\ pc[th] = "run" /\ life[th] \in {"running", "ending"} /\ head[th] # Null
      /\ Hand(th, next, head[th], count[th]) /\ Notes(th)
      /\ UNCHANGED <<guarded, guard, life, moving, old, pool, taken>>
  BY DEF AllocLocal, Ready
<1>2. count[th] \in Nat /\ count[th] <= Limit /\ count[th] - 1 <= Limit /\ LocalMax \in Nat /\ Slab \in Nat
  BY Types, SizesAssumption DEF IInv, ListBounded, Limit
<1>3. HeapAt(next, head, count, moving, pool, used, old, taken)
  BY DEF IInv, HeapExact
<1>4. /\ HeapAt(next', head', count', moving, pool, used', old, taken) /\ ListBounded'
      /\ head' \in [Threads -> Words] /\ \A t \in Threads \ {th} : head'[t] = head[t]
      /\ pc' = [pc EXCEPT ![th] = IF old[th] = Null THEN "run" ELSE "copied"]
  BY <1>1, <1>2, <1>3, HandStep
<1>5. HeapExact'
  BY <1>1, <1>4 DEF HeapExact
<1>6. Control'
  <2>1. ControlTypes /\ Sound(th) /\ Control
    BY DEF IInv, Control
  <2>2. ControlTypes'
    BY <1>1, <1>4, <2>1, NotesStep DEF ControlTypes
  <2>3. \A t \in Threads \ {th} : Same(t)
    BY <1>1, <1>4, <2>1, NotesStep DEF Same, ControlTypes
  <2>4. pc'[th] \in {"run", "copied"} /\ (pc'[th] = "copied" => old[th] # Null)
    BY <1>4, <2>1 DEF ControlTypes
  <2>5. Sound(th)'
    BY <1>1, <2>1, <2>4, NotesStep DEF Sound
  <2> QED BY <2>1, <2>2, <2>3, <2>5, ControlStep
<1> QED BY <1>4, <1>5, <1>6 DEF IInv

LEMMA AllocFromPoolStep == ASSUME IInv, NEW th \in Threads, AllocFromPool(th) PROVE IInv'
<1> DEFINE n == IF pool.count < Batch THEN pool.count ELSE Batch
           last == Walk(next, pool.head, n - 1)
           rest == pool.count - n
           m == [next EXCEPT ![last] = head[th]]
           hd == [head EXCEPT ![th] = pool.head]
           ct == [count EXCEPT ![th] = count[th] + n]
           pl == [head |-> next[last], count |-> rest]
<1>1. /\ pc[th] = "run" /\ life[th] \in {"running", "ending"} /\ head[th] = Null /\ pool.count > 0
      /\ pool' = pl /\ Hand(th, m, pool.head, count[th] + n) /\ Notes(th)
      /\ UNCHANGED <<guarded, guard, life, moving, old, taken>>
  BY DEF AllocFromPool, Ready
<1>2. head \in [Threads -> Words] /\ count \in [Threads -> Nat] /\ pool.count \in Nat
  BY Types
<1>3. CutPoint(next, pool.head, pool.count, n, rest, last) /\ n \in Nat /\ n <= LocalMax /\ n > 0
  BY <1>1, <1>2, SizesAssumption DEF CutPoint
<1>4. HeapAt(next, head, count, moving, pool, used, old, taken)
  BY DEF IInv, HeapExact
<1> HIDE DEF n, last, rest
<1>5. count[th] = 0 /\ pool.head # Null /\ HeapAt(m, hd, ct, moving, pl, used, old, taken)
  BY <1>1, <1>3, <1>4, TakeHeap
<1>6. /\ hd[th] = pool.head /\ ct[th] = count[th] + n
      /\ \A t \in Threads \ {th} : hd[t] = head[t] /\ ct[t] = count[t]
  BY <1>2
<1>7. ct[th] - 1 <= Limit
  BY <1>3, <1>5, <1>6, SizesAssumption DEF Limit
<1> HIDE DEF m, hd, ct, pl
<1>8. /\ HeapAt(next', head', count', moving, pl, used', old, taken) /\ ListBounded'
      /\ head' \in [Threads -> Words] /\ \A t \in Threads \ {th} : head'[t] = head[t]
      /\ pc' = [pc EXCEPT ![th] = IF old[th] = Null THEN "run" ELSE "copied"]
  BY <1>1, <1>5, <1>6, <1>7, HandStep
<1>9. HeapExact'
  BY <1>1, <1>8 DEF HeapExact
<1>10. Control'
  <2>1. ControlTypes /\ Sound(th) /\ Control
    BY DEF IInv, Control
  <2>2. ControlTypes'
    BY <1>1, <1>8, <2>1, NotesStep DEF ControlTypes
  <2>3. \A t \in Threads \ {th} : Same(t)
    BY <1>1, <1>8, <2>1, NotesStep DEF Same, ControlTypes
  <2>4. pc'[th] \in {"run", "copied"} /\ (pc'[th] = "copied" => old[th] # Null)
    BY <1>8, <2>1 DEF ControlTypes
  <2>5. Sound(th)'
    BY <1>1, <2>1, <2>4, NotesStep DEF Sound
  <2> QED BY <2>1, <2>2, <2>3, <2>5, ControlStep
<1> QED BY <1>8, <1>9, <1>10 DEF IInv

LEMMA PoolEmptyStep == ASSUME IInv, NEW th \in Threads, PoolEmpty(th) PROVE IInv'
<1>1. /\ pc[th] = "run" /\ life[th] \in {"running", "ending"} /\ head[th] = Null
      /\ pc' = [pc EXCEPT ![th] = "slab"] /\ Notes(th)
      /\ UNCHANGED <<next, head, count, guarded, guard, life, moving, old, pool, used, taken>>
  BY DEF PoolEmpty, Ready
<1>2. HeapExact' /\ ListBounded'
  BY <1>1 DEF IInv, HeapExact, ListBounded
<1>3. ControlTypes /\ Sound(th) /\ Control
  BY DEF IInv, Control
<1>4. ControlTypes' /\ (\A t \in Threads \ {th} : Same(t)) /\ pc'[th] = "slab"
  BY <1>1, <1>3, NotesStep DEF ControlTypes, Same
<1>5. Sound(th)'
  BY <1>1, <1>3, <1>4, NotesStep DEF Sound
<1> QED BY <1>2, <1>3, <1>4, <1>5, ControlStep DEF IInv

LEMMA NewSlabStep == ASSUME IInv, NEW th \in Threads, NewSlab(th) PROVE IInv'
<1> DEFINE m == [b \in Blocks |-> IF b \notin (taken + 1)..(taken + Slab) THEN next[b]
                                  ELSE IF b < taken + Slab THEN b + 1 ELSE head[th]]
           hd == [head EXCEPT ![th] = taken + 1]
           ct == [count EXCEPT ![th] = count[th] + Slab]
<1>1. /\ pc[th] = "slab" /\ taken + Slab <= MaxBlocks
      /\ Hand(th, m, taken + 1, count[th] + Slab)
      /\ taken' = taken + Slab /\ UNCHANGED <<guarded, guard, life, moving, old, pool, late>>
  BY DEF NewSlab
<1>2. ControlTypes /\ Sound(th) /\ Control
  BY DEF IInv, Control
<1>3. head[th] = Null
  BY <1>1, <1>2 DEF Sound
<1>4. head \in [Threads -> Words] /\ count \in [Threads -> Nat]
  BY Types
<1>5. HeapAt(next, head, count, moving, pool, used, old, taken)
  BY DEF IInv, HeapExact
<1>6. count[th] = 0 /\ taken + 1 # Null /\ HeapAt(m, hd, ct, moving, pool, used, old, taken')
  BY <1>1, <1>3, <1>5, SlabHeap
<1>7. /\ hd[th] = taken + 1 /\ ct[th] = count[th] + Slab
      /\ \A t \in Threads \ {th} : hd[t] = head[t] /\ ct[t] = count[t]
  BY <1>4
<1>8. ct[th] - 1 <= Limit
  BY <1>6, <1>7, SizesAssumption DEF Limit
<1> HIDE DEF m, hd, ct
<1>9. /\ HeapAt(next', head', count', moving, pool, used', old, taken') /\ ListBounded'
      /\ head' \in [Threads -> Words] /\ \A t \in Threads \ {th} : head'[t] = head[t]
      /\ pc' = [pc EXCEPT ![th] = IF old[th] = Null THEN "run" ELSE "copied"]
  <2>1. Hand(th, m, hd[th], ct[th]) /\ hd[th] # Null
    BY <1>1, <1>6, <1>7
  <2> QED BY <1>6, <1>7, <1>8, <2>1, HandStep
<1>10. HeapExact'
  BY <1>1, <1>9 DEF HeapExact
<1>11. Control'
  <2>1. ControlTypes'
    BY <1>1, <1>2, <1>9 DEF ControlTypes
  <2>2. \A t \in Threads \ {th} : Same(t)
    BY <1>1, <1>2, <1>9 DEF Same, ControlTypes
  <2>3. pc'[th] \in {"run", "copied"} /\ (pc'[th] = "copied" => old[th] # Null)
    BY <1>2, <1>9 DEF ControlTypes
  <2>4. Sound(th)'
    BY <1>1, <1>2, <2>3 DEF Sound
  <2> QED BY <1>2, <2>1, <2>2, <2>4, ControlStep
<1> QED BY <1>9, <1>10, <1>11 DEF IInv

LEMMA SystemBlockStep == ASSUME IInv, NEW th \in Threads, SystemBlock(th) PROVE IInv'
<1>1. /\ pc[th] = "slab" /\ taken < MaxBlocks /\ taken' = taken + 1 /\ used' = used \cup {taken + 1}
      /\ pc' = [pc EXCEPT ![th] = IF old[th] = Null THEN "run" ELSE "copied"]
      /\ UNCHANGED <<next, head, count, guarded, guard, life, moving, old, pool, late>>
  BY DEF SystemBlock
<1>2. HeapExact' /\ ListBounded'
  <2>1. HeapAt(next, head, count, moving, pool, used \cup {taken + 1}, old, taken + 1)
    BY <1>1, SystemHeap DEF IInv, HeapExact
  <2> QED BY <1>1, <2>1 DEF IInv, HeapExact, ListBounded
<1>3. ControlTypes /\ Sound(th) /\ Control
  BY DEF IInv, Control
<1>4. pc'[th] \in {"run", "copied"} /\ (pc'[th] = "copied" => old[th] # Null)
  BY <1>1, <1>3 DEF ControlTypes
<1>5. ControlTypes' /\ \A t \in Threads \ {th} : Same(t)
  BY <1>1, <1>3 DEF ControlTypes, Same
<1>6. Sound(th)'
  BY <1>1, <1>3, <1>4 DEF Sound
<1> QED BY <1>2, <1>3, <1>5, <1>6, ControlStep DEF IInv

LEMMA NoMemoryStep == ASSUME IInv, NEW th \in Threads, NoMemory(th) PROVE IInv'
<1>1. /\ pc[th] = "slab" /\ pc' = [pc EXCEPT ![th] = "run"]
      /\ used' = used \cup ({old[th]} \ {Null}) /\ old' = [old EXCEPT ![th] = Null]
      /\ UNCHANGED <<next, head, count, guarded, guard, life, moving, pool, taken, late>>
  BY DEF NoMemory
<1>2. old \in [Threads -> Words]
  BY Types
<1>3. HeapExact' /\ ListBounded'
  <2>1. HeapAt(next, head, count, moving, pool, used, old, taken)
    BY DEF IInv, HeapExact
  <2>2. CASE old[th] = Null
    <3>1. used' = used /\ old' = old
      BY <1>1, <1>2, <2>2
    <3> QED BY <1>1, <2>1, <3>1 DEF IInv, HeapExact, ListBounded
  <2>3. CASE old[th] # Null
    <3>1. used' = used \cup {old[th]}
      BY <1>1, <2>3
    <3>2. HeapAt(next, head, count, moving, pool, used \cup {old[th]}, [old EXCEPT ![th] = Null], taken)
      BY <2>1, <2>3, BackHeap
    <3> QED BY <1>1, <3>1, <3>2 DEF IInv, HeapExact, ListBounded
  <2> QED BY <2>2, <2>3
<1>4. ControlTypes /\ Sound(th) /\ Control
  BY DEF IInv, Control
<1>5. pc'[th] = "run"
  BY <1>1, <1>4 DEF ControlTypes
<1>6. ControlTypes' /\ \A t \in Threads \ {th} : Same(t)
  BY <1>1, <1>2, <1>4 DEF ControlTypes, Same
<1>7. Sound(th)'
  BY <1>1, <1>4, <1>5 DEF Sound
<1> QED BY <1>3, <1>4, <1>6, <1>7, ControlStep DEF IInv

LEMMA DeallocStep ==
  ASSUME IInv, NEW th \in Threads, NEW b, Dealloc(th, b), moving[th].count = 0, life[th] # "over",
         b \in used \/ \E t \in Threads : old[t] # Null /\ b = old[t],
         used' = used \ {b}, old' = [t \in Threads |-> IF old[t] = b THEN Null ELSE old[t]],
         \A t \in Threads \ {th} : old'[t] = old[t], UNCHANGED <<life, pool, taken>>
  PROVE  IInv'
<1> DEFINE m == [next EXCEPT ![b] = head[th]]
           total == count[th] + 1
           hd == [head EXCEPT ![th] = b]
           ct == [count EXCEPT ![th] = total]
<1>1. /\ guarded' = [guarded EXCEPT ![th] = TRUE]
      /\ guard' = IF guarded[th] THEN guard ELSE [guard EXCEPT ![th] = "alive"]
      /\ next' = m /\ Notes(th)
      /\ IF total > LocalMax THEN Detach(th, m, b, total, Batch)
         ELSE /\ head' = [head EXCEPT ![th] = b] /\ count' = [count EXCEPT ![th] = total]
              /\ pc' = [pc EXCEPT ![th] = "run"] /\ UNCHANGED moving
  BY DEF Dealloc
<1>2. /\ head \in [Threads -> Words] /\ count \in [Threads -> Nat] /\ old \in [Threads -> Words]
      /\ moving \in [Threads -> Chains]
  BY Types
<1>3. HeapAt(next, head, count, moving, pool, used, old, taken)
  BY DEF IInv, HeapExact
<1>4. HeapAt(m, hd, ct, moving, pool, used', old', taken)
  <2>1. HeapAt([next EXCEPT ![b] = head[th]], [head EXCEPT ![th] = b], [count EXCEPT ![th] = count[th] + 1],
               moving, pool, used \ {b}, [t \in Threads |-> IF old[t] = b THEN Null ELSE old[t]], taken)
    <3>1. Out(b, used, old)
      BY DEF Out
    <3> HIDE DEF m, hd, ct, total
    <3> QED BY ONLY <1>3, <3>1, PushHeap, th \in Threads, SMTT(30)
  <2> QED BY <2>1
<1>5. /\ hd[th] = b /\ ct[th] = total /\ total \in Nat
      /\ \A t \in Threads \ {th} : hd[t] = head[t] /\ ct[t] = count[t]
  BY <1>2
<1>6. count[th] <= Limit /\ Batch \in 1..LocalMax /\ LocalMax \in Nat /\ Slab \in Nat /\ LocalMax <= Limit /\ Limit \in Nat
  BY SizesAssumption DEF IInv, ListBounded, Limit
<1>7. /\ HeapAt(m, head', count', moving', pool, used', old', taken) /\ ListBounded'
      /\ \A t \in Threads \ {th} : head'[t] = head[t] /\ moving'[t] = moving[t]
      /\ \/ pc' = [pc EXCEPT ![th] = "giving"] /\ moving'[th].count > 0
         \/ pc' = [pc EXCEPT ![th] = "run"] /\ moving'[th].count = 0
  <2>1. CASE total > LocalMax
    <3>1. Batch \in 1..ct[th] /\ ct[th] - Batch <= Limit
      BY <1>2, <1>5, <1>6, <2>1
    <3>2. Detach(th, m, hd[th], ct[th], Batch)
      BY <1>1, <1>5, <2>1
    <3> HIDE DEF m, hd, ct, total
    <3> QED BY <1>4, <1>5, <3>1, <3>2, DetachStep
  <2>2. CASE ~(total > LocalMax)
    <3>1. head' = hd /\ count' = ct /\ moving' = moving /\ pc' = [pc EXCEPT ![th] = "run"]
      BY <1>1, <2>2
    <3>2. total <= Limit
      BY <1>5, <1>6, <2>2
    <3>3. ListBounded'
      BY <1>5, <3>1, <3>2, BoundStep
    <3> HIDE DEF m, hd, ct, total
    <3> QED BY <1>4, <1>5, <3>1, <3>3
  <2> QED BY <2>1, <2>2
<1>8. HeapExact'
  <2> HIDE DEF m
  <2> QED BY <1>1, <1>7 DEF HeapExact
<1> HIDE DEF m, hd, ct, total
<1>9. Control'
  <2>1. ControlTypes /\ Sound(th) /\ Control
    BY DEF IInv, Control
  <2>2. ControlTypes'
    BY <1>1, <1>7, <2>1, NotesStep DEF ControlTypes
  <2>3. \A t \in Threads \ {th} : Same(t)
    BY <1>1, <1>7, <2>1, NotesStep DEF Same, ControlTypes
  <2>4. \/ pc'[th] = "giving" /\ moving'[th].count > 0
        \/ pc'[th] = "run" /\ ~(moving'[th].count > 0)
    BY <1>7, <2>1 DEF ControlTypes
  <2>5. guarded'[th] = TRUE /\ guard'[th] # "initial" /\ (guard'[th] = "destroyed" => guard[th] = "destroyed")
    BY <1>1, <2>1 DEF ControlTypes, Sound
  <2>6. Sound(th)'
    BY <1>1, <2>4, <2>5, NotesStep DEF Sound
  <2> QED BY <2>1, <2>2, <2>3, <2>6, ControlStep
<1> QED BY <1>7, <1>8, <1>9 DEF IInv

\* No blocks move when the thread is not giving any.
LEMMA NotMoving ==
  ASSUME IInv, NEW th \in Threads, pc[th] # "giving" PROVE moving[th].count = 0
  BY Types DEF IInv, Control, Sound, Chains

LEMMA FreeStep == ASSUME IInv, NEW th \in Threads, NEW b \in Blocks, Free(th, b) PROVE IInv'
<1>1. /\ pc[th] = "run" /\ life[th] \in {"running", "ending"} /\ b \in used
      /\ used' = used \ {b} /\ Dealloc(th, b) /\ UNCHANGED <<life, old, pool, taken>>
  BY DEF Free, Ready
<1>0. HeapAt(next, head, count, moving, pool, used, old, taken)
  BY DEF IInv, HeapExact
<1>2. \A t \in Threads : old[t] # b
  BY <1>1, <1>0, HeldApart
<1>3. old' = [t \in Threads |-> IF old[t] = b THEN Null ELSE old[t]]
  BY <1>1, <1>2, Types
<1>4. moving[th].count = 0 /\ life[th] # "over"
  BY <1>1, NotMoving
<1> QED BY <1>1, <1>3, <1>4, DeallocStep

LEMMA CopiedStep == ASSUME IInv, NEW th \in Threads, Copied(th) PROVE IInv'
<1> DEFINE b == old[th]
<1>1. /\ pc[th] = "copied" /\ Dealloc(th, b) /\ old' = [old EXCEPT ![th] = Null]
      /\ UNCHANGED <<life, pool, used, taken>>
  BY DEF Copied
<1>2. old[th] # Null /\ life[th] # "over"
  BY <1>1 DEF IInv, Control, Sound
<1>3. \E t \in Threads : old[t] # Null /\ b = old[t]
  BY <1>2
<1>4. HeapAt(next, head, count, moving, pool, used, old, taken)
  BY DEF IInv, HeapExact
<1>5. b \notin used
  BY <1>2, <1>4, HeldApart
<1>6. \A t, u \in Threads : old[t] = old[u] /\ old[t] # Null => t = u
  BY <1>4, HeldApart
<1>7. used' = used \ {b}
  BY <1>1, <1>5
<1>8. old' = [t \in Threads |-> IF old[t] = b THEN Null ELSE old[t]]
  <2>1. \A t \in Threads : old[t] = b <=> t = th
    BY <1>2, <1>6
  <2> QED BY <1>1, <2>1, Types
<1>9. \A t \in Threads \ {th} : old'[t] = old[t]
  BY <1>1, Types
<1>10. moving[th].count = 0
  BY <1>1, NotMoving
<1> HIDE DEF b
<1> QED BY <1>1, <1>2, <1>3, <1>7, <1>8, <1>9, <1>10, DeallocStep

LEMMA ReallocStep == ASSUME IInv, NEW th \in Threads, NEW b \in Blocks, Realloc(th, b) PROVE IInv'
<1>1. /\ pc[th] = "run" /\ life[th] \in {"running", "ending"} /\ b \in used /\ old[th] = Null
      /\ used' = used \ {b} /\ old' = [old EXCEPT ![th] = b]
      /\ UNCHANGED <<next, head, count, guarded, guard, life, pc, moving, pool, taken, late>>
  BY DEF Realloc, Ready
<1>2. HeapAt(next, head, count, moving, pool, used, old, taken)
  BY DEF IInv, HeapExact
<1>3. HeapAt(next, head, count, moving, pool, used \ {b}, [old EXCEPT ![th] = b], taken)
  BY <1>1, <1>2, ReallocHeap
<1>4. HeapExact' /\ ListBounded'
  BY <1>1, <1>3 DEF IInv, HeapExact, ListBounded
<1>5. ControlTypes /\ Sound(th) /\ Control
  BY DEF IInv, Control
<1>6. ControlTypes' /\ \A t \in Threads \ {th} : Same(t)
  BY <1>1, <1>5, Types DEF ControlTypes, Same
<1>7. Sound(th)'
  BY <1>1, <1>5 DEF Sound
<1> QED BY <1>4, <1>5, <1>6, <1>7, ControlStep DEF IInv

LEMMA GiveStep == ASSUME IInv, NEW th \in Threads, Give(th) PROVE IInv'
<1>1. /\ pc[th] = "giving" /\ next' = [next EXCEPT ![moving[th].last] = pool.head]
      /\ pool' = [head |-> moving[th].first, count |-> pool.count + moving[th].count]
      /\ moving' = [moving EXCEPT ![th] = NoChain] /\ pc' = [pc EXCEPT ![th] = "run"]
      /\ UNCHANGED <<head, count, guarded, guard, life, old, used, taken, late>>
  BY DEF Give
<1>2. ControlTypes /\ Sound(th) /\ Control
  BY DEF IInv, Control
<1>3. moving[th].count > 0
  BY <1>1, <1>2 DEF Sound
<1>4. HeapExact' /\ ListBounded'
  <2>1. HeapAt(next, head, count, moving, pool, used, old, taken)
    BY DEF IInv, HeapExact
  <2>2. HeapAt([next EXCEPT ![moving[th].last] = pool.head], head, count, [moving EXCEPT ![th] = NoChain],
               [head |-> moving[th].first, count |-> pool.count + moving[th].count], used, old, taken)
    BY <1>3, <2>1, GiveHeap
  <2> QED BY <1>1, <2>2 DEF IInv, HeapExact, ListBounded
<1>5. ControlTypes' /\ \A t \in Threads \ {th} : Same(t)
  BY <1>1, <1>2, Types DEF ControlTypes, Same
<1>6. pc'[th] = "run" /\ ~(moving'[th].count > 0)
  BY <1>1, <1>2, Types DEF ControlTypes, NoChain
<1>7. Sound(th)'
  BY <1>1, <1>2, <1>6 DEF Sound
<1> QED BY <1>2, <1>4, <1>5, <1>7, ControlStep DEF IInv

LEMMA DropGuardStep == ASSUME IInv, NEW th \in Threads, DropGuard(th) PROVE IInv'
<1>1. /\ life[th] = "ending" /\ pc[th] = "run" /\ old[th] = Null /\ guard[th] = "alive"
      /\ guard' = [guard EXCEPT ![th] = "destroyed"]
      /\ IF count[th] = 0 THEN UNCHANGED <<head, count, moving, pc>>
         ELSE Detach(th, next, head[th], count[th], count[th])
      /\ UNCHANGED <<next, guarded, life, old, pool, used, taken, late>>
  BY DEF DropGuard
<1>2. ControlTypes /\ Sound(th) /\ Control
  BY DEF IInv, Control
<1>3. HeapAt(next, head, count, moving, pool, used, old, taken)
  BY DEF IInv, HeapExact
<1>4. moving[th].count = 0 /\ count[th] \in Nat /\ (head[th] # Null <=> count[th] > 0)
  BY <1>1, NotMoving, Types
<1>5. /\ HeapAt(next, head', count', moving', pool, used, old, taken) /\ ListBounded'
      /\ \A t \in Threads \ {th} : head'[t] = head[t] /\ moving'[t] = moving[t]
      /\ head'[th] = Null
      /\ \/ pc' = [pc EXCEPT ![th] = "giving"] /\ moving'[th].count > 0
         \/ pc' = pc /\ moving'[th].count = 0
  <2>1. CASE count[th] = 0
    <3>1. head' = head /\ count' = count /\ moving' = moving /\ pc' = pc
      BY <1>1, <2>1
    <3>2. ListBounded'
      BY <3>1 DEF IInv, ListBounded
    <3> QED BY <1>3, <1>4, <2>1, <3>1, <3>2
  <2>2. CASE count[th] # 0
    <3>1. Detach(th, next, head[th], count[th], count[th])
      BY <1>1, <2>2
    <3>2. count[th] \in 1..count[th] /\ count[th] - count[th] <= Limit
      BY <1>4, <2>2, SizesAssumption DEF Limit
    <3> QED BY <1>3, <1>4, <3>1, <3>2, DetachStep
  <2> QED BY <2>1, <2>2
<1>6. HeapExact'
  BY <1>1, <1>5 DEF HeapExact
<1>7. ControlTypes' /\ \A t \in Threads \ {th} : Same(t)
  BY <1>1, <1>2, <1>5 DEF ControlTypes, Same
<1>8. /\ guard'[th] = "destroyed"
      /\ \/ pc'[th] = "giving" /\ moving'[th].count > 0
         \/ pc'[th] = "run" /\ ~(moving'[th].count > 0)
  BY <1>1, <1>2, <1>5 DEF ControlTypes
<1>9. Sound(th)'
  BY <1>1, <1>2, <1>5, <1>8 DEF Sound
<1> QED BY <1>2, <1>5, <1>6, <1>7, <1>9, ControlStep DEF IInv

\* Start, End and Over only change the life of a thread.
LEMMA LifeStep ==
  ASSUME IInv, NEW th \in Threads, Start(th) \/ End(th) \/ Over(th) PROVE IInv'
<1>1. UNCHANGED <<next, head, count, guarded, guard, pc, moving, old, pool, used, taken, late>>
  BY DEF Start, End, Over
<1>2. \/ life' = [life EXCEPT ![th] = "running"] \/ life' = [life EXCEPT ![th] = "ending"]
      \/ life' = [life EXCEPT ![th] = "over"] /\ guard[th] # "alive" /\ pc[th] = "run"
  BY DEF Start, End, Over
<1>3. HeapExact' /\ ListBounded'
  BY <1>1 DEF IInv, HeapExact, ListBounded
<1>4. ControlTypes /\ Sound(th) /\ Control
  BY DEF IInv, Control
<1>5. ControlTypes' /\ \A t \in Threads \ {th} : Same(t)
  BY <1>1, <1>2, <1>4 DEF ControlTypes, Same
<1>6. life'[th] = "over" => guard[th] # "alive" /\ pc[th] = "run"
  BY <1>2, <1>4 DEF ControlTypes
<1>7. Sound(th)'
  BY <1>1, <1>4, <1>6 DEF Sound
<1> QED BY <1>3, <1>4, <1>5, <1>7, ControlStep DEF IInv

LEMMA NextIInv == IInv /\ [Next]_vars => IInv'
<1> SUFFICES ASSUME IInv, [Next]_vars PROVE IInv'
  OBVIOUS
<1>1. CASE UNCHANGED vars
  BY <1>1 DEF vars, IInv, HeapExact, Control, ControlTypes, Sound, ListBounded
<1>2. ASSUME NEW th \in Threads, Alloc(th) PROVE IInv'
  BY <1>2, AllocLocalStep, AllocFromPoolStep, PoolEmptyStep DEF Alloc
<1>3. ASSUME NEW th \in Threads, Step(th) PROVE IInv'
  BY <1>3, NewSlabStep, SystemBlockStep, NoMemoryStep, CopiedStep, GiveStep, DropGuardStep, LifeStep DEF Step
<1>4. ASSUME NEW th \in Threads, NEW b \in Blocks, Free(th, b) \/ Realloc(th, b) PROVE IInv'
  BY <1>4, FreeStep, ReallocStep
<1>5. ASSUME NEW th \in Threads, Start(th) \/ End(th) PROVE IInv'
  BY <1>5, LifeStep
<1> QED BY <1>1, <1>2, <1>3, <1>4, <1>5 DEF Next

\* The heap is made of chains as long as their counters say, whatever the
\* threads do (alloc, dealloc, realloc, refill, give and Guard::drop).
THEOREM HeapInvariance == Spec => []IInv
BY InitIInv, NextIInv, PTL DEF Spec

-----------------------------------------------------------------------------
(* What the lists are, and who has the blocks                               *)

\* The lists are what their counters say: no walk of `count` steps leaves its
\* list, and no list has a word of the program's in it (lists.heads and
\* lists.counts, ClassPool, and the chains that flush and Guard::drop move).
THEOREM CountersExact == Spec => []ListsExact
<1>1. IInv => ListsExact
  <2> SUFFICES ASSUME IInv PROVE ListsExact
    OBVIOUS
  <2>1. TypeOK
    BY Types DEF ControlTypes, TypeOK, Chains
  <2>2. PICK k, y, r : Heap(k, y, r, next, head, count, moving, pool, used, old, taken)
    BY DEF IInv, HeapExact, HeapAt
  <2>3. /\ Sorted(k, y, r, used, old, taken) /\ Shaped(next, head, count, moving, pool)
        /\ Chained(k, y, r, next, head, count, moving, pool)
    BY <2>2 DEF Heap
  <2>4. \A kind, t : Part(k, y, kind, t) \subseteq Blocks
    BY <2>3, PartBlocks
  <2>5. ASSUME NEW th \in Threads PROVE Walk(next, head[th], count[th]) = Null
    <3> DEFINE P == Part(k, y, "list", th)
    <3>1. Stack(P, r, next, head[th], count[th]) /\ Ends(P, r, next, head[th], count[th])
      BY <2>3 DEF Chained, ListAt
    <3>2. count[th] \in Nat /\ P \subseteq Blocks
      BY <2>4, Types
    <3> HIDE DEF P
    <3> QED BY <3>1, <3>2, StackEnd
  <2>6. ASSUME NEW th \in Threads, moving[th].count > 0
        PROVE  Walk(next, moving[th].first, moving[th].count - 1) = moving[th].last
    <3> DEFINE P == Part(k, y, "moving", th)
               n == moving[th].count
               last == Walk(next, moving[th].first, n - 1)
    <3>1. Stack(P, r, next, moving[th].first, n) /\ moving[th].last \in P /\ r[moving[th].last] = 1
      BY <2>3, <2>6 DEF Chained, MoveAt
    <3>2. n \in Nat /\ P \subseteq Blocks /\ n - 1 \in 0..(n - 1) /\ n - (n - 1) = 1
      BY <2>4, <2>6, Types DEF Chains
    <3>3. last \in P /\ r[last] = n - (n - 1)
      <4> HIDE DEF P, n
      <4> QED BY <3>1, <3>2, StackWalk
    <3> QED BY <3>1, <3>2, <3>3 DEF Stack
  <2>7. Walk(next, pool.head, pool.count) = Null
    <3> DEFINE P == Part(k, y, "pool", Null)
    <3>1. Stack(P, r, next, pool.head, pool.count) /\ Ends(P, r, next, pool.head, pool.count)
      BY <2>3 DEF Chained, ListAt
    <3>2. pool.count \in Nat /\ P \subseteq Blocks
      BY <2>4, Types
    <3> HIDE DEF P
    <3> QED BY <3>1, <3>2, StackEnd
  <2> QED BY <2>1, <2>5, <2>6, <2>7 DEF ListsExact, ChainsExact, IInv
<1> QED BY <1>1, HeapInvariance, PTL

\* The blocks of the chains are those that the parts name.
LEMMA ChainsAreParts ==
  ASSUME IInv, NEW k, NEW y, NEW r, Heap(k, y, r, next, head, count, moving, pool, used, old, taken)
  PROVE  /\ \A th \in Threads : InList(th) = Part(k, y, "list", th) /\ InMoving(th) = Part(k, y, "moving", th)
         /\ InPool = Part(k, y, "pool", Null)
<1>1. /\ Sorted(k, y, r, used, old, taken) /\ Chained(k, y, r, next, head, count, moving, pool)
  BY DEF Heap
<1>2. \A kind, t : Part(k, y, kind, t) \subseteq Blocks
  BY <1>1, PartBlocks
<1>3. ASSUME NEW th \in Threads PROVE InList(th) = Part(k, y, "list", th)
  <2>1. Stack(Part(k, y, "list", th), r, next, head[th], count[th]) /\ count[th] \in Nat
    BY <1>1, Types DEF Chained, ListAt
  <2> QED BY <1>2, <2>1, StackChain DEF InList
<1>4. ASSUME NEW th \in Threads PROVE InMoving(th) = Part(k, y, "moving", th)
  <2>1. Stack(Part(k, y, "moving", th), r, next, moving[th].first, moving[th].count) /\ moving[th].count \in Nat
    BY <1>1, Types DEF Chained, MoveAt, Chains
  <2> QED BY <1>2, <2>1, StackChain DEF InMoving
<1>5. InPool = Part(k, y, "pool", Null)
  <2>1. Stack(Part(k, y, "pool", Null), r, next, pool.head, pool.count) /\ pool.count \in Nat
    BY <1>1, Types DEF Chained, ListAt
  <2> QED BY <1>2, <2>1, StackChain DEF InPool
<1> QED BY <1>3, <1>4, <1>5

\* A block that the system gave has one owner, whatever threads allocate,
\* free, move and end at the same time: none is in two lists, none is both
\* free and the program's, and none is forgotten.
THEOREM BlocksOwnedOnce == Spec => []OneOwner
<1>1. IInv => OneOwner
  <2> SUFFICES ASSUME IInv PROVE OneOwner
    OBVIOUS
  <2>1. PICK k, y, r : Heap(k, y, r, next, head, count, moving, pool, used, old, taken)
    BY DEF IInv, HeapExact, HeapAt
  <2> DEFINE held == {old[th] : th \in Threads} \ {Null}
             owners == {<<"used", b>> : b \in used \cup held} \cup {<<"pool", b>> : b \in InPool}
                       \cup UNION {({<<th, "list">>} \X InList(th)) \cup ({<<th, "moving">>} \X InMoving(th))
                                   : th \in Threads}
             name == [b \in 1..taken |-> IF k[b] \in {"used", "held"} THEN "used" ELSE IF k[b] = "pool" THEN "pool"
                                         ELSE <<y[b], k[b]>>]
             g == [b \in 1..taken |-> <<name[b], b>>]
  <2>2. Sorted(k, y, r, used, old, taken)
    BY <2>1 DEF Heap
  <2>3. Null \notin 1..taken /\ taken \in Nat
    BY <2>2, PartBlocks
  <2>4. held = {b \in 1..taken : k[b] = "held"} /\ used = {b \in 1..taken : k[b] = "used"}
    BY <2>2, <2>3 DEF Sorted, Part
  <2>5. /\ InPool = {b \in 1..taken : k[b] = "pool"}
        /\ \A th \in Threads : /\ InList(th) = {b \in 1..taken : k[b] = "list" /\ y[b] = th}
                               /\ InMoving(th) = {b \in 1..taken : k[b] = "moving" /\ y[b] = th}
    BY <2>1, <2>2, ChainsAreParts DEF Part, Sorted
  <2>6. \A b \in 1..taken : k[b] \in Kinds /\ (k[b] \in {"list", "moving"} => y[b] \in Threads)
    BY <2>2 DEF Sorted
  <2> HIDE DEF held
  <2>7. owners = {g[b] : b \in 1..taken}
    <3>1. ASSUME NEW b \in 1..taken PROVE g[b] \in owners
      <4>1. CASE k[b] \in {"used", "held"}
        BY <2>4, <4>1
      <4>2. CASE k[b] = "pool"
        BY <2>5, <4>2
      <4>3. CASE k[b] \in {"list", "moving"}
        <5>1. y[b] \in Threads /\ name[b] = <<y[b], k[b]>> /\ g[b] = <<<<y[b], k[b]>>, b>>
          BY <2>6, <4>3
        <5>2. k[b] = "list" => g[b] \in {<<y[b], "list">>} \X InList(y[b])
          BY <2>5, <5>1
        <5>3. k[b] = "moving" => g[b] \in {<<y[b], "moving">>} \X InMoving(y[b])
          BY <2>5, <5>1
        <5> HIDE DEF g
        <5> QED BY <4>3, <5>1, <5>2, <5>3
      <4> QED BY <2>6, <4>1, <4>2, <4>3 DEF Kinds
    <3>2. ASSUME NEW o \in owners PROVE \E b \in 1..taken : o = g[b]
      <4>1. CASE o \in {<<"used", b>> : b \in used \cup held}
        BY <2>4, <4>1
      <4>2. CASE o \in {<<"pool", b>> : b \in InPool}
        BY <2>5, <4>2
      <4>3. CASE \E th \in Threads : o \in {<<th, "list">>} \X InList(th)
        <5>1. PICK th \in Threads : o \in {<<th, "list">>} \X InList(th)
          BY <4>3
        <5>2. PICK b \in InList(th) : o = <<<<th, "list">>, b>>
          BY <5>1
        <5>3. b \in 1..taken /\ k[b] = "list" /\ y[b] = th
          BY <2>5, <5>2
        <5> QED BY <5>2, <5>3
      <4>4. CASE \E th \in Threads : o \in {<<th, "moving">>} \X InMoving(th)
        <5>1. PICK th \in Threads : o \in {<<th, "moving">>} \X InMoving(th)
          BY <4>4
        <5>2. PICK b \in InMoving(th) : o = <<<<th, "moving">>, b>>
          BY <5>1
        <5>3. b \in 1..taken /\ k[b] = "moving" /\ y[b] = th
          BY <2>5, <5>2
        <5> QED BY <5>2, <5>3
      <4> QED BY <4>1, <4>2, <4>3, <4>4
    <3> HIDE DEF owners, g
    <3> QED BY <3>1, <3>2
  <2>8. \A b \in 1..taken : g[b][2] = b
    OBVIOUS
  <2>9. DOMAIN g = 1..taken /\ g = [b \in 1..taken |-> g[b]]
    OBVIOUS
  <2> HIDE DEF owners, name, g
  <2>10. {o[2] : o \in owners} = 1..taken
    BY <2>7, <2>8
  <2>11. Cardinality(owners) = taken
    <3>1. IsFiniteSet(1..taken) /\ Cardinality(1..taken) = taken
      BY <2>3, FS_Interval
    <3>2. g \in Bijection(1..taken, owners)
      <4>1. g \in [1..taken -> owners]
        BY <2>7, <2>9
      <4>2. \A a, b \in 1..taken : g[a] = g[b] => a = b
        BY <2>8
      <4>3. \A o \in owners : \E b \in 1..taken : g[b] = o
        BY <2>7
      <4> QED BY <4>1, <4>2, <4>3 DEF Bijection, Injection, Surjection, IsInjective
    <3>3. ExistsBijection(1..taken, owners)
      BY <3>2 DEF ExistsBijection
    <3> QED BY <3>1, <3>3, FS_Bijection
  <2>12. Cardinality(held) = Cardinality({th \in Threads : old[th] # Null})
    <3> DEFINE busy == {th \in Threads : old[th] # Null}
               f == [b \in held |-> y[b]]
    <3>1. IsFiniteSet(held)
      <4>1. IsFiniteSet(1..taken) /\ held \subseteq 1..taken
        BY <2>3, <2>4, FS_Interval
      <4> QED BY <4>1, FS_Subset
    <3>2. \A b \in held : y[b] \in busy /\ old[y[b]] = b
      BY <2>2, <2>3, <2>4 DEF Sorted
    <3>3. \A th \in busy : old[th] \in held /\ y[old[th]] = th
      BY <2>2 DEF Sorted, Part, held
    <3>4. f \in Bijection(held, busy)
      <4>1. f \in [held -> busy]
        BY <3>2
      <4>2. \A a, b \in held : f[a] = f[b] => a = b
        BY <3>2
      <4>3. \A th \in busy : \E b \in held : f[b] = th
        BY <3>3
      <4> QED BY <4>1, <4>2, <4>3 DEF Bijection, Injection, Surjection, IsInjective
    <3>5. ExistsBijection(held, busy)
      BY <3>4 DEF ExistsBijection
    <3> HIDE DEF busy
    <3>6. Cardinality(held) = Cardinality(busy)
      BY <3>1, <3>5, FS_Bijection
    <3> QED BY <3>6 DEF busy
  <2>13. held \cap used = {}
    BY <2>4
  <2> QED BY <2>10, <2>11, <2>12, <2>13 DEF OneOwner, owners, held
<1> QED BY <1>1, HeapInvariance, PTL

\* A thread that is over has left no free block behind, if it freed a block
\* and stayed away from the allocator after its guard (Guard::drop).
THEOREM ListsHandedOver == Spec => []HandedOver
<1>1. IInv => HandedOver
  BY DEF IInv, Control, ControlTypes, Sound, HandedOver
<1> QED BY <1>1, HeapInvariance, PTL
=============================================================================
