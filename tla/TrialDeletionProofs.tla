------------------------ MODULE TrialDeletionProofs ------------------------
(* Proofs about TrialDeletion, for every heap: a collection gives back what    *)
(* was garbage and nothing else, and puts back every count that it took apart.*)
(* The first part of the invariant says which references a count stands for   *)
(* at each point of a traversal (Counts): those of all values, but for those  *)
(* whose references are out of the counts just now (Out).  The second says    *)
(* that no set of values is forgotten.  Reachability is never spelled as a    *)
(* path: a set of values that nothing outside of it references, and that is   *)
(* disjoint from where a traversal starts, is empty (Grounded).               *)
EXTENDS TrialDeletion, FiniteSetTheorems, SequenceTheorems, TLAPS

Colored(c) == {v \in Values : color[v] = c}
Alive == Values \ Gone

\* The references to v in the values of S.
RefSet(e, S, v) == {p \in S \X (1..MaxElems) : p[2] \in DOMAIN e[p[1]] /\ e[p[1]][p[2]] = v}
Refs(e, S, v)   == Cardinality(RefSet(e, S, v))

Unit(b) == IF b THEN 1 ELSE 0

\* The values whose references are out of the counts: those that are gone or
\* are being destroyed, and while the counts are taken apart, those that were
\* taken out and not put back.  The leaves are counted until garbage goes.
Apart == Gone \cup {cur} \cup ToSet(garbage)
Trial == Colored("gray") \cup Colored("white") \cup ToSet(black)
Out(v) == IF v \in Objects THEN Apart \cup Trial ELSE Apart

Expected(v) == Unit(v \in local) + Refs(elems, Values \ Out(v), v) + Times(kids, v)

Counts == \A v \in Values : count[v] = Expected(v)

\* The values without a count, and no others.
Zero ==
  \A v \in Gone \cup ToSet(dying) \cup ({cur} \ {Null}) \cup Colored("white") \cup ToSet(garbage) : count[v] = 0

NonZero ==
  \A v \in Alive : count[v] = 0 =>
    \/ v \in ToSet(dying) \/ v = cur \/ color[v] \in {"gray", "white"}
    \/ v \in ToSet(garbage)
    \/ pc = "gray" /\ v \in ToSet(stack)

Types ==
  /\ TypeOK /\ pc # "wild"
  /\ \A v \in Values : Len(elems[v]) <= MaxElems
  /\ \A v \in Leaves : elems[v] = <<>> /\ ~dead[v] /\ ~buffered[v] /\ color[v] = "black"

\* What each control point leaves empty.
Phases ==
  /\ pc # "release" => kids = <<>> /\ cur = Null /\ dying = <<>> /\ ~due
  /\ pc \in {"code", "release"} =>
       /\ todo = <<>> /\ kept = <<>> /\ stack = <<>> /\ black = <<>> /\ garbage = <<>>
       /\ Colored("gray") = {} /\ Colored("white") = {}
  /\ pc \in {"gray", "scan", "white"} => roots = <<>>
  /\ pc = "gray" => Colored("white") = {} /\ black = <<>> /\ garbage = <<>>
  /\ pc = "scan" => garbage = <<>>
  /\ pc = "white" => Colored("gray") = {} /\ black = <<>>

\* The stacks of destroy.
Dying ==
  /\ IsInjective(dying) /\ ToSet(dying) \subseteq Alive
  /\ cur # Null => cur \in Alive /\ cur \notin ToSet(dying)

\* Which values are in the buffer of roots, and their colors.
Buffer ==
  /\ limit > 0
  /\ pc \in {"code", "release"} =>
       /\ IsInjective(roots) /\ (Len(roots) >= limit => due)
       /\ \A v \in Values : /\ buffered[v] <=> v \in ToSet(roots)
                            /\ buffered[v] => ~freed[v]
                            /\ ~freed[v] => color[v] = IF buffered[v] THEN "purple" ELSE "black"
                            /\ dead[v] /\ ~freed[v] => buffered[v]
  /\ pc = "gray" => \A v \in Values :
       /\ buffered[v] => v \in ToSet(todo) \cup ToSet(kept)
       /\ color[v] = "purple" /\ ~freed[v] => v \in ToSet(todo) \cup ToSet(stack)
       /\ dead[v] /\ ~freed[v] => v \in ToSet(todo)
       /\ v \in ToSet(todo) => freed[v] \/ color[v] \in {"purple", "gray"}
  /\ pc \in {"scan", "white"} => \A v \in Values :
       /\ buffered[v] => pc = "scan" /\ v \in ToSet(kept)
       /\ color[v] = "purple" \/ dead[v] => freed[v]

\* The traversals stay among the values that are there.
Traversed ==
  /\ Colored("gray") \cup Colored("white") \cup ToSet(black) \subseteq Alive
  /\ pc = "gray" => ToSet(stack) \cup ToSet(kept) \subseteq Alive
  /\ pc \in {"gray", "scan"} => \A v \in Alive : ToSet(elems[v]) \subseteq Alive
  /\ IsInjective(black) /\ ToSet(black) \subseteq Colored("black")
  /\ IsInjective(garbage) /\ ToSet(garbage) \subseteq Colored("black") \cap Alive

\* No value of S outside of U references one of U.
Isolated(S, U) == \A v \in S \ U : \A w \in U : w \notin ToSet(elems[v])

\* Whatever the members of S do not reach from outside is empty: U is any part
\* of T that avoids the starting points.
Grounded(T, S) == \A U \in SUBSET T : Isolated(S, U) => U = {}

Gray  == Colored("gray")
White == Colored("white")

\* mark_gray reaches what it colors from the roots it kept, and nothing that
\* a gray value references stays behind.
GrayReached ==
  pc = "gray" =>
    /\ Grounded((Gray \cup ToSet(stack)) \ ToSet(kept), Gray)
    /\ ToSet(kept) \subseteq Gray \cup ToSet(stack)
    /\ \A v \in Gray : ToSet(elems[v]) \cap Objects \subseteq Gray \cup ToSet(stack)

\* scan comes to every gray value...
ScanReaches ==
  pc = "scan" =>
    /\ \A U \in SUBSET (Gray \ (ToSet(todo) \cup ToSet(stack))) :
         Isolated(Gray \cup ToSet(black), U) => U = {}
    /\ Grounded((Gray \cup White) \ ToSet(kept), Alive)

\* ...and collect_white to every white one.
WhiteReached ==
  pc = "white" => Grounded(White \ (ToSet(todo) \cup ToSet(stack)), White)

\* No value is lost: what the program cannot reach is reached from the buffer
\* of roots, and then from the roots that a collection has still to look at,
\* or it is among the values that the traversals have given up.
NoneLost ==
  /\ pc \in {"code", "release"} =>
       Grounded(Alive \ (local \cup ToSet(roots) \cup ToSet(kids) \cup ToSet(dying) \cup {cur}),
                Alive \ {cur})
  /\ pc = "gray" => Grounded(Alive \ (local \cup ToSet(todo) \cup ToSet(kept)), Alive)
  /\ pc \in {"scan", "white"} =>
       \A U \in SUBSET (Alive \ local) :
         Isolated(Alive, U) => U \cap Objects \subseteq Gray \cup White \cup ToSet(garbage)

IInv ==
  /\ Types /\ Phases /\ Dying /\ Buffer /\ Counts /\ Zero /\ NonZero
  /\ Traversed /\ GrayReached /\ ScanReaches /\ WhiteReached /\ NoneLost

\* The roots and the values that mark_gray and scan have still to look at have
\* their blocks.  Of those of collect_white this does not hold.
Present ==
  /\ pc = "gray" => IsInjective(todo) /\ \A v \in ToSet(todo) : ~freed[v]
  /\ pc = "scan" => \A v \in ToSet(todo) \cup ToSet(stack) : v \in Alive

\* All of this, unless the collector has taken a freed block for a white value.
SafeInv == TypeOK /\ (pc # "wild" => IInv /\ Present)

-----------------------------------------------------------------------------
(* Sequences                                                               *)

LEMMA LenNat == \A S : \A s \in Seq(S) : Len(s) \in Nat /\ DOMAIN s = 1..Len(s)
BY LenProperties

LEMMA ToSetEmpty == ToSet(<<>>) = {}
BY DEF ToSet

LEMMA Member ==
  ASSUME NEW S, NEW s \in Seq(S)
  PROVE  /\ ToSet(s) \subseteq S
         /\ \A x : x \in ToSet(s) <=> \E i \in 1..Len(s) : s[i] = x
         /\ \A x : Contains(s, x) <=> x \in ToSet(s)
<1>1. DOMAIN s = 1..Len(s) /\ \A i \in 1..Len(s) : s[i] \in S
  BY LenNat
<1>2. ToSet(s) = {s[i] : i \in 1..Len(s)}
  BY <1>1 DEF ToSet
<1> QED BY <1>1, <1>2 DEF Contains

LEMMA HeadTail ==
  ASSUME NEW S, NEW s \in Seq(S), s # <<>>
  PROVE  /\ Head(s) \in S /\ Tail(s) \in Seq(S)
         /\ ToSet(s) = {Head(s)} \cup ToSet(Tail(s))
<1>1. /\ Head(s) \in S /\ Tail(s) \in Seq(S) /\ Len(Tail(s)) = Len(s) - 1
      /\ \A i \in 1..Len(Tail(s)) : Tail(s)[i] = s[i + 1]
  BY HeadTailProperties
<1>2. Len(s) \in Nat \ {0} /\ Head(s) = s[1]
  BY EmptySeq
<1>3. ASSUME NEW i \in 1..Len(s) PROVE s[i] \in {Head(s)} \cup ToSet(Tail(s))
  <2>1. CASE i = 1
    BY <1>2, <2>1
  <2>2. CASE i # 1
    <3>1. i - 1 \in 1..Len(Tail(s)) /\ (i - 1) + 1 = i
      BY <1>1, <1>2, <2>2
    <3>2. Tail(s)[i - 1] = s[i]
      BY <1>1, <3>1
    <3> QED BY <1>1, <3>1, <3>2, Member
  <2> QED BY <2>1, <2>2
<1>4. ASSUME NEW i \in 1..Len(Tail(s)) PROVE Tail(s)[i] \in ToSet(s)
  <2>1. i + 1 \in 1..Len(s)
    BY <1>1, <1>2
  <2> QED BY <1>1, <2>1, Member
<1>5. Head(s) \in ToSet(s)
  <2>1. 1 \in 1..Len(s)
    BY <1>2
  <2> QED BY <1>2, <2>1, Member
<1> QED
  <2>1. \A x \in ToSet(s) : x \in {Head(s)} \cup ToSet(Tail(s))
    BY <1>3, Member
  <2>2. ASSUME NEW x \in ToSet(Tail(s)) PROVE x \in ToSet(s)
    <3>1. PICK i \in 1..Len(Tail(s)) : Tail(s)[i] = x
      BY <1>1, Member
    <3> QED BY <1>4, <3>1
  <2>3. ToSet(s) = {Head(s)} \cup ToSet(Tail(s))
    BY <1>5, <2>1, <2>2
  <2> QED BY <1>1, <2>3

LEMMA TailInjective ==
  ASSUME NEW S, NEW s \in Seq(S), s # <<>>, IsInjective(s)
  PROVE  IsInjective(Tail(s)) /\ Head(s) \notin ToSet(Tail(s))
<1> DEFINE t == Tail(s)
<1>1. /\ t \in Seq(S) /\ Len(t) = Len(s) - 1
      /\ \A i \in 1..Len(t) : t[i] = s[i + 1]
  BY HeadTailProperties
<1>2. Len(s) \in Nat \ {0} /\ Head(s) = s[1] /\ DOMAIN s = 1..Len(s)
  BY EmptySeq, LenNat
<1>3. DOMAIN t = 1..Len(t)
  BY <1>1, LenNat
<1>4. \A i, j \in 1..Len(s) : s[i] = s[j] => i = j
  BY <1>2 DEF IsInjective
<1> HIDE DEF t
<1>5. ASSUME NEW i \in 1..Len(t) PROVE i + 1 \in 1..Len(s) /\ i + 1 # 1 /\ t[i] = s[i + 1]
  BY <1>1, <1>2
<1>6. ASSUME NEW i \in 1..Len(t), NEW j \in 1..Len(t), t[i] = t[j] PROVE i = j
  <2>1. i + 1 = j + 1
    BY <1>4, <1>5, <1>6
  <2> QED BY <2>1
<1>7. ASSUME NEW i \in 1..Len(t) PROVE t[i] # s[1]
  <2>1. 1 \in 1..Len(s)
    BY <1>2
  <2> QED BY <1>4, <1>5, <2>1
<1>8. IsInjective(t)
  BY <1>3, <1>6 DEF IsInjective
<1>9. Head(s) \notin ToSet(t)
  BY <1>1, <1>2, <1>7, Member
<1> QED BY <1>8, <1>9 DEF t

LEMMA FrontLast ==
  ASSUME NEW S, NEW s \in Seq(S), s # <<>>
  PROVE  /\ Last(s) \in S /\ Front(s) \in Seq(S) /\ Last(s) \in ToSet(s)
         /\ ToSet(s) = ToSet(Front(s)) \cup {Last(s)}
         /\ IsInjective(s) => IsInjective(Front(s)) /\ Last(s) \notin ToSet(Front(s))
<1> DEFINE n == Len(s)
           f == Front(s)
<1>1. n \in Nat \ {0} /\ DOMAIN s = 1..n
  BY EmptySeq, LenNat
<1>2. f \in Seq(S) /\ Len(f) = n - 1 /\ \A i \in 1..(n - 1) : f[i] = s[i]
  <2>1. \A i \in 1..(n - 1) : s[i] \in S
    BY <1>1
  <2>2. n - 1 \in Int /\ 1 \in Int
    BY <1>1
  <2>3. f = SubSeq(s, 1, n - 1)
    BY DEF Front
  <2> HIDE DEF f, n
  <2>4. /\ f \in Seq(S) /\ Len(f) = (IF 1 <= n - 1 THEN (n - 1) - 1 + 1 ELSE 0)
        /\ \A i \in 1..((n - 1) - 1 + 1) : f[i] = s[1 + i - 1]
    BY <2>1, <2>2, <2>3, SubSeqProperties
  <2>5. ASSUME NEW i \in 1..(n - 1) PROVE f[i] = s[i]
    <3>1. i \in 1..((n - 1) - 1 + 1) /\ 1 + i - 1 = i
      BY <1>1
    <3> QED BY <2>4, <3>1
  <2> QED BY <1>1, <2>4, <2>5
<1>3. Last(s) = s[n] /\ n \in 1..n /\ s[n] \in S
  BY <1>1 DEF Last
<1> HIDE DEF f, n
<1>4. DOMAIN f = 1..(n - 1)
  BY <1>2, LenNat
<1>5. \A x : x \in ToSet(f) <=> \E i \in 1..(n - 1) : s[i] = x
  BY <1>2, Member
<1>6. \A x : x \in ToSet(s) <=> \E i \in 1..n : s[i] = x
  BY Member DEF n
<1>7. \A i \in 1..n : i \in 1..(n - 1) \/ i = n
  BY <1>1
<1>8. \A i \in 1..(n - 1) : i \in 1..n /\ i # n
  BY <1>1
<1>9. ToSet(s) = ToSet(f) \cup {Last(s)}
  BY <1>3, <1>5, <1>6, <1>7, <1>8
<1>10. ASSUME IsInjective(s) PROVE IsInjective(f) /\ Last(s) \notin ToSet(f)
  <2>1. \A i, j \in 1..n : s[i] = s[j] => i = j
    BY <1>1, <1>10 DEF IsInjective
  <2>2. \A i, j \in 1..(n - 1) : f[i] = f[j] => i = j
    BY <1>2, <1>8, <2>1
  <2>3. Last(s) \notin ToSet(f)
    BY <1>3, <1>5, <1>8, <2>1
  <2> QED BY <1>4, <2>2, <2>3 DEF IsInjective
<1> QED BY <1>2, <1>3, <1>6, <1>9, <1>10 DEF f

LEMMA Concat ==
  ASSUME NEW S, NEW s \in Seq(S), NEW t \in Seq(S)
  PROVE  /\ s \o t \in Seq(S) /\ ToSet(s \o t) = ToSet(s) \cup ToSet(t)
         /\ IsInjective(s) /\ IsInjective(t) /\ ToSet(s) \cap ToSet(t) = {} => IsInjective(s \o t)
<1> DEFINE m == Len(s)
           n == Len(t)
           b == s \o t
<1>1. /\ b \in Seq(S) /\ Len(b) = m + n
      /\ \A i \in 1..(m + n) : b[i] = IF i <= m THEN s[i] ELSE t[i - m]
  BY ConcatProperties
<1>2. m \in Nat /\ n \in Nat /\ DOMAIN s = 1..m /\ DOMAIN t = 1..n
  BY LenNat
<1>3. DOMAIN b = 1..(m + n)
  BY <1>1, LenNat
<1>4. \A x : x \in ToSet(s) <=> \E i \in 1..m : s[i] = x
  BY Member
<1>5. \A x : x \in ToSet(t) <=> \E i \in 1..n : t[i] = x
  BY Member
<1> HIDE DEF m, n, b
<1>6. \A x : x \in ToSet(b) <=> \E i \in 1..(m + n) : b[i] = x
  BY <1>1, Member
<1>7. \A i \in 1..(m + n) : (i \in 1..m /\ b[i] = s[i]) \/ (i > m /\ i - m \in 1..n /\ b[i] = t[i - m])
  <2> SUFFICES ASSUME NEW i \in 1..(m + n)
               PROVE  (i \in 1..m /\ b[i] = s[i]) \/ (i > m /\ i - m \in 1..n /\ b[i] = t[i - m])
    OBVIOUS
  <2>1. CASE i <= m
    BY <1>1, <1>2, <2>1
  <2>2. CASE ~(i <= m)
    <3>1. i - m \in 1..n /\ i > m
      BY <1>2, <2>2
    <3> QED BY <1>1, <2>2, <3>1
  <2> QED BY <2>1, <2>2
<1>8. \A i \in 1..m : i \in 1..(m + n) /\ b[i] = s[i]
  BY <1>1, <1>2
<1>9. \A i \in 1..n : i + m \in 1..(m + n) /\ b[i + m] = t[i]
  <2> SUFFICES ASSUME NEW i \in 1..n PROVE i + m \in 1..(m + n) /\ b[i + m] = t[i]
    OBVIOUS
  <2>1. i + m \in 1..(m + n) /\ ~(i + m <= m) /\ (i + m) - m = i
    BY <1>2
  <2> QED BY <1>1, <2>1
<1>10. ToSet(b) = ToSet(s) \cup ToSet(t)
  <2>1. \A x \in ToSet(b) : x \in ToSet(s) \cup ToSet(t)
    BY <1>4, <1>5, <1>6, <1>7
  <2>2. \A x \in ToSet(s) : x \in ToSet(b)
    BY <1>4, <1>6, <1>8
  <2>3. \A x \in ToSet(t) : x \in ToSet(b)
    BY <1>5, <1>6, <1>9
  <2> QED BY <2>1, <2>2, <2>3
<1>11. ASSUME IsInjective(s), IsInjective(t), ToSet(s) \cap ToSet(t) = {} PROVE IsInjective(b)
  <2>1. \A i, j \in 1..m : s[i] = s[j] => i = j
    BY <1>2, <1>11 DEF IsInjective
  <2>2. \A i, j \in 1..n : t[i] = t[j] => i = j
    BY <1>2, <1>11 DEF IsInjective
  <2>3. \A i \in 1..m : \A j \in 1..n : s[i] # t[j]
    BY <1>4, <1>5, <1>11
  <2>4. ASSUME NEW i \in 1..(m + n), NEW j \in 1..(m + n), b[i] = b[j] PROVE i = j
    <3>1. CASE i \in 1..m /\ b[i] = s[i] /\ j \in 1..m /\ b[j] = s[j]
      BY <2>1, <2>4, <3>1
    <3>2. CASE i > m /\ i - m \in 1..n /\ b[i] = t[i - m] /\ j > m /\ j - m \in 1..n /\ b[j] = t[j - m]
      <4>1. i - m = j - m
        BY <2>2, <2>4, <3>2
      <4> QED BY <1>2, <4>1
    <3> QED BY <1>7, <2>3, <2>4, <3>1, <3>2
  <2> QED BY <1>3, <2>4 DEF IsInjective
<1> QED BY <1>1, <1>10, <1>11 DEF b

LEMMA Appended ==
  ASSUME NEW S, NEW s \in Seq(S), NEW x \in S
  PROVE  /\ Append(s, x) \in Seq(S) /\ ToSet(Append(s, x)) = ToSet(s) \cup {x}
         /\ Len(Append(s, x)) = Len(s) + 1
         /\ IsInjective(s) /\ x \notin ToSet(s) => IsInjective(Append(s, x))
<1> DEFINE t == <<x>>
<1>1. t \in Seq(S) /\ Append(s, x) = s \o t /\ Len(s \o t) = Len(s) + 1
  BY LenNat
<1>2. ToSet(t) = {x} /\ IsInjective(t)
  BY DEF ToSet, IsInjective
<1> HIDE DEF t
<1> QED BY <1>1, <1>2, Concat

LEMMA Single ==
  ASSUME NEW S, NEW x \in S
  PROVE  <<x>> \in Seq(S) /\ ToSet(<<x>>) = {x} /\ IsInjective(<<x>>) /\ <<x>> # <<>>
BY DEF ToSet, IsInjective

LEMMA EmptyInjective == IsInjective(<<>>)
BY DEF IsInjective

-----------------------------------------------------------------------------
(* Occurrences of a value in a sequence                                    *)

LEMMA OccursFinite ==
  ASSUME NEW S, NEW s \in Seq(S), NEW v
  PROVE  IsFiniteSet({j \in DOMAIN s : s[j] = v}) /\ Times(s, v) \in Nat
<1>1. Len(s) \in Nat /\ DOMAIN s = 1..Len(s)
  BY LenNat
<1>2. IsFiniteSet(1..Len(s))
  BY <1>1, FS_Interval
<1>3. {j \in DOMAIN s : s[j] = v} \subseteq 1..Len(s)
  BY <1>1
<1>4. IsFiniteSet({j \in DOMAIN s : s[j] = v})
  BY <1>2, <1>3, FS_Subset
<1> QED BY <1>4, FS_CardinalityType DEF Times

\* A value occurs in a sequence if it is a member of it.
LEMMA TimesMember ==
  ASSUME NEW S, NEW s \in Seq(S), NEW v
  PROVE  Times(s, v) \in Nat /\ (Times(s, v) > 0 <=> v \in ToSet(s))
<1> DEFINE P == {j \in DOMAIN s : s[j] = v}
<1>1. IsFiniteSet(P) /\ Times(s, v) \in Nat /\ Times(s, v) = Cardinality(P)
  BY OccursFinite DEF Times
<1>2. P = {} <=> v \notin ToSet(s)
  BY DEF ToSet
<1> HIDE DEF P
<1>3. Cardinality(P) = 0 <=> P = {}
  BY <1>1, FS_EmptySet
<1> QED BY <1>1, <1>2, <1>3

LEMMA TimesEmpty == \A v : Times(<<>>, v) = 0
<1> SUFFICES ASSUME NEW v PROVE Cardinality({j \in DOMAIN <<>> : <<>>[j] = v}) = 0
  BY DEF Times
<1>1. {j \in DOMAIN <<>> : <<>>[j] = v} = {}
  OBVIOUS
<1> QED BY <1>1, FS_EmptySet

LEMMA TimesOne == \A v, x : Times(<<x>>, v) = Unit(v = x)
<1> SUFFICES ASSUME NEW v, NEW x
             PROVE  Cardinality({j \in DOMAIN <<x>> : <<x>>[j] = v}) = IF v = x THEN 1 ELSE 0
  BY DEF Times, Unit
<1> DEFINE P == {j \in DOMAIN <<x>> : <<x>>[j] = v}
<1>1. v = x => P = {1}
  OBVIOUS
<1>2. v # x => P = {}
  OBVIOUS
<1> HIDE DEF P
<1>3. v = x => Cardinality(P) = 1
  BY <1>1, FS_Singleton
<1>4. v # x => Cardinality(P) = 0
  BY <1>2, FS_EmptySet
<1>5. Cardinality(P) = IF v = x THEN 1 ELSE 0
  BY <1>3, <1>4
<1> QED BY <1>5 DEF P

LEMMA TimesConcat ==
  ASSUME NEW S, NEW s \in Seq(S), NEW t \in Seq(S), NEW v
  PROVE  /\ Times(s \o t, v) = Times(s, v) + Times(t, v)
         /\ Times(s, v) \in Nat /\ Times(t, v) \in Nat
<1> DEFINE m == Len(s)
           A == {j \in DOMAIN s : s[j] = v}
           B == {j \in DOMAIN t : t[j] = v}
           D == {m + j : j \in B}
           b == s \o t
<1>1. /\ m \in Nat /\ Len(t) \in Nat /\ DOMAIN s = 1..m /\ DOMAIN t = 1..Len(t)
      /\ b \in Seq(S) /\ Len(b) = m + Len(t) /\ DOMAIN b = 1..(m + Len(t))
      /\ \A j \in 1..m : b[j] = s[j]
      /\ \A j \in 1..Len(t) : b[m + j] = t[j]
  BY LenNat
<1> HIDE DEF b, m
<1>2. A \subseteq 1..m /\ B \subseteq 1..Len(t)
  BY <1>1
<1>3. D \subseteq (m + 1)..(m + Len(t))
  BY <1>1, <1>2
<1>4. {j \in DOMAIN b : b[j] = v} = A \cup D
  <2>1. ASSUME NEW j \in DOMAIN b, b[j] = v PROVE j \in A \cup D
    <3>1. CASE j <= m
      <4>1. j \in 1..m
        BY <1>1, <3>1
      <4> QED BY <1>1, <2>1, <4>1
    <3>2. CASE ~(j <= m)
      <4>1. j - m \in 1..Len(t) /\ m + (j - m) = j
        BY <1>1, <3>2
      <4>2. t[j - m] = v
        BY <1>1, <2>1, <4>1
      <4>3. j - m \in B
        BY <1>1, <4>1, <4>2
      <4> QED BY <4>1, <4>3
    <3> QED BY <3>1, <3>2
  <2>2. ASSUME NEW j \in A PROVE j \in DOMAIN b /\ b[j] = v
    BY <1>1
  <2>3. ASSUME NEW k \in B PROVE m + k \in DOMAIN b /\ b[m + k] = v
    BY <1>1
  <2> QED BY <2>1, <2>2, <2>3
<1>5. A \cap D = {}
  BY <1>1, <1>2, <1>3
<1>6. IsFiniteSet(A) /\ Cardinality(A) \in Nat /\ IsFiniteSet(B) /\ Cardinality(B) \in Nat
  BY OccursFinite, FS_CardinalityType
<1>7. IsFiniteSet(D) /\ Cardinality(D) = Cardinality(B)
  <2> DEFINE f == [j \in B |-> m + j]
  <2>1. f \in [B -> D]
    OBVIOUS
  <2>2. \A j, k \in B : f[j] = f[k] => j = k
    BY <1>1, <1>2
  <2>3. \A d \in D : \E j \in B : f[j] = d
    OBVIOUS
  <2> HIDE DEF f, B, D
  <2>4. f \in Surjection(B, D)
    BY <2>1, <2>3 DEF Surjection
  <2>5. f \in Injection(B, D)
    BY <2>1, <2>2 DEF Injection, IsInjective
  <2>6. ExistsBijection(B, D)
    BY <2>4, <2>5 DEF ExistsBijection, Bijection
  <2> QED BY <1>6, <2>6, FS_Bijection
<1>8. Times(s, v) = Cardinality(A) /\ Times(t, v) = Cardinality(B)
  BY DEF Times
<1>9. Times(b, v) = Cardinality(A \cup D)
  BY <1>4 DEF Times
<1> HIDE DEF A, B, D
<1>10. Cardinality(A \cup D) = Cardinality(A) + Cardinality(D) - Cardinality(A \cap D)
  BY <1>6, <1>7, FS_Union
<1>11. Cardinality(A \cap D) = 0
  BY <1>5, FS_EmptySet
<1>12. Cardinality(A \cup D) = Cardinality(A) + Cardinality(B)
  BY <1>6, <1>7, <1>10, <1>11
<1> QED BY <1>6, <1>8, <1>9, <1>12 DEF b

LEMMA TimesAppend ==
  ASSUME NEW S, NEW s \in Seq(S), NEW x \in S, NEW v
  PROVE  Times(Append(s, x), v) = Times(s, v) + Unit(v = x) /\ Times(s, v) \in Nat
<1>1. Append(s, x) = s \o <<x>> /\ <<x>> \in Seq(S)
  OBVIOUS
<1>2. Times(s \o <<x>>, v) = Times(s, v) + Times(<<x>>, v) /\ Times(s, v) \in Nat
  BY <1>1, TimesConcat
<1> QED BY <1>1, <1>2, TimesOne

LEMMA TimesTail ==
  ASSUME NEW S, NEW s \in Seq(S), s # <<>>, NEW v
  PROVE  Times(s, v) = Times(Tail(s), v) + Unit(v = Head(s)) /\ Times(Tail(s), v) \in Nat
<1> DEFINE h == <<Head(s)>>
           t == Tail(s)
<1>1. Head(s) \in S /\ t \in Seq(S) /\ h \in Seq(S)
  BY HeadTail
<1>2. h \o t = s
  BY EmptySeq
<1> HIDE DEF h, t
<1>3. Times(h \o t, v) = Times(h, v) + Times(t, v) /\ Times(h, v) \in Nat /\ Times(t, v) \in Nat
  BY <1>1, TimesConcat
<1>4. Times(h, v) = Unit(v = Head(s))
  BY TimesOne DEF h
<1>5. Times(s, v) = Times(t, v) + Unit(v = Head(s))
  BY <1>2, <1>3, <1>4
<1> QED BY <1>3, <1>5 DEF t

LEMMA Removed ==
  ASSUME NEW S, NEW s \in Seq(S), NEW k \in 1..Len(s)
  PROVE  /\ RemoveAt(s, k) \in Seq(S) /\ Len(RemoveAt(s, k)) = Len(s) - 1
         /\ s[k] \in S /\ s[k] \in ToSet(s)
         /\ ToSet(s) = ToSet(RemoveAt(s, k)) \cup {s[k]}
         /\ \A v : /\ Times(s, v) = Times(RemoveAt(s, k), v) + Unit(v = s[k])
                   /\ Times(RemoveAt(s, k), v) \in Nat
<1> DEFINE n == Len(s)
           a == SubSeq(s, 1, k - 1)
           x == <<s[k]>>
           c == SubSeq(s, k + 1, n)
<1>1. n \in Nat /\ k \in Nat /\ 1 <= k /\ k <= n /\ \A i \in 1..n : s[i] \in S
  BY LenNat
<1>2. a \in Seq(S) /\ Len(a) = k - 1 /\ \A i \in 1..(k - 1) : a[i] = s[i]
  BY <1>1
<1>3. c \in Seq(S) /\ Len(c) = n - k /\ \A i \in 1..(n - k) : c[i] = s[k + i]
  <2>1. \A i \in (k + 1)..n : s[i] \in S
    BY <1>1
  <2>2. k + 1 \in Int /\ n \in Int
    BY <1>1
  <2> HIDE DEF n, c
  <2>3. /\ SubSeq(s, k + 1, n) \in Seq(S)
        /\ Len(SubSeq(s, k + 1, n)) = (IF k + 1 <= n THEN n - (k + 1) + 1 ELSE 0)
        /\ \A i \in 1..(n - (k + 1) + 1) : SubSeq(s, k + 1, n)[i] = s[(k + 1) + i - 1]
    BY <2>1, <2>2, SubSeqProperties
  <2>4. ASSUME NEW i \in 1..(n - k) PROVE c[i] = s[k + i]
    <3>1. i \in 1..(n - (k + 1) + 1) /\ (k + 1) + i - 1 = k + i
      BY <1>1
    <3> QED BY <2>3, <3>1 DEF c
  <2>5. Len(c) = n - k
    BY <1>1, <2>3 DEF c
  <2> QED BY <2>3, <2>4, <2>5 DEF c
<1>4. x \in Seq(S) /\ Len(x) = 1 /\ x[1] = s[k]
  BY <1>1
<1>5. RemoveAt(s, k) = a \o c
  BY DEF RemoveAt
<1> HIDE DEF a, x, c, n
<1>6. (a \o x) \in Seq(S) /\ (a \o x) \o c \in Seq(S) /\ a \o c \in Seq(S) /\ Len(a \o c) = n - 1
  <2>1. a \o x \in Seq(S)
    BY <1>2, <1>4, Concat
  <2>2. (a \o x) \o c \in Seq(S)
    BY <1>3, <2>1, Concat
  <2>3. a \o c \in Seq(S) /\ Len(a \o c) = Len(a) + Len(c)
    <3>1. a \in Seq(S) /\ c \in Seq(S)
      BY <1>2, <1>3
    <3> QED BY <3>1, ConcatProperties
  <2> QED BY <1>1, <1>2, <1>3, <2>1, <2>2, <2>3
<1>7. (a \o x) \o c = s
  <2>0. /\ Len(a \o x) = Len(a) + Len(x)
        /\ \A i \in 1..(Len(a) + Len(x)) : (a \o x)[i] = IF i <= Len(a) THEN a[i] ELSE x[i - Len(a)]
    <3>1. a \in Seq(S) /\ x \in Seq(S)
      BY <1>2, <1>4
    <3> QED BY <3>1, ConcatProperties
  <2>1. /\ Len(a \o x) = k
        /\ \A i \in 1..k : (a \o x)[i] = IF i <= k - 1 THEN a[i] ELSE x[i - (k - 1)]
    <3>1. Len(a) = k - 1 /\ Len(a) + Len(x) = k
      BY <1>1, <1>2, <1>4
    <3> QED BY <2>0, <3>1
  <2>2. \A i \in 1..k : (a \o x)[i] = s[i]
    <3> SUFFICES ASSUME NEW i \in 1..k PROVE (a \o x)[i] = s[i]
      OBVIOUS
    <3>1. CASE i <= k - 1
      <4>1. i \in 1..(k - 1)
        BY <1>1, <3>1
      <4> QED BY <1>2, <2>1, <3>1, <4>1
    <3>2. CASE i = k
      <4>1. ~(i <= k - 1) /\ i - (k - 1) = 1
        BY <1>1, <3>2
      <4> QED BY <1>4, <2>1, <3>2, <4>1
    <3>3. i <= k - 1 \/ i = k
      BY <1>1
    <3> QED BY <3>1, <3>2, <3>3
  <2> DEFINE y == a \o x
  <2> HIDE DEF y
  <2>3. y \in Seq(S) /\ Len(y) = k /\ \A i \in 1..k : y[i] = s[i]
    BY <1>6, <2>1, <2>2 DEF y
  <2>8. /\ Len(y \o c) = Len(y) + Len(c) /\ y \o c \in Seq(S)
        /\ \A i \in 1..(Len(y) + Len(c)) : (y \o c)[i] = IF i <= Len(y) THEN y[i] ELSE c[i - Len(y)]
    <3>1. c \in Seq(S) /\ y \in Seq(S)
      BY <1>3, <2>3
    <3> QED BY <3>1, ConcatProperties
  <2>4. /\ Len(y \o c) = n /\ y \o c \in Seq(S)
        /\ \A i \in 1..n : (y \o c)[i] = IF i <= k THEN y[i] ELSE c[i - k]
    <3>1. Len(y) = k /\ Len(y) + Len(c) = n
      BY <1>1, <1>3, <2>3
    <3> QED BY <2>8, <3>1
  <2>5. \A i \in 1..n : (y \o c)[i] = s[i]
    <3> SUFFICES ASSUME NEW i \in 1..n PROVE (y \o c)[i] = s[i]
      OBVIOUS
    <3>1. CASE i <= k
      <4>1. i \in 1..k
        BY <1>1, <3>1
      <4> QED BY <2>3, <2>4, <3>1, <4>1
    <3>2. CASE ~(i <= k)
      <4>1. i - k \in 1..(n - k) /\ k + (i - k) = i
        BY <1>1, <3>2
      <4>2. c[i - k] = s[i]
        BY <1>3, <4>1
      <4> QED BY <2>4, <3>2, <4>2
    <3> QED BY <3>1, <3>2
  <2>6. Len(s) = n
    BY DEF n
  <2>7. y \o c = s
    BY <2>4, <2>5, <2>6, SeqEqual
  <2> QED BY <2>7 DEF y
<1>8. ToSet(s) = ToSet(a) \cup ToSet(x) \cup ToSet(c) /\ ToSet(a \o c) = ToSet(a) \cup ToSet(c)
  <2>1. ToSet(a \o x) = ToSet(a) \cup ToSet(x)
    BY <1>2, <1>4, Concat
  <2>2. ToSet((a \o x) \o c) = ToSet(a \o x) \cup ToSet(c)
    BY <1>3, <1>6, Concat
  <2>3. ToSet(a \o c) = ToSet(a) \cup ToSet(c)
    BY <1>2, <1>3, Concat
  <2> QED BY <1>7, <2>1, <2>2, <2>3
<1>9. ToSet(x) = {s[k]}
  BY DEF x, ToSet
<1>10. s[k] \in S /\ s[k] \in ToSet(s) /\ ToSet(s) = ToSet(RemoveAt(s, k)) \cup {s[k]}
  BY <1>1, <1>5, <1>8, <1>9
<1>11. ASSUME NEW v
       PROVE  Times(s, v) = Times(a \o c, v) + Unit(v = s[k]) /\ Times(a \o c, v) \in Nat
  <2>1. Times(a \o x, v) = Times(a, v) + Times(x, v) /\ Times(a, v) \in Nat /\ Times(x, v) \in Nat
    BY <1>2, <1>4, TimesConcat
  <2>2. Times((a \o x) \o c, v) = Times(a \o x, v) + Times(c, v) /\ Times(c, v) \in Nat
    <3> DEFINE y == a \o x
    <3>1. y \in Seq(S)
      BY <1>6
    <3> HIDE DEF y
    <3>2. Times(y \o c, v) = Times(y, v) + Times(c, v) /\ Times(c, v) \in Nat
      BY <1>3, <3>1, TimesConcat
    <3> QED BY <3>2 DEF y
  <2>3. Times(a \o c, v) = Times(a, v) + Times(c, v)
    BY <1>2, <1>3, TimesConcat
  <2>4. Times(x, v) = Unit(v = s[k])
    BY TimesOne DEF x
  <2>5. Times(s, v) = Times(a, v) + Times(x, v) + Times(c, v)
    BY <1>7, <2>1, <2>2
  <2> HIDE DEF x
  <2> QED BY <2>1, <2>2, <2>3, <2>4, <2>5
<1>12. RemoveAt(s, k) \in Seq(S) /\ Len(RemoveAt(s, k)) = Len(s) - 1
  BY <1>5, <1>6 DEF n
<1>13. \A v : /\ Times(s, v) = Times(RemoveAt(s, k), v) + Unit(v = s[k])
              /\ Times(RemoveAt(s, k), v) \in Nat
  BY <1>5, <1>11
<1> QED BY <1>10, <1>12, <1>13

-----------------------------------------------------------------------------
(* References from a set of values                                         *)

\* What the elements of the values are, to the lemmas that follow.
Graph(e) == e \in [Values -> Seq(Values)] /\ \A v \in Values : Len(e[v]) <= MaxElems

LEMMA RefsType ==
  ASSUME NEW e, Graph(e), NEW S, S \subseteq Values, NEW v
  PROVE  /\ IsFiniteSet(RefSet(e, S, v)) /\ Refs(e, S, v) \in Nat
         /\ Refs(e, S, v) > 0 <=> \E u \in S : v \in ToSet(e[u])
<1> DEFINE P == S \X (1..MaxElems)
           R == RefSet(e, S, v)
<1>1. IsFiniteSet(S)
  BY ValuesAssumption, FS_Subset
<1>2. IsFiniteSet(1..MaxElems)
  <2>1. 1 \in Int /\ MaxElems \in Int
    BY BoundsAssumption
  <2> QED BY <2>1, FS_Interval
<1>3. IsFiniteSet(P)
  BY <1>1, <1>2, FS_Product
<1>4. R \subseteq P
  BY DEF RefSet
<1>5. IsFiniteSet(R) /\ Cardinality(R) \in Nat
  BY <1>3, <1>4, FS_Subset, FS_CardinalityType
<1>6. R # {} => \E u \in S : v \in ToSet(e[u])
  BY DEF RefSet, ToSet
<1>7. ASSUME NEW u \in S, v \in ToSet(e[u]) PROVE R # {}
  <2>1. e[u] \in Seq(Values) /\ Len(e[u]) <= MaxElems
    BY DEF Graph
  <2>2. PICK i \in 1..Len(e[u]) : e[u][i] = v
    BY <1>7, <2>1, Member
  <2>3. i \in DOMAIN e[u] /\ i \in 1..MaxElems
    BY <2>1, LenNat, BoundsAssumption
  <2>4. <<u, i>> \in R
    BY <2>2, <2>3 DEF RefSet
  <2> QED BY <2>4
<1> HIDE DEF R
<1>8. Cardinality(R) = 0 <=> R = {}
  BY <1>5, FS_EmptySet
<1>9. Cardinality(R) > 0 <=> \E u \in S : v \in ToSet(e[u])
  BY <1>5, <1>6, <1>7, <1>8
<1> QED BY <1>5, <1>9 DEF R, Refs

LEMMA RefsSame ==
  ASSUME NEW e, NEW f, NEW S, NEW v, \A u \in S : e[u] = f[u]
  PROVE  Refs(e, S, v) = Refs(f, S, v)
<1>1. RefSet(e, S, v) = RefSet(f, S, v)
  BY DEF RefSet
<1> QED BY <1>1 DEF Refs

\* One value more: its references are those that it holds.
LEMMA RefsMore ==
  ASSUME NEW e, Graph(e), NEW S, S \subseteq Values, NEW x \in Values, x \notin S, NEW v
  PROVE  /\ Refs(e, S \cup {x}, v) = Refs(e, S, v) + Times(e[x], v)
         /\ Refs(e, S, v) \in Nat /\ Times(e[x], v) \in Nat
<1> DEFINE A == RefSet(e, S, v)
           B == RefSet(e, {x}, v)
           I == {j \in DOMAIN e[x] : e[x][j] = v}
<1>1. e[x] \in Seq(Values) /\ Len(e[x]) <= MaxElems /\ DOMAIN e[x] = 1..Len(e[x]) /\ Len(e[x]) \in Nat
  BY LenNat DEF Graph
<1>2. RefSet(e, S \cup {x}, v) = A \cup B
  BY DEF RefSet
<1>3. A \cap B = {}
  BY DEF RefSet
<1>4. \A j \in I : j \in 1..MaxElems
  BY <1>1, BoundsAssumption
<1>5. B = {x} \X I
  BY <1>4 DEF RefSet
<1>6. IsFiniteSet(A) /\ Refs(e, S, v) \in Nat /\ Refs(e, S, v) = Cardinality(A)
  BY RefsType DEF Refs
<1>7. IsFiniteSet(I) /\ Times(e[x], v) \in Nat /\ Times(e[x], v) = Cardinality(I)
  BY <1>1, OccursFinite DEF Times
<1> HIDE DEF A, B, I
<1>8. IsFiniteSet({x}) /\ Cardinality({x}) = 1
  BY FS_Singleton
<1>9. IsFiniteSet(B) /\ Cardinality(B) = Cardinality({x}) * Cardinality(I)
  BY <1>5, <1>7, <1>8, FS_Product
<1>10. Cardinality(B) = Cardinality(I)
  BY <1>7, <1>8, <1>9
<1>11. Cardinality(A \cup B) = Cardinality(A) + Cardinality(B) - Cardinality(A \cap B)
  BY <1>6, <1>9, FS_Union
<1>12. Cardinality(A \cap B) = 0
  BY <1>3, FS_EmptySet
<1>13. Cardinality(A \cup B) = Cardinality(A) + Cardinality(I)
  BY <1>6, <1>7, <1>10, <1>11, <1>12
<1> QED BY <1>2, <1>6, <1>7, <1>13 DEF Refs

\* One value changes what it references.
LEMMA RefsChanged ==
  ASSUME NEW e, Graph(e), NEW f, Graph(f), NEW S, S \subseteq Values, NEW x \in S,
         \A u \in S \ {x} : e[u] = f[u], NEW v
  PROVE  /\ Refs(f, S, v) + Times(e[x], v) = Refs(e, S, v) + Times(f[x], v)
         /\ {Refs(f, S, v), Refs(e, S, v), Times(e[x], v), Times(f[x], v)} \subseteq Nat
<1> DEFINE T == S \ {x}
<1>1. T \subseteq Values /\ x \in Values /\ x \notin T /\ T \cup {x} = S
  OBVIOUS
<1> HIDE DEF T
<1>2. /\ Refs(e, T \cup {x}, v) = Refs(e, T, v) + Times(e[x], v)
      /\ Refs(e, T, v) \in Nat /\ Times(e[x], v) \in Nat
  BY <1>1, RefsMore
<1>3. /\ Refs(f, T \cup {x}, v) = Refs(f, T, v) + Times(f[x], v)
      /\ Refs(f, T, v) \in Nat /\ Times(f[x], v) \in Nat
  BY <1>1, RefsMore
<1>4. Refs(e, T, v) = Refs(f, T, v)
  BY RefsSame DEF T
<1>5. Refs(e, S, v) \in Nat /\ Refs(f, S, v) \in Nat
  BY RefsType
<1> QED BY <1>1, <1>2, <1>3, <1>4, <1>5

-----------------------------------------------------------------------------
(* Sequences made of sets, and the children of a value                     *)

LEMMA Listed ==
  ASSUME NEW S, IsFiniteSet(S)
  PROVE  SetToSeq(S) \in Seq(S) /\ IsInjective(SetToSeq(S)) /\ ToSet(SetToSeq(S)) = S
<1> DEFINE n == Cardinality(S)
           q == SetToSeq(S)
<1>1. n \in Nat /\ ExistsBijection(1..n, S)
  BY FS_CardinalityType
<1>2. PICK f : f \in Bijection(1..n, S)
  BY <1>1 DEF ExistsBijection
<1>3. f \in [1..n -> S] /\ IsInjective(f)
  BY <1>2 DEF Bijection, Injection
<1>4. q \in [1..n -> S] /\ IsInjective(q)
  BY <1>3 DEF SetToSeq
<1> HIDE DEF n, q
<1>5. q \in Injection(1..n, S)
  BY <1>4 DEF Injection
<1>6. Cardinality(1..n) = n
  <2>1. 1 \in Int /\ n \in Int
    BY <1>1
  <2>2. Cardinality(1..n) = IF 1 > n THEN 0 ELSE n - 1 + 1
    BY <2>1, FS_Interval
  <2> QED BY <1>1, <2>2
<1>7. q \in Surjection(1..n, S)
  BY <1>5, <1>6, FS_Injection DEF n
<1>8. ToSet(q) = S
  BY <1>4, <1>7 DEF Surjection, ToSet
<1>9. q \in Seq(S)
  BY <1>1, <1>4, SeqDef
<1> QED BY <1>4, <1>8, <1>9 DEF q

\* The position of an index among those of a set numbers the set from 1.
LEMMA Numbered ==
  ASSUME NEW I, IsFiniteSet(I), I \subseteq Nat
  PROVE  \A n \in 1..Cardinality(I) : \E i \in I : Cardinality({j \in I : j <= i}) = n
<1> DEFINE B(i) == {j \in I : j <= i}
           m == Cardinality(I)
           g == [i \in I |-> Cardinality(B(i))]
<1>1. m \in Nat
  BY FS_CardinalityType
<1>2. \A i \in I : IsFiniteSet(B(i)) /\ Cardinality(B(i)) \in Nat /\ Cardinality(B(i)) <= m
  <2> SUFFICES ASSUME NEW i \in I
               PROVE  IsFiniteSet(B(i)) /\ Cardinality(B(i)) \in Nat /\ Cardinality(B(i)) <= m
    OBVIOUS
  <2>1. B(i) \in SUBSET I
    OBVIOUS
  <2>2. IsFiniteSet(B(i)) /\ Cardinality(B(i)) <= m
    BY <2>1, FS_Subset
  <2> QED BY <2>2, FS_CardinalityType
<1>3. \A i \in I : Cardinality(B(i)) # 0
  <2> SUFFICES ASSUME NEW i \in I PROVE Cardinality(B(i)) # 0
    OBVIOUS
  <2>1. i \in B(i)
    OBVIOUS
  <2>2. B(i) # {}
    BY <2>1
  <2> HIDE DEF B
  <2> QED BY <1>2, <2>2, FS_EmptySet
<1>4. \A i \in I : g[i] \in 1..m
  BY <1>1, <1>2, <1>3
<1>5. ASSUME NEW i \in I, NEW k \in I, i < k PROVE g[i] # g[k]
  <2>0. i \in Nat /\ k \in Nat
    OBVIOUS
  <2>1. B(i) \in SUBSET B(k)
    <3>1. \A j \in I : j \in Nat
      OBVIOUS
    <3>2. \A j \in I : j <= i => j <= k
      BY <1>5, <2>0, <3>1
    <3> QED BY <3>2
  <2>2. k \in B(k) /\ k \notin B(i)
    <3>1. k <= k /\ ~(k <= i)
      BY <1>5, <2>0
    <3> QED BY <3>1
  <2>3. B(i) # B(k)
    BY <2>2
  <2> HIDE DEF B
  <2>4. Cardinality(B(i)) # Cardinality(B(k))
    BY <1>2, <2>1, <2>3, FS_Subset
  <2> QED BY <2>4
<1>6. \A i, k \in I : g[i] = g[k] => i = k
  <2> SUFFICES ASSUME NEW i \in I, NEW k \in I, g[i] = g[k] PROVE i = k
    OBVIOUS
  <2> HIDE DEF g
  <2>1. i \in Nat /\ k \in Nat
    OBVIOUS
  <2> QED BY <1>5, <2>1
<1>7. g \in [I -> 1..m] /\ DOMAIN g = I
  BY <1>4
<1> HIDE DEF g, m
<1>8. g \in Injection(I, 1..m)
  BY <1>6, <1>7 DEF Injection, IsInjective
<1>9. IsFiniteSet(1..m) /\ Cardinality(1..m) = m
  <2>1. 1 \in Int /\ m \in Int
    BY <1>1
  <2>2. IsFiniteSet(1..m) /\ Cardinality(1..m) = IF 1 > m THEN 0 ELSE m - 1 + 1
    BY <2>1, FS_Interval
  <2> QED BY <1>1, <2>2
<1>10. Cardinality(I) = Cardinality(1..m)
  BY <1>9 DEF m
<1>11. g \in Surjection(I, 1..m)
  BY <1>8, <1>9, <1>10, FS_Injection
<1>12. \A n \in 1..m : \E i \in I : g[i] = n
  BY <1>11 DEF Surjection
<1> QED BY <1>12 DEF g, m

\* The children of a value are the members of Objects that it references.
LEMMA Children ==
  ASSUME elems \in [Values -> Seq(Values)], NEW v \in Values
  PROVE  /\ CyclicChildren(v) \in Seq(Objects)
         /\ ToSet(CyclicChildren(v)) = ToSet(elems[v]) \cap Objects
<1> DEFINE e == elems[v]
           I == {i \in DOMAIN e : e[i] \in Objects}
           m == Cardinality(I)
           Nth(n) == CHOOSE i \in I : Cardinality({j \in I : j <= i}) = n
           q == [n \in 1..m |-> e[Nth(n)]]
<1>1. e \in Seq(Values) /\ DOMAIN e = 1..Len(e) /\ Len(e) \in Nat
  BY LenNat
<1>2. I \subseteq 1..Len(e) /\ I \subseteq Nat
  BY <1>1
<1>3. IsFiniteSet(I)
  <2>1. 1 \in Int /\ Len(e) \in Int
    BY <1>1
  <2>2. IsFiniteSet(1..Len(e))
    BY <2>1, FS_Interval
  <2> HIDE DEF I
  <2> QED BY <1>2, <2>2, FS_Subset
<1>4. m \in Nat
  BY <1>3, FS_CardinalityType
<1>5. \A n \in 1..m : \E i \in I : Cardinality({j \in I : j <= i}) = n
  <2> HIDE DEF I
  <2> QED BY <1>2, <1>3, Numbered
<1>6. \A n \in 1..m : Nth(n) \in I /\ Cardinality({j \in I : j <= Nth(n)}) = n
  <2> HIDE DEF I
  <2> QED BY <1>5
<1>7. \A n \in 1..m : e[Nth(n)] \in Objects
  <2> HIDE DEF Nth
  <2> QED BY <1>6
<1>8. CyclicChildren(v) = q
  BY DEF CyclicChildren
<1> HIDE DEF m
<1>9. q \in [1..m -> Objects]
  <2> HIDE DEF Nth, e
  <2> QED BY <1>7
<1>10. q \in Seq(Objects)
  <2> HIDE DEF q
  <2> QED BY <1>4, <1>9, SeqDef
<1>11. \A i \in I : \E n \in 1..m : Nth(n) = i
  <2> DEFINE a == [n \in 1..m |-> Nth(n)]
  <2> HIDE DEF Nth
  <2>1. a \in [1..m -> I] /\ \A n, k \in 1..m : a[n] = a[k] => n = k
    <3> HIDE DEF I
    <3>1. \A n, k \in 1..m : Nth(n) = Nth(k) => n = k
      BY <1>6
    <3> QED BY <1>6, <3>1
  <2>2. DOMAIN a = 1..m
    OBVIOUS
  <2>3. \A n \in 1..m : a[n] = Nth(n)
    OBVIOUS
  <2> HIDE DEF a
  <2>4. a \in Injection(1..m, I)
    BY <2>1, <2>2 DEF Injection, IsInjective
  <2>5. Cardinality(1..m) = Cardinality(I)
    <3>1. 1 \in Int /\ m \in Int
      BY <1>4
    <3>2. Cardinality(1..m) = IF 1 > m THEN 0 ELSE m - 1 + 1
      BY <3>1, FS_Interval
    <3> QED BY <1>4, <3>2 DEF m
  <2>6. a \in Surjection(1..m, I)
    <3> HIDE DEF I
    <3> QED BY <1>3, <2>4, <2>5, FS_Injection
  <2>7. \A i \in I : \E n \in 1..m : a[n] = i
    BY <2>6 DEF Surjection
  <2> QED BY <2>3, <2>7
<1>12. \A x : x \in ToSet(q) <=> \E n \in 1..m : e[Nth(n)] = x
  <2> HIDE DEF Nth, e
  <2> QED BY DEF ToSet
<1>13. \A x : x \in ToSet(e) <=> \E i \in DOMAIN e : e[i] = x
  BY DEF ToSet
<1>14. ToSet(q) = ToSet(e) \cap Objects
  <2> HIDE DEF Nth, e, q
  <2>1. \A i \in I : i \in DOMAIN e /\ e[i] \in Objects
    OBVIOUS
  <2>2. \A i \in DOMAIN e : e[i] \in Objects => i \in I
    OBVIOUS
  <2> HIDE DEF I
  <2>3. \A x \in ToSet(q) : x \in ToSet(e) \cap Objects
    BY <1>6, <1>12, <1>13, <2>1
  <2>4. \A x \in ToSet(e) \cap Objects : x \in ToSet(q)
    BY <1>11, <1>12, <1>13, <2>2
  <2> QED BY <2>3, <2>4
<1> QED BY <1>8, <1>10, <1>14

-----------------------------------------------------------------------------
(* What the invariant says of a value that is referenced                   *)

LEMMA Sorts ==
  /\ Null \notin Values /\ Objects \subseteq Values /\ Leaves \subseteq Values
  /\ \A v : v \in Values <=> v \in Objects \/ v \in Leaves
  /\ \A v : ~(v \in Objects /\ v \in Leaves)
  /\ IsFiniteSet(Values) /\ MaxElems \in Nat /\ Threshold \in Nat /\ Threshold > 0
BY ValuesAssumption, BoundsAssumption DEF Values

\* The parts of the invariant about single values, for any module that needs them.
LEMMA Shape ==
  ASSUME Types
  PROVE  /\ Graph(elems)
         /\ \A v \in Values : /\ elems[v] \in Seq(Values) /\ ToSet(elems[v]) \subseteq Values
                              /\ count[v] \in Nat /\ color[v] \in Colors
         /\ \A v \in Leaves : elems[v] = <<>> /\ ToSet(elems[v]) = {}
         /\ Gray \subseteq Objects /\ White \subseteq Objects
         /\ \A v \in Values : /\ ToSet(CyclicChildren(v)) = ToSet(elems[v]) \cap Objects
                              /\ CyclicChildren(v) \in Seq(Objects)
         /\ kids \in Seq(Values) /\ dying \in Seq(Objects) /\ garbage \in Seq(Objects)
<1>1. TypeOK /\ elems \in [Values -> Seq(Values)]
  BY DEF Types, TypeOK
<1>2. Graph(elems)
  BY <1>1 DEF Types, Graph
<1>3. \A v \in Values : elems[v] \in Seq(Values)
  BY <1>1
<1>4. \A v \in Values : ToSet(elems[v]) \subseteq Values
  BY <1>3, Member
<1>5. \A v \in Leaves : elems[v] = <<>> /\ ToSet(elems[v]) = {}
  BY ToSetEmpty DEF Types
<1>6. Gray \subseteq Objects /\ White \subseteq Objects
  BY Sorts DEF Types, Gray, White, Colored
<1>7. \A v \in Values : /\ ToSet(CyclicChildren(v)) = ToSet(elems[v]) \cap Objects
                        /\ CyclicChildren(v) \in Seq(Objects)
  BY <1>1, Children
<1>8. \A v \in Values : count[v] \in Nat /\ color[v] \in Colors
  BY <1>1 DEF TypeOK
<1>9. kids \in Seq(Values) /\ dying \in Seq(Objects) /\ garbage \in Seq(Objects)
  BY <1>1 DEF TypeOK
<1> QED BY <1>2, <1>3, <1>4, <1>5, <1>6, <1>7, <1>8, <1>9

\* A value has a count exactly when something that is counted references it.
LEMMA Counted ==
  ASSUME Types, Counts, NEW v \in Values
  PROVE  count[v] > 0 <=> \/ v \in local \/ v \in ToSet(kids)
                          \/ \E u \in Values \ Out(v) : v \in ToSet(elems[u])
<1> DEFINE R == Refs(elems, Values \ Out(v), v)
           K == Times(kids, v)
<1>1. Graph(elems) /\ kids \in Seq(Values)
  BY Shape
<1>2. R \in Nat /\ (R > 0 <=> \E u \in Values \ Out(v) : v \in ToSet(elems[u]))
  <2>1. Values \ Out(v) \subseteq Values
    OBVIOUS
  <2> QED BY <1>1, <2>1, RefsType
<1>3. K \in Nat /\ (K > 0 <=> v \in ToSet(kids))
  BY <1>1, TimesMember
<1>4. count[v] = Unit(v \in local) + R + K
  BY DEF Counts, Expected
<1> HIDE DEF R, K
<1>5. CASE v \in local
  <2>1. Unit(v \in local) = 1
    BY <1>5 DEF Unit
  <2>2. count[v] > 0
    BY <1>2, <1>3, <1>4, <2>1
  <2> QED BY <1>5, <2>2
<1>6. CASE v \notin local
  <2>1. Unit(v \in local) = 0
    BY <1>6 DEF Unit
  <2>2. count[v] > 0 <=> R > 0 \/ K > 0
    BY <1>2, <1>3, <1>4, <2>1
  <2> QED BY <1>2, <1>3, <1>6, <2>2
<1> QED BY <1>5, <1>6

\* So it is alive, and no part of what has no count.
LEMMA Live ==
  ASSUME Types, Counts, Zero, NEW v \in Values, count[v] > 0
  PROVE  /\ v \in Alive /\ v \notin ToSet(dying) /\ v # cur /\ v \notin White
         /\ v \notin ToSet(garbage) /\ ~freed[v] /\ ~dead[v]
<1>1. count[v] # 0 /\ v # Null
  BY Sorts
<1> QED BY <1>1 DEF Zero, Alive, Gone, White, Colored

\* What the program holds is alive, and so is what a counted value references.
LEMMA Held ==
  ASSUME Types, Counts, Zero
  PROVE  /\ \A v \in local : v \in Values /\ v \in Alive /\ count[v] > 0 /\ ~freed[v] /\ ~dead[v]
         /\ \A v \in ToSet(kids) : v \in Values /\ v \in Alive /\ count[v] > 0
<1>1. local \subseteq Values
  BY DEF Types, TypeOK
<1>2. ToSet(kids) \subseteq Values
  BY Shape, Member
<1>3. \A v \in local \cup ToSet(kids) : v \in Values /\ count[v] > 0
  BY <1>1, <1>2, Counted
<1> QED BY <1>3, Live

\* Between operations: all that is alive is counted, and references what is alive.
LEMMA AtRest ==
  ASSUME IInv, pc \in {"code", "release"}
  PROVE  /\ \A v \in Values : Out(v) = Gone \cup {cur}
         /\ Gray = {} /\ White = {} /\ ToSet(garbage) = {} /\ ToSet(black) = {} /\ ToSet(stack) = {}
<1>1. Colored("gray") = {} /\ Colored("white") = {} /\ black = <<>> /\ garbage = <<>> /\ stack = <<>>
  BY DEF IInv, Phases
<1>2. Trial = {} /\ Apart = Gone \cup {cur}
  BY <1>1, ToSetEmpty DEF Trial, Apart
<1> QED BY <1>1, <1>2, ToSetEmpty DEF Out, Gray, White

LEMMA CodeFacts ==
  ASSUME IInv, pc = "code"
  PROVE  /\ \A v \in Values : Values \ Out(v) = Alive
         /\ \A v \in Values : count[v] = Unit(v \in local) + Refs(elems, Alive, v)
         /\ kids = <<>> /\ cur = Null /\ dying = <<>> /\ ~due
         /\ \A v \in Alive : ToSet(elems[v]) \subseteq Alive /\ count[v] > 0
<1>1. kids = <<>> /\ cur = Null /\ dying = <<>> /\ ~due
  BY DEF IInv, Phases
<1>2. \A v \in Values : Values \ Out(v) = Alive
  BY <1>1, AtRest, Sorts DEF Alive
<1>3. ASSUME NEW v \in Values PROVE count[v] = Unit(v \in local) + Refs(elems, Alive, v)
  <2>1. count[v] = Unit(v \in local) + Refs(elems, Alive, v) + Times(kids, v)
    BY <1>2 DEF IInv, Counts, Expected
  <2>2. Times(kids, v) = 0
    BY <1>1, TimesEmpty
  <2>3. Refs(elems, Alive, v) \in Nat
    BY Shape, RefsType DEF IInv, Alive
  <2>4. Unit(v \in local) \in Nat
    BY DEF Unit
  <2> QED BY <2>1, <2>2, <2>3, <2>4
<1>4. ASSUME NEW v \in Alive, NEW w \in ToSet(elems[v]) PROVE w \in Alive
  <2>1. v \in Values /\ w \in Values
    BY Shape DEF Alive, IInv
  <2>2. v \in Values \ Out(w)
    BY <1>2, <2>1
  <2>3. count[w] > 0
    BY <2>1, <2>2, Counted DEF IInv
  <2> QED BY <2>1, <2>3, Live DEF IInv
<1>5. ASSUME NEW v \in Alive PROVE count[v] > 0
  <2>1. v \in Values /\ count[v] \in Nat
    BY Shape DEF Alive, IInv
  <2>2. v \notin ToSet(dying) /\ v # cur /\ color[v] \notin {"gray", "white"} /\ v \notin ToSet(garbage)
    BY <1>1, <2>1, AtRest, ToSetEmpty, Sorts DEF Gray, White, Colored
  <2>3. count[v] # 0
    BY <2>2 DEF IInv, NonZero
  <2> QED BY <2>1, <2>3
<1> QED BY <1>1, <1>2, <1>3, <1>4, <1>5

-----------------------------------------------------------------------------
(* The operations of the program                                           *)

LEMMA NewStep == ASSUME IInv, New PROVE IInv'
<1>1. PICK v \in Values :
        /\ Operates /\ freed[v]
        /\ freed' = [freed EXCEPT ![v] = FALSE]
        /\ count' = [count EXCEPT ![v] = 1]
        /\ color' = [color EXCEPT ![v] = "black"]
        /\ buffered' = [buffered EXCEPT ![v] = FALSE] /\ dead' = [dead EXCEPT ![v] = FALSE]
        /\ elems' = [elems EXCEPT ![v] = <<>>]
        /\ local' = local \cup {v}
        /\ UNCHANGED <<buffer, pc, destroy, collect>>
  BY DEF New
<1>2. /\ pc = "code" /\ ops > 0 /\ ops' = ops - 1
      /\ UNCHANGED <<roots, limit, due, pc, kids, cur, dying, todo, kept, stack, black, garbage>>
  BY <1>1 DEF Operates, buffer, destroy, collect
<1>3. Types /\ TypeOK /\ Phases /\ Dying /\ Buffer /\ Counts /\ Zero /\ NonZero /\ Traversed /\ NoneLost
  BY DEF IInv, Types
<1>4. /\ kids = <<>> /\ cur = Null /\ dying = <<>> /\ ~due
      /\ todo = <<>> /\ kept = <<>> /\ stack = <<>> /\ black = <<>> /\ garbage = <<>>
      /\ Gray = {} /\ White = {} /\ ToSet(<<>>) = {}
  BY <1>2, <1>3, ToSetEmpty DEF Phases, Gray, White
<1>5. /\ v \notin Alive /\ Alive' = Alive \cup {v} /\ Gone' = Gone \ {v} /\ v \in Gone
      /\ \A w \in Alive : elems'[w] = elems[w] /\ w # v
      /\ elems'[v] = <<>> /\ ToSet(elems'[v]) = {}
  BY <1>1, <1>3, ToSetEmpty DEF Alive, Gone, TypeOK
<1>6. Types'
  <2>1. TypeOK'
    BY <1>1, <1>2, <1>3 DEF TypeOK, Colors
  <2>2. \A w \in Values : Len(elems'[w]) <= MaxElems
    BY <1>1, <1>3, Sorts DEF Types, TypeOK
  <2>3. \A w \in Leaves : elems'[w] = <<>> /\ ~dead'[w] /\ ~buffered'[w] /\ color'[w] = "black"
    BY <1>1, <1>3, Sorts DEF Types, TypeOK
  <2>4. pc' # "wild"
    BY <1>1, <1>2
  <2> QED BY <2>1, <2>2, <2>3, <2>4 DEF Types
<1>7. Gray' = {} /\ White' = {}
  BY <1>1, <1>3, <1>4 DEF Gray, White, Colored, TypeOK
<1>8. Phases'
  BY <1>2, <1>3, <1>4, <1>7 DEF Phases, Gray, White
<1>9. Dying'
  BY <1>2, <1>3, <1>4 DEF Dying
<1>10. Buffer'
  <2>1. v \notin ToSet(roots)
    BY <1>1, <1>2, <1>3 DEF Buffer
  <2> QED BY <1>1, <1>2, <1>3, <2>1 DEF Buffer, TypeOK
<1>11. Trial' = {} /\ Apart' = Gone' \cup {Null}
  BY <1>2, <1>4, <1>7 DEF Trial, Apart, Gray, White
<1>12. \A w \in Values : Values \ Out(w)' = Alive'
  BY <1>11, Sorts DEF Out, Alive
<1>13. Counts'
  <2> SUFFICES ASSUME NEW w \in Values PROVE count'[w] = Expected(w)'
    BY DEF Counts
  <2>1. Expected(w)' = Unit(w \in local') + Refs(elems', Alive', w) + Times(kids', w)
    BY <1>12 DEF Expected
  <2>2. Times(kids', w) = 0
    BY <1>2, <1>4, TimesEmpty
  <2>3. Graph(elems')
    BY <1>6, Shape DEF Types, TypeOK, Graph
  <2>4. Refs(elems', Alive \cup {v}, w) = Refs(elems', Alive, w) + Times(elems'[v], w)
    <3>1. Alive \subseteq Values
      BY DEF Alive
    <3> QED BY <1>5, <2>3, <3>1, RefsMore
  <2>5. Times(elems'[v], w) = 0
    BY <1>5, TimesEmpty
  <2>6. Refs(elems', Alive, w) = Refs(elems, Alive, w)
    BY <1>5, RefsSame
  <2>7. Refs(elems, Alive, w) \in Nat
    BY <1>3, Shape, RefsType DEF Alive
  <2>8. Expected(w)' = Unit(w \in local') + Refs(elems, Alive, w)
    <3>1. Unit(w \in local') \in Nat
      BY DEF Unit
    <3> QED BY <1>5, <2>1, <2>2, <2>4, <2>5, <2>6, <2>7, <3>1
  <2>9. count[w] = Unit(w \in local) + Refs(elems, Alive, w)
    BY <1>2, CodeFacts
  <2>10. CASE w # v
    <3>1. count'[w] = count[w] /\ (w \in local' <=> w \in local)
      BY <1>1, <1>3, <2>10 DEF TypeOK
    <3>2. Unit(w \in local') = Unit(w \in local)
      BY <3>1 DEF Unit
    <3> QED BY <2>8, <2>9, <3>1, <3>2
  <2>11. CASE w = v
    <3>1. count[v] = 0
      BY <1>3, <1>5 DEF Zero
    <3>2. Unit(w \in local) \in Nat
      BY DEF Unit
    <3>3. Refs(elems, Alive, w) = 0
      BY <2>7, <2>9, <2>11, <3>1, <3>2
    <3>4. count'[w] = 1 /\ w \in local'
      BY <1>1, <1>3, <2>11 DEF TypeOK
    <3>5. Unit(w \in local') = 1
      BY <3>4 DEF Unit
    <3> QED BY <2>8, <3>3, <3>4, <3>5
  <2> QED BY <2>10, <2>11
<1>14. Zero'
  <2>1. \A w \in Gone' : count'[w] = 0
    BY <1>1, <1>3, <1>5 DEF Zero, TypeOK, Gone
  <2> QED BY <1>2, <1>4, <1>7, <2>1 DEF Zero, White
<1>15. NonZero'
  <2>1. \A w \in Alive' : count'[w] # 0
    <3>1. \A w \in Alive : count[w] # 0
      BY <1>2, CodeFacts
    <3> QED BY <1>1, <1>3, <1>5, <3>1 DEF TypeOK, Alive
  <2> QED BY <2>1 DEF NonZero
<1>16. Traversed'
  BY <1>2, <1>4, <1>7, EmptyInjective DEF Traversed, Gray, White
<1>17. GrayReached' /\ ScanReaches' /\ WhiteReached'
  BY <1>2 DEF GrayReached, ScanReaches, WhiteReached
<1>18. NoneLost'
  <2>1. Grounded(Alive \ (local \cup ToSet(roots)), Alive)
    BY <1>2, <1>3, <1>4, Sorts DEF NoneLost, Alive
  <2>2. ASSUME NEW U, U \subseteq Alive' \ (local' \cup ToSet(roots')), Isolated(Alive, U)'
        PROVE  U = {}
    <3>1. \A w \in Alive' \ U : \A x \in U : x \notin ToSet(elems'[w])
      BY <2>2 DEF Isolated
    <3>2. U \subseteq Alive \ (local \cup ToSet(roots))
      BY <1>1, <1>2, <1>5, <2>2
    <3>3. Isolated(Alive, U)
      BY <1>5, <3>1 DEF Isolated
    <3> QED BY <2>1, <3>2, <3>3 DEF Grounded
  <2>3. Grounded(Alive \ (local \cup ToSet(roots)), Alive)'
    BY <2>2 DEF Grounded
  <2>4. /\ (Alive \ (local \cup ToSet(roots) \cup ToSet(kids) \cup ToSet(dying) \cup {cur}))'
           = (Alive \ (local \cup ToSet(roots)))'
        /\ (Alive \ {cur})' = Alive'
    BY <1>2, <1>4, Sorts DEF Alive
  <2> QED BY <1>2, <2>3, <2>4 DEF NoneLost
<1> QED BY <1>6, <1>8, <1>9, <1>10, <1>13, <1>14, <1>15, <1>16, <1>17, <1>18 DEF IInv

\* What an operation has to show that changes no more than who references whom.
LEMMA Operation ==
  ASSUME IInv, pc = "code", pc' \in {"code", "release"}, pc' = "code" => kids' = <<>>,
         UNCHANGED <<color, buffered, dead, freed, buffer, cur, dying, collect>>,
         Types', Counts',
         \A v \in Values : count'[v] = count[v] \/ (count[v] > 0 /\ count'[v] > 0),
         \A U \in SUBSET (Alive \ (local' \cup ToSet(roots) \cup ToSet(kids'))) :
           Isolated(Alive, U)' => U \cap local = {} /\ Isolated(Alive, U)
  PROVE  IInv'
<1>1. UNCHANGED <<color, buffered, dead, freed, roots, limit, due, cur, dying, todo, kept, stack, black, garbage>>
  BY DEF buffer, collect
<1>2. Types /\ TypeOK /\ Phases /\ Dying /\ Buffer /\ Counts /\ Zero /\ NonZero /\ Traversed /\ NoneLost
  BY DEF IInv, Types
<1>3. /\ kids = <<>> /\ cur = Null /\ dying = <<>> /\ ~due
      /\ todo = <<>> /\ kept = <<>> /\ stack = <<>> /\ black = <<>> /\ garbage = <<>>
      /\ Gray = {} /\ White = {} /\ ToSet(<<>>) = {}
  BY <1>2, ToSetEmpty DEF Phases, Gray, White
<1>4. Gone' = Gone /\ Alive' = Alive /\ Gray' = {} /\ White' = {} /\ \A c : Colored(c)' = Colored(c)
  BY <1>1, <1>3 DEF Gone, Alive, Gray, White, Colored
<1>5. Phases'
  BY <1>1, <1>2, <1>3, <1>4 DEF Phases
<1>6. Dying'
  BY <1>1, <1>2, <1>3 DEF Dying
<1>7. Buffer'
  BY <1>1, <1>2 DEF Buffer
<1>8. Zero'
  <2>1. \A v \in Gone : count[v] = 0 /\ v \in Values
    BY <1>2 DEF Zero, Gone
  <2>2. \A v \in Gone : count'[v] = 0
    BY <2>1
  <2> QED BY <1>1, <1>3, <1>4, <2>2 DEF Zero, White
<1>9. NonZero'
  <2>1. \A v \in Alive : count[v] > 0 /\ v \in Values
    BY CodeFacts DEF Alive
  <2>2. \A v \in Alive : ~(count'[v] = 0)
    BY <2>1
  <2> QED BY <1>4, <2>2 DEF NonZero
<1>10. Traversed'
  BY <1>1, <1>3, <1>4, EmptyInjective DEF Traversed, Gray, White
<1>11. GrayReached' /\ ScanReaches' /\ WhiteReached'
  BY DEF GrayReached, ScanReaches, WhiteReached
<1>12. NoneLost'
  <2>0. /\ Alive \ (local \cup ToSet(roots) \cup ToSet(kids) \cup ToSet(dying) \cup {cur})
           = Alive \ (local \cup ToSet(roots))
        /\ Alive \ {cur} = Alive
    BY <1>3, Sorts DEF Alive
  <2>1. Grounded(Alive \ (local \cup ToSet(roots)), Alive)
    BY <1>2, <2>0 DEF NoneLost
  <2>2. ASSUME NEW U, U \subseteq Alive' \ (local' \cup ToSet(roots') \cup ToSet(kids')), Isolated(Alive, U)'
        PROVE  U = {}
    <3>1. U \in SUBSET (Alive \ (local' \cup ToSet(roots) \cup ToSet(kids')))
      BY <1>1, <1>4, <2>2
    <3>2. U \cap local = {} /\ Isolated(Alive, U)
      BY <2>2, <3>1
    <3> QED BY <2>1, <3>1, <3>2 DEF Grounded
  <2>3. Grounded(Alive \ (local \cup ToSet(roots) \cup ToSet(kids)), Alive)'
    BY <2>2 DEF Grounded
  <2>4. /\ (Alive \ (local \cup ToSet(roots) \cup ToSet(kids) \cup ToSet(dying) \cup {cur}))'
           = (Alive \ (local \cup ToSet(roots) \cup ToSet(kids)))'
        /\ (Alive \ {cur})' = Alive'
    BY <1>1, <1>3, Sorts DEF Alive
  <2> QED BY <2>3, <2>4 DEF NoneLost
<1> QED BY <1>2, <1>5, <1>6, <1>7, <1>8, <1>9, <1>10, <1>11, <1>12 DEF IInv

\* The count that Counts asks for after an operation.
LEMMA ExpectedAfter ==
  ASSUME IInv, pc = "code",
         UNCHANGED <<color, buffered, dead, freed, buffer, cur, dying, collect>>, NEW v \in Values
  PROVE  Expected(v)' = Unit(v \in local') + Refs(elems', Alive, v) + Times(kids', v)
<1>1. UNCHANGED <<color, buffered, dead, freed, cur, black, garbage>>
  BY DEF buffer, collect
<1>2. Out(v)' = Out(v) /\ Alive' = Alive
  BY <1>1 DEF Out, Apart, Trial, Gone, Alive, Colored
<1>3. (Values \ Out(v))' = Alive
  BY <1>2, CodeFacts
<1> QED BY <1>3 DEF Expected

LEMMA GetStep == ASSUME IInv, Get PROVE IInv'
<1>0. PICK v \in local : \E w \in ToSet(elems[v]) \ local :
        /\ Operates
        /\ count' = [count EXCEPT ![w] = @ + 1]
        /\ local' = local \cup {w}
        /\ UNCHANGED <<elems, color, buffered, dead, freed, buffer, pc, destroy, collect>>
  BY DEF Get
<1>1. PICK w \in ToSet(elems[v]) \ local :
        /\ Operates
        /\ count' = [count EXCEPT ![w] = @ + 1]
        /\ local' = local \cup {w}
        /\ UNCHANGED <<elems, color, buffered, dead, freed, buffer, pc, destroy, collect>>
  BY <1>0
<1>2. /\ pc = "code" /\ ops > 0 /\ ops' = ops - 1
      /\ UNCHANGED <<elems, pc, kids, cur, dying>>
      /\ UNCHANGED <<color, buffered, dead, freed, buffer, cur, dying, collect>>
      /\ UNCHANGED <<roots, limit, due, todo, kept, stack, black, garbage>>
  BY <1>1 DEF Operates, buffer, destroy, collect
<1>3. Types /\ TypeOK /\ Counts /\ Zero
  BY DEF IInv, Types
<1>4. v \in Alive /\ v \in Values /\ w \in Values /\ w \in Alive /\ count[w] > 0
  <2>1. v \in Alive /\ v \in Values
    BY <1>1, <1>3, Held
  <2>2. w \in Alive /\ count[w] > 0
    BY <1>1, <1>2, <2>1, CodeFacts
  <2> QED BY <2>1, <2>2 DEF Alive
<1>5. kids = <<>> /\ kids' = <<>>
  BY <1>2, CodeFacts
<1>6. Types'
  <2>1. TypeOK'
    BY <1>1, <1>2, <1>3, <1>4 DEF TypeOK
  <2> QED BY <1>1, <1>2, <1>3, <2>1 DEF Types
<1>7. Counts'
  <2> SUFFICES ASSUME NEW u \in Values PROVE count'[u] = Expected(u)'
    BY DEF Counts
  <2>1. Expected(u)' = Unit(u \in local') + Refs(elems, Alive, u) + Times(kids', u)
    BY <1>2, ExpectedAfter
  <2>2. count[u] = Unit(u \in local) + Refs(elems, Alive, u) /\ Times(kids', u) = 0
    BY <1>2, <1>5, CodeFacts, TimesEmpty
  <2>3. Refs(elems, Alive, u) \in Nat
    BY <1>3, Shape, RefsType DEF Alive
  <2>4. Unit(u \in local') = Unit(u \in local) + Unit(u = w) /\ Unit(u \in local) \in Nat
    BY <1>1 DEF Unit
  <2>5. count'[u] = count[u] + Unit(u = w)
    BY <1>1, <1>3 DEF TypeOK, Unit
  <2>6. Unit(u = w) \in Nat
    BY DEF Unit
  <2> QED BY <2>1, <2>2, <2>3, <2>4, <2>5, <2>6
<1>8. \A u \in Values : count'[u] = count[u] \/ (count[u] > 0 /\ count'[u] > 0)
  BY <1>1, <1>3, <1>4 DEF TypeOK
<1>9. \A U \in SUBSET (Alive \ (local' \cup ToSet(roots) \cup ToSet(kids'))) :
        Isolated(Alive, U)' => U \cap local = {} /\ Isolated(Alive, U)
  <2>1. Alive' = Alive
    BY <1>2 DEF Alive, Gone
  <2> QED BY <1>1, <1>2, <2>1 DEF Isolated
<1> QED BY <1>2, <1>5, <1>6, <1>7, <1>8, <1>9, Operation

LEMMA PushStep == ASSUME IInv, Push PROVE IInv'
<1>1. PICK v \in local \cap Objects, w \in local :
        /\ Operates /\ Len(elems[v]) < MaxElems
        /\ count' = [count EXCEPT ![w] = @ + 1]
        /\ elems' = [elems EXCEPT ![v] = Append(@, w)]
        /\ UNCHANGED <<color, buffered, dead, freed, buffer, local, pc, destroy, collect>>
  BY DEF Push
<1>2. /\ pc = "code" /\ ops > 0 /\ ops' = ops - 1
      /\ UNCHANGED <<local, pc, kids, cur, dying>>
      /\ UNCHANGED <<color, buffered, dead, freed, buffer, cur, dying, collect>>
      /\ UNCHANGED <<roots, limit, due, todo, kept, stack, black, garbage>>
  BY <1>1 DEF Operates, buffer, destroy, collect
<1>3. Types /\ TypeOK /\ Counts /\ Zero
  BY DEF IInv, Types
<1>4. v \in Alive /\ v \in Values /\ w \in Values /\ count[w] > 0 /\ v \in Objects
  BY <1>1, <1>3, Held
<1>5. kids = <<>> /\ kids' = <<>>
  BY <1>2, CodeFacts
<1>6. /\ elems[v] \in Seq(Values) /\ elems'[v] = Append(elems[v], w)
      /\ \A u \in Values \ {v} : elems'[u] = elems[u]
      /\ elems'[v] \in Seq(Values) /\ Len(elems'[v]) = Len(elems[v]) + 1
      /\ ToSet(elems'[v]) = ToSet(elems[v]) \cup {w}
  <2>1. elems[v] \in Seq(Values)
    BY <1>3, <1>4, Shape
  <2>2. elems'[v] = Append(elems[v], w) /\ \A u \in Values \ {v} : elems'[u] = elems[u]
    BY <1>1, <1>3, <1>4 DEF TypeOK
  <2> QED BY <1>4, <2>1, <2>2, Appended
<1>7. Types'
  <2>1. elems' \in [Values -> Seq(Values)]
    BY <1>1, <1>3, <1>4, <1>6 DEF TypeOK
  <2>2. TypeOK'
    BY <1>1, <1>2, <1>3, <1>4, <2>1 DEF TypeOK
  <2>3. \A u \in Values : Len(elems'[u]) <= MaxElems
    <3>1. Len(elems[v]) \in Nat
      BY <1>6, LenNat
    <3>2. Len(elems'[v]) <= MaxElems
      BY <1>1, <1>6, <3>1, Sorts
    <3> QED BY <1>3, <1>6, <3>2 DEF Types
  <2>4. \A u \in Leaves : u \in Values \ {v}
    BY <1>4, Sorts
  <2> QED BY <1>1, <1>2, <1>3, <1>6, <2>2, <2>3, <2>4 DEF Types
<1>8. Counts'
  <2> SUFFICES ASSUME NEW u \in Values PROVE count'[u] = Expected(u)'
    BY DEF Counts
  <2>1. Expected(u)' = Unit(u \in local') + Refs(elems', Alive, u) + Times(kids', u)
    BY <1>2, ExpectedAfter
  <2>2. count[u] = Unit(u \in local) + Refs(elems, Alive, u) /\ Times(kids', u) = 0
    BY <1>2, <1>5, CodeFacts, TimesEmpty
  <2>3. Graph(elems) /\ Graph(elems')
    BY <1>3, <1>7, Shape DEF Types, TypeOK, Graph
  <2>4. Alive \subseteq Values /\ \A y \in Alive \ {v} : elems[y] = elems'[y]
    BY <1>6 DEF Alive
  <2>5. /\ Refs(elems', Alive, u) + Times(elems[v], u) = Refs(elems, Alive, u) + Times(elems'[v], u)
        /\ {Refs(elems', Alive, u), Refs(elems, Alive, u), Times(elems[v], u), Times(elems'[v], u)} \subseteq Nat
    BY <1>4, <2>3, <2>4, RefsChanged
  <2>6. Times(elems'[v], u) = Times(elems[v], u) + Unit(u = w)
    BY <1>4, <1>6, TimesAppend
  <2>7. count'[u] = count[u] + Unit(u = w)
    BY <1>1, <1>3 DEF TypeOK, Unit
  <2>8. Unit(u = w) \in Nat /\ Unit(u \in local) \in Nat /\ Unit(u \in local') = Unit(u \in local)
    BY <1>2 DEF Unit
  <2> QED BY <2>1, <2>2, <2>5, <2>6, <2>7, <2>8
<1>9. \A u \in Values : count'[u] = count[u] \/ (count[u] > 0 /\ count'[u] > 0)
  BY <1>1, <1>3, <1>4 DEF TypeOK
<1>10. \A U \in SUBSET (Alive \ (local' \cup ToSet(roots) \cup ToSet(kids'))) :
        Isolated(Alive, U)' => U \cap local = {} /\ Isolated(Alive, U)
  <2>1. Alive' = Alive
    BY <1>2 DEF Alive, Gone
  <2>2. \A u \in Alive : ToSet(elems[u]) \subseteq ToSet(elems'[u])
    BY <1>6 DEF Alive
  <2> QED BY <1>1, <1>2, <2>1, <2>2 DEF Isolated
<1> QED BY <1>2, <1>5, <1>7, <1>8, <1>9, <1>10, Operation

\* Elements that leave a value, for the two operations that take one out.
LEMMA Removal ==
  ASSUME Types, NEW v \in Values, NEW i \in DOMAIN elems[v],
         elems' = [elems EXCEPT ![v] = RemoveAt(@, i)]
  PROVE  /\ elems[v][i] \in Values /\ elems[v][i] \in ToSet(elems[v])
         /\ ToSet(elems[v]) = ToSet(elems'[v]) \cup {elems[v][i]}
         /\ \A u \in Values \ {v} : elems'[u] = elems[u]
         /\ elems' \in [Values -> Seq(Values)]
         /\ \A u \in Values : Len(elems'[u]) <= MaxElems
         /\ \A u \in Leaves : elems'[u] = <<>>
         /\ \A S : S \subseteq Values /\ v \in S =>
              \A u : /\ Refs(elems, S, u) = Refs(elems', S, u) + Unit(u = elems[v][i])
                     /\ Refs(elems', S, u) \in Nat
         /\ \A u : Times(elems[v], u) = Times(elems'[v], u) + Unit(u = elems[v][i])
<1> DEFINE x == elems[v][i]
<1>1. /\ elems \in [Values -> Seq(Values)] /\ elems[v] \in Seq(Values)
      /\ \A u \in Values : Len(elems[u]) <= MaxElems
      /\ \A u \in Leaves : elems[u] = <<>>
      /\ i \in 1..Len(elems[v]) /\ Len(elems[v]) \in Nat
  BY LenNat DEF Types, TypeOK
<1>2. elems'[v] = RemoveAt(elems[v], i) /\ \A u \in Values \ {v} : elems'[u] = elems[u]
  BY <1>1
<1>3. /\ elems'[v] \in Seq(Values) /\ Len(elems'[v]) = Len(elems[v]) - 1
      /\ x \in Values /\ x \in ToSet(elems[v])
      /\ ToSet(elems[v]) = ToSet(elems'[v]) \cup {x}
      /\ \A u : /\ Times(elems[v], u) = Times(elems'[v], u) + Unit(u = x)
                /\ Times(elems'[v], u) \in Nat
  BY <1>1, <1>2, Removed
<1>4. elems' \in [Values -> Seq(Values)]
  BY <1>1, <1>2, <1>3
<1>5. \A u \in Values : Len(elems'[u]) <= MaxElems
  <2>1. Len(elems'[v]) <= MaxElems
    BY <1>1, <1>3, Sorts
  <2> QED BY <1>1, <1>2, <2>1
<1>6. v \notin Leaves
  <2>1. elems[v] # <<>>
    BY <1>1
  <2> QED BY <1>1, <2>1
<1>7. \A u \in Leaves : elems'[u] = <<>>
  BY <1>1, <1>2, <1>6, Sorts
<1>8. Graph(elems) /\ Graph(elems')
  BY <1>1, <1>4, <1>5 DEF Graph
<1>9. ASSUME NEW S, S \subseteq Values, v \in S, NEW u
      PROVE  Refs(elems, S, u) = Refs(elems', S, u) + Unit(u = x) /\ Refs(elems', S, u) \in Nat
  <2>1. \A y \in S \ {v} : elems[y] = elems'[y]
    BY <1>2, <1>9
  <2> HIDE DEF x
  <2>2. /\ Refs(elems', S, u) + Times(elems[v], u) = Refs(elems, S, u) + Times(elems'[v], u)
        /\ {Refs(elems', S, u), Refs(elems, S, u), Times(elems[v], u), Times(elems'[v], u)} \subseteq Nat
    <3> DEFINE f == elems'
    <3>1. Graph(f) /\ \A y \in S \ {v} : elems[y] = f[y]
      BY <1>8, <2>1
    <3> HIDE DEF f
    <3>2. /\ Refs(f, S, u) + Times(elems[v], u) = Refs(elems, S, u) + Times(f[v], u)
          /\ {Refs(f, S, u), Refs(elems, S, u), Times(elems[v], u), Times(f[v], u)} \subseteq Nat
      BY <1>8, <1>9, <3>1, RefsChanged
    <3> QED BY <3>2 DEF f
  <2>3. Unit(u = x) \in Nat
    BY DEF Unit
  <2>4. Times(elems[v], u) = Times(elems'[v], u) + Unit(u = x)
    BY <1>3
  <2> QED BY <2>2, <2>3, <2>4
<1> QED BY <1>2, <1>3, <1>4, <1>5, <1>7, <1>9

LEMMA PopStep == ASSUME IInv, Pop PROVE IInv'
<1>0. PICK v \in local : \E i \in DOMAIN elems[v] :
        /\ Operates /\ elems[v][i] \notin local
        /\ elems' = [elems EXCEPT ![v] = RemoveAt(@, i)]
        /\ local' = local \cup {elems[v][i]}
        /\ UNCHANGED <<count, color, buffered, dead, freed, buffer, pc, destroy, collect>>
  BY DEF Pop
<1>1. PICK i \in DOMAIN elems[v] :
        /\ Operates /\ elems[v][i] \notin local
        /\ elems' = [elems EXCEPT ![v] = RemoveAt(@, i)]
        /\ local' = local \cup {elems[v][i]}
        /\ UNCHANGED <<count, color, buffered, dead, freed, buffer, pc, destroy, collect>>
  BY <1>0
<1> DEFINE w == elems[v][i]
<1>2. /\ pc = "code" /\ ops > 0 /\ ops' = ops - 1
      /\ UNCHANGED <<count, pc, kids, cur, dying>>
      /\ UNCHANGED <<color, buffered, dead, freed, buffer, cur, dying, collect>>
      /\ UNCHANGED <<roots, limit, due, todo, kept, stack, black, garbage>>
  BY <1>1 DEF Operates, buffer, destroy, collect
<1>3. Types /\ TypeOK /\ Counts /\ Zero
  BY DEF IInv, Types
<1>4. v \in Alive /\ v \in Values
  BY <1>3, Held
<1>5. kids = <<>> /\ kids' = <<>>
  BY <1>2, CodeFacts
<1>6. /\ w \in Values /\ ToSet(elems[v]) = ToSet(elems'[v]) \cup {w}
      /\ \A u \in Values \ {v} : elems'[u] = elems[u]
      /\ elems' \in [Values -> Seq(Values)]
      /\ \A u \in Values : Len(elems'[u]) <= MaxElems
      /\ \A u \in Leaves : elems'[u] = <<>>
      /\ \A u : Refs(elems, Alive, u) = Refs(elems', Alive, u) + Unit(u = w) /\ Refs(elems', Alive, u) \in Nat
  <2>1. Alive \subseteq Values
    BY DEF Alive
  <2> QED BY <1>1, <1>3, <1>4, <2>1, Removal
<1> HIDE DEF w
<1>7. w \notin local /\ local' = local \cup {w}
  BY <1>1 DEF w
<1>8. Types'
  <2>0. w \in Values /\ elems' \in [Values -> Seq(Values)]
    BY <1>6
  <2>1. local' \subseteq Values
    BY <1>3, <1>7, <2>0 DEF TypeOK
  <2>2. ops' \in Nat
    BY <1>2, <1>3 DEF TypeOK
  <2>3. TypeOK'
    BY <1>2, <1>3, <2>0, <2>1, <2>2 DEF TypeOK
  <2> QED BY <1>2, <1>3, <1>6, <2>3 DEF Types
<1>9. Counts'
  <2> SUFFICES ASSUME NEW u \in Values PROVE count'[u] = Expected(u)'
    BY DEF Counts
  <2>1. Expected(u)' = Unit(u \in local') + Refs(elems', Alive, u) + Times(kids', u)
    BY <1>2, ExpectedAfter
  <2>2. count[u] = Unit(u \in local) + Refs(elems, Alive, u) /\ Times(kids', u) = 0
    BY <1>2, <1>5, CodeFacts, TimesEmpty
  <2>3. Refs(elems, Alive, u) = Refs(elems', Alive, u) + Unit(u = w) /\ Refs(elems', Alive, u) \in Nat
    BY <1>6
  <2>4. /\ Unit(u \in local') = Unit(u \in local) + Unit(u = w)
        /\ Unit(u \in local) \in Nat /\ Unit(u = w) \in Nat
    BY <1>7 DEF Unit
  <2> QED BY <1>2, <2>1, <2>2, <2>3, <2>4
<1>10. \A U \in SUBSET (Alive \ (local' \cup ToSet(roots) \cup ToSet(kids'))) :
        Isolated(Alive, U)' => U \cap local = {} /\ Isolated(Alive, U)
  <2>1. Alive' = Alive
    BY <1>2 DEF Alive, Gone
  <2>2. \A u \in Alive : ToSet(elems[u]) \subseteq ToSet(elems'[u]) \cup {w}
    BY <1>6 DEF Alive
  <2> QED BY <1>7, <2>1, <2>2 DEF Isolated
<1> QED BY <1>2, <1>5, <1>8, <1>9, <1>10, Operation

LEMMA OverwriteStep == ASSUME IInv, Overwrite PROVE IInv'
<1>0. PICK v \in local : \E i \in DOMAIN elems[v] :
        /\ Operates /\ pc' = "release"
        /\ elems' = [elems EXCEPT ![v] = RemoveAt(@, i)]
        /\ kids' = <<elems[v][i]>>
        /\ UNCHANGED <<count, color, buffered, dead, freed, buffer, local, cur, dying, collect>>
  BY DEF Overwrite
<1>1. PICK i \in DOMAIN elems[v] :
        /\ Operates /\ pc' = "release"
        /\ elems' = [elems EXCEPT ![v] = RemoveAt(@, i)]
        /\ kids' = <<elems[v][i]>>
        /\ UNCHANGED <<count, color, buffered, dead, freed, buffer, local, cur, dying, collect>>
  BY <1>0
<1> DEFINE w == elems[v][i]
<1>2. /\ pc = "code" /\ ops > 0 /\ ops' = ops - 1 /\ pc' = "release"
      /\ UNCHANGED <<count, local>>
      /\ UNCHANGED <<color, buffered, dead, freed, buffer, cur, dying, collect>>
      /\ UNCHANGED <<roots, limit, due, todo, kept, stack, black, garbage>>
  BY <1>1 DEF Operates, buffer, collect
<1>3. Types /\ TypeOK /\ Counts /\ Zero
  BY DEF IInv, Types
<1>4. v \in Alive /\ v \in Values
  BY <1>3, Held
<1>6. /\ w \in Values /\ ToSet(elems[v]) = ToSet(elems'[v]) \cup {w}
      /\ \A u \in Values \ {v} : elems'[u] = elems[u]
      /\ elems' \in [Values -> Seq(Values)]
      /\ \A u \in Values : Len(elems'[u]) <= MaxElems
      /\ \A u \in Leaves : elems'[u] = <<>>
      /\ \A u : Refs(elems, Alive, u) = Refs(elems', Alive, u) + Unit(u = w) /\ Refs(elems', Alive, u) \in Nat
  <2>1. Alive \subseteq Values
    BY DEF Alive
  <2> QED BY <1>1, <1>3, <1>4, <2>1, Removal
<1> HIDE DEF w
<1>7. kids' = <<w>> /\ kids' \in Seq(Values) /\ ToSet(kids') = {w}
  BY <1>1, <1>6, Single DEF w
<1>8. Types'
  <2>0. w \in Values /\ elems' \in [Values -> Seq(Values)]
    BY <1>6
  <2>1. TypeOK'
    <3>1. ops' \in Nat /\ kids' \in Seq(Values) /\ pc' \in {"code", "release", "gray", "scan", "white"}
      BY <1>2, <1>3, <1>7 DEF TypeOK
    <3>2. /\ UNCHANGED <<count, color, buffered, dead, freed, roots, limit, due, local>>
          /\ UNCHANGED <<cur, dying, todo, kept, stack, black, garbage>>
      BY <1>2
    <3> QED BY <1>3, <2>0, <3>1, <3>2 DEF TypeOK
  <2> QED BY <1>2, <1>3, <1>6, <2>1 DEF Types
<1>9. Counts'
  <2> SUFFICES ASSUME NEW u \in Values PROVE count'[u] = Expected(u)'
    BY DEF Counts
  <2>1. Expected(u)' = Unit(u \in local') + Refs(elems', Alive, u) + Times(kids', u)
    BY <1>2, ExpectedAfter
  <2>2. count[u] = Unit(u \in local) + Refs(elems, Alive, u) /\ Times(kids', u) = Unit(u = w)
    BY <1>2, <1>7, CodeFacts, TimesOne
  <2>3. Refs(elems, Alive, u) = Refs(elems', Alive, u) + Unit(u = w) /\ Refs(elems', Alive, u) \in Nat
    BY <1>6
  <2>4. /\ Unit(u \in local') = Unit(u \in local)
        /\ Unit(u \in local) \in Nat /\ Unit(u = w) \in Nat
    BY <1>2 DEF Unit
  <2> QED BY <1>2, <2>1, <2>2, <2>3, <2>4
<1>10. \A U \in SUBSET (Alive \ (local' \cup ToSet(roots) \cup ToSet(kids'))) :
        Isolated(Alive, U)' => U \cap local = {} /\ Isolated(Alive, U)
  <2>1. Alive' = Alive
    BY <1>2 DEF Alive, Gone
  <2>2. \A u \in Alive : ToSet(elems[u]) \subseteq ToSet(elems'[u]) \cup {w}
    BY <1>6 DEF Alive
  <2> QED BY <1>2, <1>7, <2>1, <2>2 DEF Isolated
<1> QED BY <1>2, <1>8, <1>9, <1>10, Operation

LEMMA DropStep == ASSUME IInv, Drop PROVE IInv'
<1>1. PICK w \in local :
        /\ Operates /\ pc' = "release"
        /\ local' = local \ {w}
        /\ kids' = <<w>>
        /\ UNCHANGED <<heap, buffer, cur, dying, collect>>
  BY DEF Drop
<1>2. /\ pc = "code" /\ ops > 0 /\ ops' = ops - 1 /\ pc' = "release"
      /\ UNCHANGED <<elems, count>>
      /\ UNCHANGED <<color, buffered, dead, freed, buffer, cur, dying, collect>>
      /\ UNCHANGED <<roots, limit, due, todo, kept, stack, black, garbage>>
  BY <1>1 DEF Operates, heap, buffer, collect
<1>3. Types /\ TypeOK /\ Counts /\ Zero
  BY DEF IInv, Types
<1>4. w \in Values
  BY <1>3, Held
<1>5. kids' \in Seq(Values) /\ ToSet(kids') = {w}
  BY <1>1, <1>4, Single
<1>6. Types'
  <2>1. TypeOK'
    BY <1>1, <1>2, <1>3, <1>5 DEF TypeOK
  <2> QED BY <1>2, <1>3, <2>1 DEF Types
<1>7. Counts'
  <2> SUFFICES ASSUME NEW u \in Values PROVE count'[u] = Expected(u)'
    BY DEF Counts
  <2>1. Expected(u)' = Unit(u \in local') + Refs(elems', Alive, u) + Times(kids', u)
    BY <1>2, ExpectedAfter
  <2>2. count[u] = Unit(u \in local) + Refs(elems, Alive, u) /\ Times(kids', u) = Unit(u = w)
    BY <1>1, <1>2, CodeFacts, TimesOne
  <2>3. Refs(elems, Alive, u) = Refs(elems', Alive, u) /\ Refs(elems, Alive, u) \in Nat
    BY <1>2, <1>3, Shape, RefsType DEF Alive
  <2>4. /\ Unit(u \in local) = Unit(u \in local') + Unit(u = w)
        /\ Unit(u \in local') \in Nat /\ Unit(u = w) \in Nat
    BY <1>1 DEF Unit
  <2> QED BY <1>2, <2>1, <2>2, <2>3, <2>4
<1>8. \A U \in SUBSET (Alive \ (local' \cup ToSet(roots) \cup ToSet(kids'))) :
        Isolated(Alive, U)' => U \cap local = {} /\ Isolated(Alive, U)
  <2>1. Alive' = Alive
    BY <1>2 DEF Alive, Gone
  <2> QED BY <1>1, <1>2, <1>5, <2>1 DEF Isolated
<1> QED BY <1>2, <1>6, <1>7, <1>8, Operation

-----------------------------------------------------------------------------
(* Releases                                                                *)

LEMMA RestAlive ==
  ASSUME IInv, pc \in {"code", "release"}, cur = Null
  PROVE  \A v \in Alive : ToSet(elems[v]) \subseteq Alive
<1> SUFFICES ASSUME NEW v \in Alive, NEW w \in ToSet(elems[v]) PROVE w \in Alive
  OBVIOUS
<1>1. v \in Values /\ w \in Values /\ v \notin Gone /\ v # cur
  BY Shape, Sorts DEF Alive, IInv
<1>2. v \in Values \ Out(w)
  BY <1>1, AtRest
<1>3. count[w] > 0
  BY <1>1, <1>2, Counted DEF IInv
<1> QED BY <1>1, <1>3, Live DEF IInv

\* The first step of a collection.
LEMMA StartCollection ==
  ASSUME IInv, pc \in {"code", "release"}, kids = <<>>, cur = Null, dying = <<>>,
         TakeRoots, due' = FALSE,
         UNCHANGED <<heap, limit, prog, destroy, kept, stack, black, garbage>>
  PROVE  IInv'
<1>1. /\ UNCHANGED <<elems, count, color, buffered, dead, freed, limit, local, ops>>
      /\ UNCHANGED <<kids, cur, dying, kept, stack, black, garbage>>
      /\ pc' = "gray" /\ todo' = roots /\ roots' = <<>>
  BY DEF heap, prog, destroy, TakeRoots
<1>2. Types /\ TypeOK /\ Phases /\ Dying /\ Buffer /\ Counts /\ Zero /\ NonZero /\ Traversed /\ NoneLost
  BY DEF IInv, Types
<1>3. /\ todo = <<>> /\ kept = <<>> /\ stack = <<>> /\ black = <<>> /\ garbage = <<>>
      /\ Gray = {} /\ White = {} /\ ToSet(<<>>) = {}
      /\ Colored("gray") = {} /\ Colored("white") = {}
  BY <1>2, ToSetEmpty DEF Phases, Gray, White
<1>4. Gone' = Gone /\ Alive' = Alive /\ Gray' = {} /\ White' = {} /\ \A c : Colored(c)' = Colored(c)
  BY <1>1, <1>3 DEF Gone, Alive, Gray, White, Colored
<1>5. Types'
  BY <1>1, <1>2 DEF Types, TypeOK
<1>6. Phases'
  BY <1>1, <1>3, <1>4 DEF Phases
<1>7. Dying'
  BY <1>1, <1>2, <1>4 DEF Dying
<1>8. Buffer'
  BY <1>1, <1>2, <1>3 DEF Buffer
<1>9. Counts'
  <2>1. \A v \in Values : Out(v)' = Out(v)
    BY <1>1, <1>4 DEF Out, Apart, Trial
  <2>2. \A v \in Values : Expected(v)' = Expected(v)
    BY <1>1, <2>1 DEF Expected
  <2> QED BY <1>1, <1>2, <2>2 DEF Counts
<1>10. Zero'
  BY <1>1, <1>2, <1>4 DEF Zero
<1>11. NonZero'
  BY <1>1, <1>2, <1>3, <1>4 DEF NonZero
<1>12. Traversed'
  <2>1. \A v \in Alive : ToSet(elems[v]) \subseteq Alive
    BY RestAlive
  <2> QED BY <1>1, <1>3, <1>4, <2>1, EmptyInjective DEF Traversed
<1>13. GrayReached'
  <2>1. Grounded((Gray \cup ToSet(stack)) \ ToSet(kept), Gray)'
    BY <1>1, <1>3, <1>4 DEF Grounded
  <2> QED BY <1>1, <1>3, <1>4, <2>1 DEF GrayReached
<1>14. ScanReaches' /\ WhiteReached'
  BY <1>1 DEF ScanReaches, WhiteReached
<1>15. NoneLost'
  <2>0. /\ Alive \ (local \cup ToSet(roots) \cup ToSet(kids) \cup ToSet(dying) \cup {cur})
           = Alive \ (local \cup ToSet(roots))
        /\ Alive \ {cur} = Alive
    BY <1>3, Sorts DEF Alive
  <2>1. Grounded(Alive \ (local \cup ToSet(roots)), Alive)
    BY <1>2, <2>0 DEF NoneLost
  <2>2. Grounded(Alive \ (local \cup ToSet(roots)), Alive) => Grounded(Alive \ (local \cup ToSet(todo) \cup ToSet(kept)), Alive)'
    BY <1>1, <1>3, <1>4 DEF Grounded, Isolated
  <2> QED BY <1>1, <2>1, <2>2 DEF NoneLost
<1> QED BY <1>5, <1>6, <1>7, <1>8, <1>9, <1>10, <1>11, <1>12, <1>13, <1>14, <1>15 DEF IInv

LEMMA CollectNowStep == ASSUME IInv, CollectNow PROVE IInv'
<1>1. /\ pc = "code" /\ TakeRoots
      /\ UNCHANGED <<heap, limit, due, prog, destroy, kept, stack, black, garbage>>
  BY DEF CollectNow
<1>2. kids = <<>> /\ cur = Null /\ dying = <<>> /\ ~due
  BY <1>1, CodeFacts
<1>3. due' = FALSE
  BY <1>1, <1>2 DEF IInv, Types, TypeOK
<1> QED BY <1>1, <1>2, <1>3, StartCollection

LEMMA ReleasedStep == ASSUME IInv, Released PROVE IInv'
<1>1. /\ pc = "release" /\ kids = <<>> /\ cur = Null /\ dying = <<>>
      /\ due' = FALSE
      /\ UNCHANGED <<heap, limit, prog, destroy, kept, stack, black, garbage>>
  BY DEF Released
<1>2. CASE due
  <2>1. TakeRoots
    BY <1>2 DEF Released
  <2> QED BY <1>1, <2>1, StartCollection
<1>3. CASE ~due
  <2>1. /\ pc' = "code"
        /\ UNCHANGED <<elems, count, color, buffered, dead, freed, limit, local, ops>>
        /\ UNCHANGED <<kids, cur, dying, kept, stack, black, garbage, todo, roots>>
    BY <1>3 DEF Released, heap, prog, destroy
  <2>2. Types /\ TypeOK /\ Phases /\ Dying /\ Buffer /\ Counts /\ Zero /\ NonZero /\ Traversed /\ NoneLost
    BY DEF IInv, Types
  <2>3. Gone' = Gone /\ Alive' = Alive /\ \A c : Colored(c)' = Colored(c)
    BY <2>1 DEF Gone, Alive, Colored
  <2>4. Types'
    BY <1>1, <2>1, <2>2 DEF Types, TypeOK
  <2>5. Phases'
    BY <1>1, <2>1, <2>2, <2>3 DEF Phases
  <2>6. Dying'
    BY <2>1, <2>2, <2>3 DEF Dying
  <2>7. Buffer'
    BY <1>1, <1>3, <2>1, <2>2 DEF Buffer
  <2>8. Counts'
    <3>1. \A v \in Values : Out(v)' = Out(v)
      BY <2>1, <2>3 DEF Out, Apart, Trial
    <3>2. \A v \in Values : Expected(v)' = Expected(v)
      BY <2>1, <3>1 DEF Expected
    <3> QED BY <2>1, <2>2, <3>2 DEF Counts
  <2>9. Zero'
    BY <2>1, <2>2, <2>3 DEF Zero
  <2>10. NonZero'
    BY <1>1, <2>1, <2>2, <2>3 DEF NonZero
  <2>11. Traversed'
    BY <1>1, <2>1, <2>2, <2>3 DEF Traversed
  <2>12. GrayReached' /\ ScanReaches' /\ WhiteReached'
    BY <2>1 DEF GrayReached, ScanReaches, WhiteReached
  <2>13. NoneLost'
    <3>1. Grounded(Alive \ (local \cup ToSet(roots) \cup ToSet(kids) \cup ToSet(dying) \cup {cur}), Alive \ {cur})
      BY <1>1, <2>2 DEF NoneLost
    <3>2. Grounded(Alive \ (local \cup ToSet(roots) \cup ToSet(kids) \cup ToSet(dying) \cup {cur}), Alive \ {cur})'
      BY <2>1, <2>3, <3>1 DEF Grounded, Isolated
    <3> QED BY <2>1, <3>2 DEF NoneLost
  <2> QED BY <2>4, <2>5, <2>6, <2>7, <2>8, <2>9, <2>10, <2>11, <2>12, <2>13 DEF IInv
<1> QED BY <1>2, <1>3

LEMMA RestCounts ==
  ASSUME IInv, pc \in {"code", "release"}, NEW v \in Values
  PROVE  /\ count[v] = Unit(v \in local) + Refs(elems, Alive \ {cur}, v) + Times(kids, v)
         /\ {Unit(v \in local), Refs(elems, Alive \ {cur}, v), Times(kids, v)} \subseteq Nat
<1>1. Values \ Out(v) = Alive \ {cur}
  BY AtRest DEF Alive
<1>2. count[v] = Unit(v \in local) + Refs(elems, Alive \ {cur}, v) + Times(kids, v)
  BY <1>1 DEF IInv, Counts, Expected
<1>3. Refs(elems, Alive \ {cur}, v) \in Nat
  <2>1. Alive \ {cur} \subseteq Values
    BY DEF Alive
  <2> QED BY <2>1, Shape, RefsType DEF IInv
<1>4. Times(kids, v) \in Nat
  BY Shape, TimesMember DEF IInv
<1>5. Unit(v \in local) \in Nat
  BY DEF Unit
<1> QED BY <1>2, <1>3, <1>4, <1>5

LEMMA DestroyStep == ASSUME IInv, Destroy PROVE IInv'
<1> DEFINE c == Last(dying)
<1>1. /\ pc = "release" /\ kids = <<>> /\ cur = Null /\ dying # <<>>
      /\ cur' = c /\ dying' = Front(dying) /\ kids' = elems[c]
      /\ UNCHANGED <<elems, count, color, buffered, dead, freed, roots, limit, due, local, ops, pc>>
      /\ UNCHANGED <<todo, kept, stack, black, garbage>>
  BY DEF Destroy, heap, buffer, prog, collect
<1>2. Types /\ TypeOK /\ Phases /\ Dying /\ Buffer /\ Counts /\ Zero /\ NonZero /\ Traversed /\ NoneLost
  BY DEF IInv, Types
<1>3. /\ todo = <<>> /\ kept = <<>> /\ stack = <<>> /\ black = <<>> /\ garbage = <<>>
      /\ Gray = {} /\ White = {} /\ ToSet(<<>>) = {}
      /\ Colored("gray") = {} /\ Colored("white") = {}
  BY <1>1, <1>2, ToSetEmpty DEF Phases, Gray, White
<1>4. Gone' = Gone /\ Alive' = Alive /\ \A x : Colored(x)' = Colored(x)
  BY <1>1 DEF Gone, Alive, Colored
<1>5. /\ c \in Objects /\ dying' \in Seq(Objects) /\ c \in ToSet(dying) /\ c \in Alive /\ c \in Values
      /\ ToSet(dying) = ToSet(dying') \cup {c} /\ c # Null
      /\ IsInjective(dying') /\ c \notin ToSet(dying')
  <2>1. dying \in Seq(Objects) /\ IsInjective(dying) /\ ToSet(dying) \subseteq Alive
    BY <1>2 DEF TypeOK, Dying
  <2> QED BY <1>1, <2>1, FrontLast, Sorts
<1> HIDE DEF c
<1>6. Types'
  <2>1. kids' \in Seq(Values)
    BY <1>1, <1>2, <1>5, Shape
  <2> QED BY <1>1, <1>2, <1>5, <2>1 DEF Types, TypeOK
<1>7. Phases'
  BY <1>1, <1>2, <1>4 DEF Phases
<1>8. Dying'
  BY <1>1, <1>2, <1>4, <1>5 DEF Dying
<1>9. Buffer'
  BY <1>1, <1>2 DEF Buffer
<1>10. Counts'
  <2> SUFFICES ASSUME NEW v \in Values PROVE count'[v] = Expected(v)'
    BY DEF Counts
  <2>1. Out(v)' = Gone \cup {c}
    BY <1>1, <1>3, <1>4 DEF Out, Apart, Trial
  <2>2. (Values \ Out(v))' = Alive \ {c}
    BY <2>1 DEF Alive
  <2>3. Expected(v)' = Unit(v \in local) + Refs(elems, Alive \ {c}, v) + Times(elems[c], v)
    BY <1>1, <2>2 DEF Expected
  <2>4. (Alive \ {c}) \cup {c} = Alive \ {cur}
    BY <1>1, <1>5, Sorts DEF Alive
  <2>5. /\ Refs(elems, (Alive \ {c}) \cup {c}, v) = Refs(elems, Alive \ {c}, v) + Times(elems[c], v)
        /\ Refs(elems, Alive \ {c}, v) \in Nat /\ Times(elems[c], v) \in Nat
    <3> DEFINE T == Alive \ {c}
    <3>1. T \subseteq Values /\ c \notin T
      BY DEF Alive
    <3> HIDE DEF T
    <3>2. /\ Refs(elems, T \cup {c}, v) = Refs(elems, T, v) + Times(elems[c], v)
          /\ Refs(elems, T, v) \in Nat /\ Times(elems[c], v) \in Nat
      BY <1>2, <1>5, <3>1, Shape, RefsMore
    <3> QED BY <3>2 DEF T
  <2>6. /\ count[v] = Unit(v \in local) + Refs(elems, Alive \ {cur}, v) + Times(kids, v)
        /\ Unit(v \in local) \in Nat
    BY <1>1, RestCounts
  <2>7. Times(kids, v) = 0
    BY <1>1, TimesEmpty
  <2>8. Refs(elems, Alive \ {cur}, v) = Refs(elems, Alive \ {c}, v) + Times(elems[c], v)
    BY <2>4, <2>5
  <2>9. count'[v] = count[v]
    BY <1>1
  <2> QED BY <2>3, <2>5, <2>6, <2>7, <2>8, <2>9
<1>11. Zero'
  BY <1>1, <1>2, <1>4, <1>5 DEF Zero
<1>12. NonZero'
  <2>1. \A v \in Alive : v # cur
    BY <1>1, Sorts DEF Alive
  <2> QED BY <1>1, <1>2, <1>4, <1>5, <2>1 DEF NonZero, Colored
<1>13. Traversed'
  BY <1>1, <1>2, <1>4 DEF Traversed
<1>14. GrayReached' /\ ScanReaches' /\ WhiteReached'
  BY <1>1 DEF GrayReached, ScanReaches, WhiteReached
<1>15. NoneLost'
  <2>1. Grounded(Alive \ (local \cup ToSet(roots) \cup ToSet(kids) \cup ToSet(dying) \cup {cur}), Alive \ {cur})
    BY <1>1, <1>2 DEF NoneLost
  <2>2. ASSUME NEW U,
               U \subseteq Alive \ (local \cup ToSet(roots) \cup ToSet(kids') \cup ToSet(dying') \cup {c}),
               \A v \in (Alive \ {c}) \ U : \A w \in U : w \notin ToSet(elems[v])
        PROVE  U = {}
    <3>1. U \subseteq Alive \ (local \cup ToSet(roots) \cup ToSet(kids) \cup ToSet(dying) \cup {cur})
      BY <1>1, <1>3, <1>5, <2>2, Sorts DEF Alive
    <3>2. Isolated(Alive \ {cur}, U)
      BY <1>1, <2>2 DEF Isolated
    <3> QED BY <2>1, <3>1, <3>2 DEF Grounded
  <2>3. Grounded(Alive \ (local \cup ToSet(roots) \cup ToSet(kids) \cup ToSet(dying) \cup {cur}), Alive \ {cur})'
    BY <1>1, <1>4, <2>2 DEF Grounded, Isolated
  <2> QED BY <1>1, <2>3 DEF NoneLost
<1> QED BY <1>6, <1>7, <1>8, <1>9, <1>10, <1>11, <1>12, <1>13, <1>14, <1>15 DEF IInv

LEMMA BuryStep == ASSUME IInv, Bury PROVE IInv'
<1>1. /\ pc = "release" /\ kids = <<>> /\ cur # Null /\ cur' = Null
      /\ dead' = [dead EXCEPT ![cur] = TRUE]
      /\ freed' = [freed EXCEPT ![cur] = ~buffered[cur]]
      /\ UNCHANGED <<elems, count, color, buffered, roots, limit, due, local, ops, pc>>
      /\ UNCHANGED <<kids, dying, todo, kept, stack, black, garbage>>
  BY DEF Bury, buffer, prog, collect
<1>2. Types /\ TypeOK /\ Phases /\ Dying /\ Buffer /\ Counts /\ Zero /\ NonZero /\ Traversed /\ NoneLost
  BY DEF IInv, Types
<1>3. /\ todo = <<>> /\ kept = <<>> /\ stack = <<>> /\ black = <<>> /\ garbage = <<>>
      /\ Gray = {} /\ White = {} /\ ToSet(<<>>) = {}
      /\ Colored("gray") = {} /\ Colored("white") = {}
  BY <1>1, <1>2, ToSetEmpty DEF Phases, Gray, White
<1>4. cur \in Objects /\ cur \in Values /\ cur \in Alive /\ cur \notin ToSet(dying) /\ ~freed[cur]
  BY <1>1, <1>2, Sorts DEF TypeOK, Dying, Alive, Gone
<1>5. /\ dead'[cur] = TRUE /\ freed'[cur] = ~buffered[cur]
      /\ \A v \in Values \ {cur} : dead'[v] = dead[v] /\ freed'[v] = freed[v]
      /\ dead' \in [Values -> BOOLEAN] /\ freed' \in [Values -> BOOLEAN] /\ buffered \in [Values -> BOOLEAN]
  BY <1>1, <1>2, <1>4 DEF TypeOK
<1>6. Gone' = Gone \cup {cur} /\ Alive' = Alive \ {cur} /\ \A x : Colored(x)' = Colored(x)
  <2>1. Gone' = Gone \cup {cur}
    BY <1>4, <1>5 DEF Gone, Alive
  <2> QED BY <1>1, <2>1 DEF Alive, Colored
<1>7. Types'
  <2>1. TypeOK'
    BY <1>1, <1>2, <1>5 DEF TypeOK
  <2>2. \A v \in Leaves : v \in Values \ {cur}
    BY <1>4, Sorts
  <2> QED BY <1>1, <1>2, <1>5, <2>1, <2>2 DEF Types
<1>8. Phases'
  BY <1>1, <1>2, <1>3, <1>6 DEF Phases
<1>9. Dying'
  BY <1>1, <1>2, <1>4, <1>6 DEF Dying
<1>10. Buffer'
  <2>1. \A v \in Values : /\ buffered[v] => ~freed'[v]
                          /\ ~freed'[v] => ~freed[v]
                          /\ dead'[v] /\ ~freed'[v] => buffered[v]
    BY <1>1, <1>2, <1>4, <1>5 DEF Buffer
  <2> QED BY <1>1, <1>2, <2>1 DEF Buffer
<1>11. Counts'
  <2> SUFFICES ASSUME NEW v \in Values PROVE count'[v] = Expected(v)'
    BY DEF Counts
  <2>1. Out(v)' = Gone \cup {cur} \cup {Null}
    BY <1>1, <1>3, <1>6 DEF Out, Apart, Trial
  <2>2. (Values \ Out(v))' = Alive \ {cur}
    BY <2>1, Sorts DEF Alive
  <2>3. Expected(v)' = Unit(v \in local) + Refs(elems, Alive \ {cur}, v) + Times(kids, v)
    BY <1>1, <2>2 DEF Expected
  <2> QED BY <1>1, <2>3, RestCounts
<1>12. Zero'
  BY <1>1, <1>2, <1>6 DEF Zero
<1>13. NonZero'
  BY <1>1, <1>2, <1>6 DEF NonZero
<1>14. Traversed'
  BY <1>1, <1>2, <1>3, <1>6 DEF Traversed, Gray, White
<1>15. GrayReached' /\ ScanReaches' /\ WhiteReached'
  BY <1>1 DEF GrayReached, ScanReaches, WhiteReached
<1>16. NoneLost'
  <2>1. Grounded(Alive \ (local \cup ToSet(roots) \cup ToSet(kids) \cup ToSet(dying) \cup {cur}), Alive \ {cur})
    BY <1>1, <1>2 DEF NoneLost
  <2>2. /\ (Alive \ {cur})' = Alive \ {cur}
        /\ (Alive \ (local \cup ToSet(roots) \cup ToSet(kids) \cup ToSet(dying) \cup {cur}))'
           = Alive \ (local \cup ToSet(roots) \cup ToSet(kids) \cup ToSet(dying) \cup {cur})
    BY <1>1, <1>6, Sorts DEF Alive
  <2>3. Grounded(Alive \ (local \cup ToSet(roots) \cup ToSet(kids) \cup ToSet(dying) \cup {cur}), Alive \ {cur})'
    BY <1>1, <2>1, <2>2 DEF Grounded, Isolated
  <2> QED BY <1>1, <2>3 DEF NoneLost
<1> QED BY <1>7, <1>8, <1>9, <1>10, <1>11, <1>12, <1>13, <1>14, <1>15, <1>16 DEF IInv

LEMMA ReleaseOneStep == ASSUME IInv, ReleaseOne PROVE IInv'
<1> DEFINE t == Head(kids)
<1>1. /\ pc = "release" /\ kids # <<>>
      /\ kids' = Tail(kids)
      /\ count' = [count EXCEPT ![t] = @ - 1]
      /\ dying' = IF count[t] = 1 /\ t \in Objects THEN Append(dying, t) ELSE dying
      /\ freed' = [freed EXCEPT ![t] = @ \/ (count[t] = 1 /\ t \in Leaves)]
      /\ UNCHANGED <<elems, dead, limit, local, ops, pc, cur, todo, kept, stack, black, garbage>>
  BY DEF ReleaseOne, GiveBack, prog, collect
<1>2. Types /\ TypeOK /\ Phases /\ Dying /\ Buffer /\ Counts /\ Zero /\ NonZero /\ Traversed /\ NoneLost
  BY DEF IInv, Types
<1>3. /\ todo = <<>> /\ kept = <<>> /\ stack = <<>> /\ black = <<>> /\ garbage = <<>>
      /\ Gray = {} /\ White = {} /\ ToSet(<<>>) = {}
      /\ Colored("gray") = {} /\ Colored("white") = {}
  BY <1>1, <1>2, ToSetEmpty DEF Phases, Gray, White
<1>4. /\ t \in ToSet(kids) /\ t \in Values /\ Tail(kids) \in Seq(Values)
      /\ ToSet(kids) = {t} \cup ToSet(Tail(kids))
  BY <1>1, <1>2, Shape, HeadTail
<1>5. /\ count[t] > 0 /\ t \in Alive /\ t \notin ToSet(dying) /\ t # cur /\ ~freed[t] /\ ~dead[t]
      /\ count[t] \in Nat
  BY <1>2, <1>4, Held, Live, Shape
<1>6. \/ t \in Objects /\ count[t] > 1
      \/ t \in Objects /\ count[t] = 1
      \/ t \in Leaves
  BY <1>4, <1>5, Sorts
<1>7. IF t \in Objects /\ count[t] > 1
        THEN /\ color' = [color EXCEPT ![t] = "purple"]
             /\ buffered' = [buffered EXCEPT ![t] = TRUE]
             /\ IF buffered[t]
                  THEN UNCHANGED <<roots, due>>
                  ELSE roots' = Append(roots, t) /\ due' = (due \/ Len(roots') >= limit)
        ELSE UNCHANGED <<color, buffered, roots, due>>
  BY DEF ReleaseOne, Shared, PossibleRoot
<1> HIDE DEF t
<1>8. /\ count'[t] = count[t] - 1 /\ \A v \in Values \ {t} : count'[v] = count[v]
      /\ count' \in [Values -> Nat]
  <2>1. count \in [Values -> Nat] /\ count' = [count EXCEPT ![t] = @ - 1]
    BY <1>1, <1>2 DEF TypeOK
  <2>2. count[t] - 1 \in Nat
    BY <1>5
  <2> QED BY <1>4, <2>1, <2>2
<1>9. /\ dying' \in Seq(Objects) /\ IsInjective(dying') /\ ToSet(dying) \subseteq ToSet(dying')
      /\ \A v \in ToSet(dying') : v \in ToSet(dying) \/ (v = t /\ t \in Objects /\ count[t] = 1)
      /\ t \in Objects /\ count[t] = 1 => t \in ToSet(dying')
  <2>1. dying \in Seq(Objects) /\ IsInjective(dying)
    BY <1>2 DEF TypeOK, Dying
  <2>2. CASE count[t] = 1 /\ t \in Objects
    <3>1. dying' = Append(dying, t)
      BY <1>1, <2>2
    <3>2. /\ Append(dying, t) \in Seq(Objects) /\ ToSet(Append(dying, t)) = ToSet(dying) \cup {t}
          /\ IsInjective(Append(dying, t))
      BY <1>5, <2>1, <2>2, Appended
    <3> QED BY <2>2, <3>1, <3>2
  <2>3. CASE ~(count[t] = 1 /\ t \in Objects)
    BY <1>1, <2>1, <2>3
  <2> QED BY <2>2, <2>3
<1>10. /\ freed' \in [Values -> BOOLEAN] /\ \A v \in Values \ {t} : freed'[v] = freed[v]
       /\ freed'[t] <=> count[t] = 1 /\ t \in Leaves
  BY <1>1, <1>2, <1>4, <1>5 DEF TypeOK
<1>11. /\ roots' \in Seq(Objects) /\ due' \in BOOLEAN /\ IsInjective(roots')
       /\ buffered' \in [Values -> BOOLEAN] /\ color' \in [Values -> Colors]
       /\ \A v \in Values \ {t} : color'[v] = color[v] /\ buffered'[v] = buffered[v]
       /\ \A v \in Values \ {t} : v \in ToSet(roots') <=> v \in ToSet(roots)
       /\ t \in Objects /\ count[t] > 1 => color'[t] = "purple" /\ buffered'[t] /\ t \in ToSet(roots')
       /\ ~(t \in Objects /\ count[t] > 1) =>
            color'[t] = color[t] /\ buffered'[t] = buffered[t] /\ roots' = roots
       /\ ToSet(roots) \subseteq ToSet(roots')
       /\ Len(roots') >= limit => due'
  <2>1. /\ roots \in Seq(Objects) /\ due \in BOOLEAN /\ IsInjective(roots)
        /\ buffered \in [Values -> BOOLEAN] /\ color \in [Values -> Colors]
        /\ (buffered[t] <=> t \in ToSet(roots)) /\ (Len(roots) >= limit => due)
    BY <1>1, <1>2, <1>4 DEF TypeOK, Buffer
  <2>2. CASE t \in Objects /\ count[t] > 1
    <3>1. color' = [color EXCEPT ![t] = "purple"] /\ buffered' = [buffered EXCEPT ![t] = TRUE]
      BY <1>7, <2>2
    <3>2. /\ buffered' \in [Values -> BOOLEAN] /\ color' \in [Values -> Colors]
          /\ \A v \in Values \ {t} : color'[v] = color[v] /\ buffered'[v] = buffered[v]
          /\ color'[t] = "purple" /\ buffered'[t]
      BY <1>4, <2>1, <3>1 DEF Colors
    <3>3. CASE buffered[t]
      BY <1>7, <2>1, <2>2, <3>2, <3>3
    <3>4. CASE ~buffered[t]
      <4>1. roots' = Append(roots, t) /\ due' = (due \/ Len(roots') >= limit)
        BY <1>7, <2>2, <3>4
      <4>2. /\ Append(roots, t) \in Seq(Objects) /\ ToSet(Append(roots, t)) = ToSet(roots) \cup {t}
            /\ IsInjective(Append(roots, t))
        BY <2>1, <2>2, <3>4, Appended
      <4> QED BY <2>1, <2>2, <3>2, <4>1, <4>2
    <3> QED BY <3>3, <3>4
  <2>3. CASE ~(t \in Objects /\ count[t] > 1)
    <3>1. UNCHANGED <<color, buffered, roots, due>>
      BY <1>7, <2>3
    <3> QED BY <2>1, <2>3, <3>1
  <2> QED BY <2>2, <2>3
<1>12. /\ \A v \in Values \ {t} : v \in Gone' <=> v \in Gone
       /\ t \notin Gone /\ (t \in Gone' <=> count[t] = 1 /\ t \in Leaves)
       /\ Gone' \subseteq Values
  BY <1>1, <1>4, <1>5, <1>10 DEF Gone
<1>13. /\ \A v \in Values \ {t} : v \in Alive' <=> v \in Alive
       /\ (t \in Alive' <=> ~(count[t] = 1 /\ t \in Leaves))
       /\ Alive' \subseteq Alive /\ Alive \subseteq Values
  BY <1>4, <1>5, <1>12 DEF Alive
<1>14. Colored("gray")' = {} /\ Colored("white")' = {} /\ Gray' = {} /\ White' = {}
  <2>1. \A v \in Values : color[v] # "gray" /\ color[v] # "white"
    BY <1>3 DEF Colored
  <2>2. \A v \in Values : color'[v] # "gray" /\ color'[v] # "white"
    <3>1. color'[t] = "purple" \/ color'[t] = color[t]
      BY <1>11
    <3> QED BY <1>11, <2>1, <3>1
  <2> QED BY <2>2 DEF Colored, Gray, White
<1>15. Types'
  <2>1. TypeOK'
    BY <1>1, <1>2, <1>4, <1>8, <1>9, <1>10, <1>11 DEF TypeOK
  <2>2. \A v \in Leaves : ~buffered'[v] /\ color'[v] = "black"
    <3>1. \A v \in Leaves : v \in Values /\ v \notin Objects
      BY Sorts
    <3> QED BY <1>2, <1>11, <3>1 DEF Types
  <2> QED BY <1>1, <1>2, <2>1, <2>2 DEF Types
<1>16. Phases'
  BY <1>1, <1>3, <1>14 DEF Phases
<1>17. Dying'
  <2>1. ToSet(dying') \subseteq Alive'
    <3> SUFFICES ASSUME NEW v \in ToSet(dying') PROVE v \in Alive'
      OBVIOUS
    <3>1. CASE v \in ToSet(dying)
      BY <1>2, <1>5, <1>13, <3>1 DEF Dying
    <3>2. CASE v = t /\ t \in Objects /\ count[t] = 1
      BY <1>13, <3>2, Sorts
    <3> QED BY <1>9, <3>1, <3>2
  <2>2. cur # Null => cur \in Alive' /\ cur \notin ToSet(dying')
    BY <1>2, <1>5, <1>9, <1>13 DEF Dying
  <2> QED BY <1>1, <1>9, <2>1, <2>2 DEF Dying
<1>18. Buffer'
  <2>1. ASSUME NEW v \in Values
        PROVE  /\ buffered'[v] <=> v \in ToSet(roots')
               /\ buffered'[v] => ~freed'[v]
               /\ ~freed'[v] => color'[v] = IF buffered'[v] THEN "purple" ELSE "black"
               /\ dead'[v] /\ ~freed'[v] => buffered'[v]
    <3>1. /\ buffered[v] <=> v \in ToSet(roots)
          /\ buffered[v] => ~freed[v]
          /\ ~freed[v] => color[v] = IF buffered[v] THEN "purple" ELSE "black"
          /\ dead[v] /\ ~freed[v] => buffered[v]
      BY <1>1, <1>2 DEF Buffer
    <3>2. CASE v # t
      BY <1>1, <1>10, <1>11, <3>1, <3>2
    <3>3. CASE v = t
      <4>1. CASE t \in Objects /\ count[t] > 1
        BY <1>1, <1>5, <1>10, <1>11, <3>3, <4>1, Sorts
      <4>2. CASE ~(t \in Objects /\ count[t] > 1)
        <5>1. t \in Leaves => ~buffered[t]
          BY <1>2 DEF Types
        <5>2. t \in Objects => ~freed'[t]
          BY <1>10, Sorts
        <5> QED BY <1>1, <1>4, <1>5, <1>11, <3>1, <3>3, <4>2, <5>1, <5>2, Sorts
      <4> QED BY <4>1, <4>2
    <3> QED BY <3>2, <3>3
  <2>2. limit' > 0 /\ (Len(roots') >= limit' => due')
    BY <1>1, <1>2, <1>11 DEF Buffer
  <2> QED BY <1>1, <1>11, <2>1, <2>2 DEF Buffer
<1>19. \A v \in Values : Expected(v)' = Unit(v \in local) + Refs(elems, Alive' \ {cur}, v) + Times(Tail(kids), v)
  <2> SUFFICES ASSUME NEW v \in Values
               PROVE  Expected(v)' = Unit(v \in local) + Refs(elems, Alive' \ {cur}, v) + Times(Tail(kids), v)
    OBVIOUS
  <2>1. Out(v)' = Gone' \cup {cur}
    BY <1>1, <1>3, <1>14 DEF Out, Apart, Trial, Gray, White
  <2>2. (Values \ Out(v))' = Alive' \ {cur}
    BY <2>1 DEF Alive
  <2> QED BY <1>1, <2>2 DEF Expected
<1>20. Counts'
  <2> SUFFICES ASSUME NEW v \in Values PROVE count'[v] = Expected(v)'
    BY DEF Counts
  <2>3. Expected(v)' = Unit(v \in local) + Refs(elems, Alive' \ {cur}, v) + Times(Tail(kids), v)
    BY <1>19
  <2>4. Refs(elems, Alive' \ {cur}, v) = Refs(elems, Alive \ {cur}, v)
    <3>1. CASE t \in Alive'
      <4>1. Alive' = Alive
        BY <1>5, <1>13, <3>1
      <4> QED BY <4>1
    <3>2. CASE t \notin Alive'
      <4> DEFINE T == Alive' \ {cur}
      <4>1. T \subseteq Values /\ t \notin T /\ T \cup {t} = Alive \ {cur}
        BY <1>4, <1>5, <1>13, <3>2
      <4>2. elems[t] = <<>>
        BY <1>2, <1>13, <3>2 DEF Types
      <4> HIDE DEF T
      <4>3. Refs(elems, T \cup {t}, v) = Refs(elems, T, v) + Times(elems[t], v) /\ Refs(elems, T, v) \in Nat
        <5>1. Graph(elems)
          BY <1>2, Shape
        <5>2. T \subseteq Values /\ t \in Values /\ t \notin T
          BY <1>4, <4>1
        <5> QED BY <5>1, <5>2, RefsMore
      <4>4. Times(elems[t], v) = 0
        BY <4>2, TimesEmpty
      <4>5. Refs(elems, T \cup {t}, v) = Refs(elems, T, v)
        BY <4>3, <4>4
      <4> QED BY <4>1, <4>5 DEF T
    <3> QED BY <3>1, <3>2
  <2>5. /\ count[v] = Unit(v \in local) + Refs(elems, Alive \ {cur}, v) + Times(kids, v)
        /\ {Unit(v \in local), Refs(elems, Alive \ {cur}, v), Times(kids, v)} \subseteq Nat
    BY <1>1, RestCounts
  <2>6. Times(kids, v) = Times(Tail(kids), v) + Unit(v = t) /\ Times(Tail(kids), v) \in Nat
    BY <1>1, <1>2, Shape, TimesTail DEF t
  <2>7. count'[v] + Unit(v = t) = count[v] /\ count'[v] \in Nat /\ Unit(v = t) \in Nat
    BY <1>5, <1>8 DEF Unit
  <2> QED BY <2>3, <2>4, <2>5, <2>6, <2>7
<1>21. Zero'
  <2> SUFFICES ASSUME NEW v \in Gone' \cup ToSet(dying') \cup ({cur} \ {Null}) PROVE count'[v] = 0
    BY <1>1, <1>3, <1>14 DEF Zero
  <2>1. v \in Values
    BY <1>2, <1>9, <1>12, Member, Sorts DEF TypeOK
  <2>2. CASE v = t
    <3>1. count[t] = 1
      BY <1>5, <1>9, <1>12, <2>2
    <3> QED BY <1>8, <2>2, <3>1
  <2>3. CASE v # t
    <3>1. v \in Gone \cup ToSet(dying) \cup ({cur} \ {Null})
      BY <1>9, <1>12, <2>1, <2>3
    <3>2. count[v] = 0
      BY <1>2, <3>1 DEF Zero
    <3> QED BY <1>8, <2>1, <2>3, <3>2
  <2> QED BY <2>2, <2>3
<1>22. NonZero'
  <2> SUFFICES ASSUME NEW v \in Alive', count'[v] = 0 PROVE v \in ToSet(dying') \/ v = cur'
    BY DEF NonZero
  <2>1. v \in Values /\ v \in Alive
    BY <1>13
  <2>2. CASE v = t
    <3>1. count[t] = 1
      BY <1>5, <1>8, <2>2
    <3>2. t \in Objects
      BY <1>4, <1>13, <2>2, <3>1, Sorts
    <3> QED BY <1>9, <2>2, <3>1, <3>2
  <2>3. CASE v # t
    <3>1. count[v] = 0
      BY <1>8, <2>1, <2>3
    <3>2. color[v] \notin {"gray", "white"} /\ v \notin ToSet(garbage) /\ pc # "gray"
      BY <1>1, <1>3, <2>1 DEF Colored
    <3>3. v \in ToSet(dying) \/ v = cur
      BY <1>2, <2>1, <3>1, <3>2 DEF NonZero
    <3> QED BY <1>1, <1>9, <3>3
  <2> QED BY <2>2, <2>3
<1>23. Traversed'
  BY <1>1, <1>3, <1>14, EmptyInjective DEF Traversed, Gray, White
<1>24. GrayReached' /\ ScanReaches' /\ WhiteReached'
  BY <1>1 DEF GrayReached, ScanReaches, WhiteReached
<1>25. NoneLost'
  <2>1. Grounded(Alive \ (local \cup ToSet(roots) \cup ToSet(kids) \cup ToSet(dying) \cup {cur}), Alive \ {cur})
    BY <1>1, <1>2 DEF NoneLost
  <2>2. ASSUME NEW U,
               U \subseteq Alive' \ (local \cup ToSet(roots') \cup ToSet(Tail(kids)) \cup ToSet(dying') \cup {cur}),
               \A v \in (Alive' \ {cur}) \ U : \A w \in U : w \notin ToSet(elems[v])
        PROVE  U = {}
    <3> DEFINE W == U \ {t}
    <3>1. W \subseteq Alive \ (local \cup ToSet(roots) \cup ToSet(kids) \cup ToSet(dying) \cup {cur})
      BY <1>4, <1>9, <1>11, <1>13, <2>2
    <3>2. t \in Leaves \/ t \notin U
      BY <1>6, <1>9, <1>11, <2>2
    <3>3. Isolated(Alive \ {cur}, W)
      <4> SUFFICES ASSUME NEW v \in (Alive \ {cur}) \ W, NEW w \in W PROVE w \notin ToSet(elems[v])
        BY DEF Isolated
      <4>1. CASE v = t /\ t \in Leaves
        BY <1>2, <4>1, Shape
      <4>2. CASE ~(v = t /\ t \in Leaves)
        <5>1. v \in Alive' /\ v \notin U
          BY <1>13, <3>2, <4>2
        <5> QED BY <2>2, <5>1
      <4> QED BY <4>1, <4>2
    <3>4. W = {}
      BY <2>1, <3>1, <3>3 DEF Grounded
    <3>5. CASE t \notin U
      BY <3>4, <3>5
    <3>6. CASE t \in U
      <4>1. t \in Leaves /\ t \in Alive' /\ t \notin local /\ t \notin ToSet(kids') /\ U = {t}
        BY <1>1, <2>2, <3>2, <3>4, <3>6
      <4>2. count'[t] > 0
        BY <1>5, <1>8, <1>13, <4>1
      <4>3. PICK y \in Alive' \ {cur} : t \in ToSet(elems[y])
        <5>1. \A v \in Values : count'[v] = Unit(v \in local) + Refs(elems, Alive' \ {cur}, v) + Times(Tail(kids), v)
          BY <1>20, <1>19 DEF Counts
        <5>2. count'[t] = Unit(t \in local) + Refs(elems, Alive' \ {cur}, t) + Times(Tail(kids), t)
          BY <1>4, <5>1
        <5>3. Unit(t \in local) = 0
          BY <4>1 DEF Unit
        <5>4. Times(Tail(kids), t) = 0
          <6>1. Times(Tail(kids), t) \in Nat /\ (Times(Tail(kids), t) > 0 <=> t \in ToSet(Tail(kids)))
            BY <1>4, TimesMember
          <6> QED BY <1>1, <4>1, <6>1
        <5> DEFINE S == Alive' \ {cur}
        <5>5. S \subseteq Values
          BY <1>13
        <5> HIDE DEF S
        <5>6. Refs(elems, S, t) \in Nat /\ (Refs(elems, S, t) > 0 <=> \E u \in S : t \in ToSet(elems[u]))
          BY <1>2, <5>5, Shape, RefsType
        <5>7. Refs(elems, S, t) > 0
          BY <4>2, <5>2, <5>3, <5>4, <5>6 DEF S
        <5> QED BY <5>6, <5>7 DEF S
      <4>4. y # t
        BY <1>2, <4>1, <4>3, Shape
      <4> QED BY <2>2, <4>1, <4>3, <4>4
    <3> QED BY <3>5, <3>6
  <2>3. Grounded(Alive \ (local \cup ToSet(roots) \cup ToSet(kids) \cup ToSet(dying) \cup {cur}), Alive \ {cur})'
    BY <1>1, <2>2 DEF Grounded, Isolated
  <2> QED BY <1>1, <2>3 DEF NoneLost
<1> QED BY <1>15, <1>16, <1>17, <1>18, <1>20, <1>21, <1>22, <1>23, <1>24, <1>25 DEF IInv

-----------------------------------------------------------------------------
(* The first traversal: mark_gray                                          *)

LEMMA Collecting ==
  ASSUME IInv, pc \in {"gray", "scan", "white"}
  PROVE  /\ kids = <<>> /\ cur = Null /\ dying = <<>> /\ ~due
         /\ ToSet(kids) = {} /\ ToSet(dying) = {}
         /\ \A v \in Alive : v \in Values /\ v # cur
         /\ \A v \in Values : /\ count[v] = Unit(v \in local) + Refs(elems, Values \ Out(v), v)
                              /\ {Unit(v \in local), Refs(elems, Values \ Out(v), v)} \subseteq Nat
                              /\ count[v] > 0 <=> \/ v \in local
                                                  \/ \E u \in Values \ Out(v) : v \in ToSet(elems[u])
<1>1. kids = <<>> /\ cur = Null /\ dying = <<>> /\ ~due
  BY DEF IInv, Phases
<1>2. ToSet(kids) = {} /\ ToSet(dying) = {}
  BY <1>1, ToSetEmpty
<1>3. \A v \in Alive : v \in Values /\ v # cur
  BY <1>1, Sorts DEF Alive
<1>4. ASSUME NEW v \in Values
      PROVE  /\ count[v] = Unit(v \in local) + Refs(elems, Values \ Out(v), v)
             /\ {Unit(v \in local), Refs(elems, Values \ Out(v), v)} \subseteq Nat
  <2> DEFINE R == Refs(elems, Values \ Out(v), v)
  <2>1. count[v] = Unit(v \in local) + R + Times(kids, v)
    BY DEF IInv, Counts, Expected
  <2>2. Times(kids, v) = 0
    BY <1>1, TimesEmpty
  <2>3. R \in Nat
    <3>1. Values \ Out(v) \subseteq Values
      OBVIOUS
    <3> QED BY <3>1, Shape, RefsType DEF IInv
  <2> HIDE DEF R
  <2>4. Unit(v \in local) \in Nat
    BY DEF Unit
  <2>5. count[v] = Unit(v \in local) + R
    BY <2>1, <2>2, <2>3, <2>4
  <2> QED BY <2>3, <2>4, <2>5 DEF R
<1>5. ASSUME NEW v \in Values
      PROVE  count[v] > 0 <=> \/ v \in local
                              \/ \E u \in Values \ Out(v) : v \in ToSet(elems[u])
  BY <1>2, Counted DEF IInv
<1> QED BY <1>1, <1>2, <1>3, <1>4, <1>5

LEMMA NextRootStep == ASSUME IInv, NextRoot PROVE IInv'
<1> DEFINE s == Head(todo)
<1>1. /\ pc = "gray" /\ stack = <<>> /\ black = <<>> /\ garbage = <<>>
      /\ todo # <<>> /\ todo' = Tail(todo)
      /\ IF color[s] = "purple" /\ count[s] > 0
           THEN /\ stack' = <<s>> /\ kept' = Append(kept, s) /\ UNCHANGED <<buffered, freed>>
           ELSE /\ buffered' = [buffered EXCEPT ![s] = FALSE]
                /\ freed' = [freed EXCEPT ![s] = @ \/ dead[s]]
                /\ UNCHANGED <<stack, kept>>
      /\ UNCHANGED <<elems, count, color, dead, roots, limit, due, local, ops, pc, kids, cur, dying, black, garbage>>
  BY DEF NextRoot, At, buffer, prog, destroy
<1>2. Types /\ TypeOK /\ Phases /\ Dying /\ Buffer /\ Counts /\ Zero /\ NonZero /\ Traversed /\ NoneLost /\ GrayReached
  BY DEF IInv, Types
<1>3. ToSet(stack) = {} /\ ToSet(garbage) = {} /\ ToSet(dying) = {} /\ cur = Null /\ ToSet(<<>>) = {}
  BY <1>1, Collecting, ToSetEmpty
<1>4. /\ s \in Objects /\ s \in Values /\ s \in ToSet(todo) /\ todo' \in Seq(Objects)
      /\ ToSet(todo) = {s} \cup ToSet(todo')
  <2>1. todo \in Seq(Objects)
    BY <1>2 DEF TypeOK
  <2> QED BY <1>1, <2>1, HeadTail, Sorts
<1> HIDE DEF s
<1>5. CASE color[s] = "purple" /\ count[s] > 0
  <2>1. stack' = <<s>> /\ kept' = Append(kept, s) /\ UNCHANGED <<buffered, freed>>
    BY <1>1, <1>5
  <2>2. /\ stack' \in Seq(Objects) /\ ToSet(stack') = {s}
        /\ kept' \in Seq(Objects) /\ ToSet(kept') = ToSet(kept) \cup {s}
    BY <1>2, <1>4, <2>1, Single, Appended DEF TypeOK
  <2>3. s \in Alive /\ ~dead[s]
    BY <1>2, <1>4, <1>5, Live
  <2>4. Gone' = Gone /\ Alive' = Alive /\ Gray' = Gray /\ White' = White /\ \A c : Colored(c)' = Colored(c)
    BY <1>1, <2>1 DEF Gone, Alive, Gray, White, Colored
  <2>5. Types'
    BY <1>1, <1>2, <1>4, <2>1, <2>2 DEF Types, TypeOK
  <2>6. Phases'
    BY <1>1, <1>2, <2>4 DEF Phases
  <2>7. Dying'
    BY <1>1, <1>2, <2>4 DEF Dying
  <2>8. Buffer'
    BY <1>1, <1>2, <1>3, <1>4, <2>1, <2>2, <2>3 DEF Buffer
  <2>9. Counts'
    <3>1. \A v \in Values : Out(v)' = Out(v)
      BY <1>1, <2>4 DEF Out, Apart, Trial
    <3>2. \A v \in Values : Expected(v)' = Expected(v)
      BY <1>1, <3>1 DEF Expected
    <3> QED BY <1>1, <1>2, <3>2 DEF Counts
  <2>10. Zero'
    BY <1>1, <1>2, <2>4 DEF Zero
  <2>11. NonZero'
    BY <1>1, <1>2, <1>3, <2>4 DEF NonZero
  <2>12. Traversed'
    BY <1>1, <1>2, <2>2, <2>3, <2>4 DEF Traversed
  <2>13. GrayReached'
    <3>1. Grounded((Gray \cup ToSet(stack)) \ ToSet(kept), Gray)
      BY <1>1, <1>2 DEF GrayReached
    <3>2. Grounded((Gray \cup ToSet(stack)) \ ToSet(kept), Gray)'
      BY <1>1, <1>3, <2>2, <2>4, <3>1 DEF Grounded, Isolated
    <3>3. ToSet(kept') \subseteq Gray' \cup ToSet(stack')
      BY <1>1, <1>2, <1>3, <2>2, <2>4 DEF GrayReached
    <3>4. \A v \in Gray' : ToSet(elems'[v]) \cap Objects \subseteq Gray' \cup ToSet(stack')
      BY <1>1, <1>2, <1>3, <2>2, <2>4 DEF GrayReached
    <3> QED BY <1>1, <3>2, <3>3, <3>4 DEF GrayReached
  <2>14. ScanReaches' /\ WhiteReached'
    BY <1>1 DEF ScanReaches, WhiteReached
  <2>15. NoneLost'
    <3>1. Grounded(Alive \ (local \cup ToSet(todo) \cup ToSet(kept)), Alive)
      BY <1>1, <1>2 DEF NoneLost
    <3>2. Grounded(Alive \ (local \cup ToSet(todo) \cup ToSet(kept)), Alive)'
      BY <1>1, <1>4, <2>2, <2>4, <3>1 DEF Grounded, Isolated
    <3> QED BY <1>1, <3>2 DEF NoneLost
  <2> QED BY <2>5, <2>6, <2>7, <2>8, <2>9, <2>10, <2>11, <2>12, <2>13, <2>14, <2>15 DEF IInv
<1>6. CASE ~(color[s] = "purple" /\ count[s] > 0)
  <2>1. /\ buffered' = [buffered EXCEPT ![s] = FALSE]
        /\ freed' = [freed EXCEPT ![s] = @ \/ dead[s]]
        /\ UNCHANGED <<stack, kept>>
    BY <1>1, <1>6
  <2>2. /\ buffered' \in [Values -> BOOLEAN] /\ freed' \in [Values -> BOOLEAN]
        /\ \A v \in Values \ {s} : buffered'[v] = buffered[v] /\ freed'[v] = freed[v]
        /\ ~buffered'[s] /\ (freed'[s] <=> freed[s] \/ dead[s])
    BY <1>2, <1>4, <2>1 DEF TypeOK
  <2>3. Gone' = Gone
    BY <1>1, <2>2 DEF Gone
  <2>4. Alive' = Alive /\ Gray' = Gray /\ White' = White /\ \A c : Colored(c)' = Colored(c)
    BY <1>1, <2>3 DEF Alive, Gray, White, Colored
  <2>5. \A v \in Values : /\ buffered'[v] => buffered[v] /\ v # s
                          /\ ~freed'[v] => ~freed[v] /\ (v = s => ~dead[s])
    BY <2>2
  <2>6. s \in Alive => s \in Gray
    <3> SUFFICES ASSUME s \in Alive PROVE color[s] = "gray"
      BY <1>4 DEF Gray, Colored
    <3>1. ~freed[s]
      BY DEF Alive, Gone
    <3>2. color[s] \in {"purple", "gray"}
      BY <1>1, <1>2, <1>4, <3>1 DEF Buffer
    <3>3. ASSUME color[s] = "purple" PROVE FALSE
      <4>1. count[s] = 0
        BY <1>2, <1>4, <1>6, <3>3, Shape
      <4> QED BY <1>1, <1>2, <1>3, <3>3, <4>1, Sorts, <1>4 DEF NonZero
    <3> QED BY <3>2, <3>3
  <2>7. Types'
    BY <1>1, <1>2, <1>4, <2>1, <2>2, Sorts DEF Types, TypeOK
  <2>8. Phases'
    BY <1>1, <1>2, <2>1, <2>4 DEF Phases
  <2>9. Dying'
    BY <1>1, <1>2, <2>4 DEF Dying
  <2>10. Buffer'
    <3>1. ASSUME NEW v \in Values
          PROVE  /\ buffered'[v] => v \in ToSet(todo') \cup ToSet(kept)
                 /\ color[v] = "purple" /\ ~freed'[v] => v \in ToSet(todo') \cup ToSet(stack)
                 /\ dead[v] /\ ~freed'[v] => v \in ToSet(todo')
                 /\ v \in ToSet(todo') => freed'[v] \/ color[v] \in {"purple", "gray"}
      <4>1. /\ buffered[v] => v \in ToSet(todo) \cup ToSet(kept)
            /\ color[v] = "purple" /\ ~freed[v] => v \in ToSet(todo) \cup ToSet(stack)
            /\ dead[v] /\ ~freed[v] => v \in ToSet(todo)
            /\ v \in ToSet(todo) => freed[v] \/ color[v] \in {"purple", "gray"}
        BY <1>1, <1>2 DEF Buffer
      <4>2. color[s] = "purple" => freed'[s]
        <5> SUFFICES ASSUME color[s] = "purple", ~freed'[s] PROVE FALSE
          OBVIOUS
        <5>1. s \in Alive
          BY <1>4, <2>2 DEF Alive, Gone
        <5> QED BY <2>6, <5>1 DEF Gray, Colored
      <4>3. freed[v] => freed'[v]
        BY <2>2
      <4> QED BY <1>4, <2>5, <4>1, <4>2, <4>3
    <3>2. limit' > 0
      BY <1>1, <1>2 DEF Buffer
    <3> QED BY <1>1, <2>1, <3>1, <3>2 DEF Buffer
  <2>11. Counts'
    <3>1. \A v \in Values : Out(v)' = Out(v)
      BY <1>1, <2>3, <2>4 DEF Out, Apart, Trial
    <3>2. \A v \in Values : Expected(v)' = Expected(v)
      BY <1>1, <3>1 DEF Expected
    <3> QED BY <1>1, <1>2, <3>2 DEF Counts
  <2>12. Zero'
    BY <1>1, <1>2, <2>3, <2>4 DEF Zero
  <2>13. NonZero'
    BY <1>1, <1>2, <2>1, <2>4 DEF NonZero
  <2>14. Traversed'
    BY <1>1, <1>2, <2>1, <2>4 DEF Traversed
  <2>15. GrayReached'
    <3>1. Grounded((Gray \cup ToSet(stack)) \ ToSet(kept), Gray)
      BY <1>1, <1>2 DEF GrayReached
    <3>2. Grounded((Gray \cup ToSet(stack)) \ ToSet(kept), Gray)'
      BY <1>1, <2>1, <2>4, <3>1 DEF Grounded, Isolated
    <3> QED BY <1>1, <1>2, <2>1, <2>4, <3>2 DEF GrayReached
  <2>16. ScanReaches' /\ WhiteReached'
    BY <1>1 DEF ScanReaches, WhiteReached
  <2>17. NoneLost'
    <3>1. Grounded(Alive \ (local \cup ToSet(todo) \cup ToSet(kept)), Alive)
      BY <1>1, <1>2 DEF NoneLost
    <3>2. ASSUME NEW U, U \subseteq Alive \ (local \cup ToSet(todo') \cup ToSet(kept)), Isolated(Alive, U)
          PROVE  U = {}
      <4>1. Grounded((Gray \cup ToSet(stack)) \ ToSet(kept), Gray)
        BY <1>1, <1>2 DEF GrayReached
      <4> DEFINE W == U \cap Gray
      <4>2. W \subseteq (Gray \cup ToSet(stack)) \ ToSet(kept)
        BY <3>2
      <4>3. Isolated(Gray, W)
        <5>1. Gray \subseteq Alive
          BY <1>2 DEF Traversed, Gray
        <5> QED BY <3>2, <5>1 DEF Isolated
      <4>4. W = {}
        BY <4>1, <4>2, <4>3 DEF Grounded
      <4>5. s \notin U
        BY <2>6, <3>2, <4>4
      <4>6. U \subseteq Alive \ (local \cup ToSet(todo) \cup ToSet(kept))
        BY <1>4, <3>2, <4>5
      <4> QED BY <3>1, <3>2, <4>6 DEF Grounded
    <3>3. Grounded(Alive \ (local \cup ToSet(todo) \cup ToSet(kept)), Alive)'
      BY <1>1, <2>1, <2>4, <3>2 DEF Grounded, Isolated
    <3> QED BY <1>1, <3>3 DEF NoneLost
  <2> QED BY <2>7, <2>8, <2>9, <2>10, <2>11, <2>12, <2>13, <2>14, <2>15, <2>16, <2>17 DEF IInv
<1> QED BY <1>5, <1>6

LEMMA MarkGrayStep == ASSUME IInv, MarkGray PROVE IInv'
<1> DEFINE x == Last(stack)
<1>1. /\ pc = "gray" /\ stack # <<>>
      /\ IF color[x] = "gray" THEN stack' = Front(stack) /\ UNCHANGED <<color, count>>
         ELSE /\ color' = [color EXCEPT ![x] = "gray"]
              /\ count' = [v \in Values |-> IF v \in Objects THEN count[v] - Times(elems[x], v) ELSE count[v]]
              /\ stack' = Front(stack) \o CyclicChildren(x)
      /\ UNCHANGED <<elems, buffered, dead, freed, roots, limit, due, local, ops, pc, kids, cur, dying>>
      /\ UNCHANGED <<todo, kept, black, garbage>>
  BY DEF MarkGray, TakeOut, Popped, buffer, prog, destroy
<1>2. Types /\ TypeOK /\ Phases /\ Dying /\ Buffer /\ Counts /\ Zero /\ NonZero /\ Traversed /\ NoneLost /\ GrayReached
  BY DEF IInv, Types
<1>3. /\ black = <<>> /\ garbage = <<>> /\ White = {} /\ Colored("white") = {}
      /\ ToSet(black) = {} /\ ToSet(garbage) = {} /\ ToSet(dying) = {} /\ cur = Null
  BY <1>1, <1>2, Collecting, ToSetEmpty DEF Phases, White
<1>4. /\ x \in Objects /\ x \in Values /\ x \in ToSet(stack) /\ Front(stack) \in Seq(Objects)
      /\ ToSet(stack) = ToSet(Front(stack)) \cup {x}
  <2>1. stack \in Seq(Objects)
    BY <1>2 DEF TypeOK
  <2> QED BY <1>1, <2>1, FrontLast, Sorts
<1>5. Gone' = Gone /\ Alive' = Alive /\ ToSet(stack) \subseteq Alive /\ x \in Alive
      /\ \A v \in Alive : ToSet(elems[v]) \subseteq Alive
  BY <1>1, <1>2, <1>4 DEF Gone, Alive, Traversed
<1> DEFINE S == Front(stack)
<1> HIDE DEF x, S
<1>6. ScanReaches' /\ WhiteReached'
  BY <1>1 DEF ScanReaches, WhiteReached
<1>7. NoneLost'
  <2>1. Grounded(Alive \ (local \cup ToSet(todo) \cup ToSet(kept)), Alive)
    BY <1>1, <1>2 DEF NoneLost
  <2>2. Grounded(Alive \ (local \cup ToSet(todo) \cup ToSet(kept)), Alive)'
    BY <1>1, <1>5, <2>1 DEF Grounded, Isolated
  <2> QED BY <1>1, <2>2 DEF NoneLost
<1>8. CASE color[x] = "gray"
  <2>1. stack' = S /\ UNCHANGED <<color, count>>
    BY <1>1, <1>8 DEF S
  <2>2. Gray' = Gray /\ White' = White /\ (\A c : Colored(c)' = Colored(c)) /\ x \in Gray
    BY <1>4, <1>8, <2>1 DEF Gray, White, Colored
  <2>3. ToSet(stack) = ToSet(stack') \cup {x} /\ stack' \in Seq(Objects)
    BY <1>4, <2>1 DEF S
  <2>4. Types'
    BY <1>1, <1>2, <2>1, <2>3 DEF Types, TypeOK
  <2>5. Phases'
    BY <1>1, <1>2, <2>2 DEF Phases
  <2>6. Dying'
    BY <1>1, <1>2, <1>5 DEF Dying
  <2>7. Buffer'
    BY <1>1, <1>2, <1>8, <2>1, <2>3 DEF Buffer
  <2>8. Counts'
    <3>1. \A v \in Values : Out(v)' = Out(v)
      BY <1>1, <1>5, <2>2 DEF Out, Apart, Trial
    <3>2. \A v \in Values : Expected(v)' = Expected(v)
      BY <1>1, <3>1 DEF Expected
    <3> QED BY <1>2, <2>1, <3>2 DEF Counts
  <2>9. Zero'
    BY <1>1, <1>2, <1>5, <2>1, <2>2 DEF Zero
  <2>10. NonZero'
    BY <1>1, <1>2, <1>5, <1>8, <2>1, <2>3 DEF NonZero
  <2>11. Traversed'
    BY <1>1, <1>2, <1>5, <2>2, <2>3 DEF Traversed
  <2>12. GrayReached'
    <3>1. Gray' \cup ToSet(stack') = Gray \cup ToSet(stack)
      BY <2>2, <2>3
    <3>2. Grounded((Gray \cup ToSet(stack)) \ ToSet(kept), Gray)
      BY <1>1, <1>2 DEF GrayReached
    <3>3. Grounded((Gray \cup ToSet(stack)) \ ToSet(kept), Gray)'
      BY <1>1, <2>2, <3>1, <3>2 DEF Grounded, Isolated
    <3>4. ToSet(kept) \subseteq Gray \cup ToSet(stack)
      BY <1>1, <1>2 DEF GrayReached
    <3>5. \A v \in Gray : ToSet(elems[v]) \cap Objects \subseteq Gray \cup ToSet(stack)
      BY <1>1, <1>2 DEF GrayReached
    <3> QED BY <1>1, <2>2, <3>1, <3>3, <3>4, <3>5 DEF GrayReached
  <2> QED BY <1>6, <1>7, <2>4, <2>5, <2>6, <2>7, <2>8, <2>9, <2>10, <2>11, <2>12 DEF IInv
<1>9. CASE color[x] # "gray"
  <2> DEFINE K == ToSet(elems[x]) \cap Objects
  <2>1. /\ color' = [color EXCEPT ![x] = "gray"]
        /\ count' = [v \in Values |-> IF v \in Objects THEN count[v] - Times(elems[x], v) ELSE count[v]]
        /\ stack' = S \o CyclicChildren(x)
    BY <1>1, <1>9 DEF S
  <2>2. stack' \in Seq(Objects) /\ ToSet(stack') = ToSet(S) \cup K /\ K \subseteq Alive
    <3>1. CyclicChildren(x) \in Seq(Objects) /\ ToSet(CyclicChildren(x)) = K
      BY <1>2, <1>4, Shape
    <3> QED BY <1>4, <1>5, <2>1, <3>1, Concat DEF S
  <2>3. ToSet(stack) = ToSet(S) \cup {x}
    BY <1>4 DEF S
  <2>4. /\ \A v \in Values \ {x} : color'[v] = color[v]
        /\ color'[x] = "gray" /\ color' \in [Values -> Colors]
    BY <1>2, <1>4, <2>1 DEF TypeOK, Colors
  <2>5. /\ Gray' = Gray \cup {x} /\ White' = {} /\ x \notin Gray
        /\ Colored("gray")' = Gray \cup {x} /\ Colored("white")' = {} /\ Colored("gray") = Gray
    BY <1>3, <1>4, <1>9, <2>4 DEF Gray, White, Colored
  <2>6. \A v \in Objects : /\ Values \ Out(v) = Alive \ Gray
                           /\ (Values \ Out(v))' = (Alive \ Gray) \ {x}
    BY <1>1, <1>3, <1>5, <2>5, Sorts DEF Out, Apart, Trial, Alive
  <2>7. \A v \in Leaves : (Values \ Out(v))' = Values \ Out(v)
    BY <1>1, <1>5, Sorts DEF Out, Apart
  <2>8. ASSUME NEW v \in Objects
        PROVE  /\ count[v] = count'[v] + Times(elems[x], v)
               /\ count'[v] = Unit(v \in local) + Refs(elems, (Alive \ Gray) \ {x}, v)
               /\ count'[v] \in Nat /\ Times(elems[x], v) \in Nat
    <3> DEFINE T == (Alive \ Gray) \ {x}
    <3>1. T \subseteq Values /\ x \notin T /\ T \cup {x} = Values \ Out(v)
      BY <1>4, <1>5, <2>5, <2>6 DEF Alive
    <3>2. v \in Values /\ count'[v] = count[v] - Times(elems[x], v)
      BY <2>1, <2>8, Sorts
    <3> HIDE DEF T
    <3>3. Refs(elems, T \cup {x}, v) = Refs(elems, T, v) + Times(elems[x], v)
          /\ Refs(elems, T, v) \in Nat /\ Times(elems[x], v) \in Nat
      <4>1. Graph(elems)
        BY <1>2, Shape
      <4> QED BY <1>4, <3>1, <4>1, RefsMore
    <3>4. count[v] = Unit(v \in local) + Refs(elems, T \cup {x}, v) /\ Unit(v \in local) \in Nat
      BY <1>1, <3>1, <3>2, Collecting
    <3>5. count'[v] = Unit(v \in local) + Refs(elems, T, v)
      BY <3>2, <3>3, <3>4
    <3>6. count[v] = count'[v] + Times(elems[x], v) /\ count'[v] \in Nat
      BY <3>3, <3>4, <3>5
    <3> QED BY <3>3, <3>5, <3>6 DEF T
  <2>9. \A v \in Leaves : count'[v] = count[v]
    BY <2>1, Sorts
  <2>10. count' \in [Values -> Nat]
    <3>1. \A v \in Values : count'[v] \in Nat
      BY <1>2, <2>8, <2>9, Shape, Sorts
    <3>2. count' = [v \in Values |-> count'[v]]
      BY <2>1
    <3> QED BY <3>1, <3>2
  <2>11. \A v \in Values : count[v] = 0 => count'[v] = 0
    <3>1. \A v \in Objects : count[v] = 0 => count'[v] = 0
      BY <2>8
    <3> QED BY <2>9, <3>1, Sorts
  <2>12. Types'
    <3>1. TypeOK'
      BY <1>1, <1>2, <2>2, <2>4, <2>10 DEF TypeOK
    <3>2. \A v \in Leaves : v \in Values \ {x}
      BY <1>4, Sorts
    <3> QED BY <1>1, <1>2, <2>4, <3>1, <3>2 DEF Types
  <2>13. Phases'
    BY <1>1, <1>2, <2>5 DEF Phases
  <2>14. Dying'
    BY <1>1, <1>2, <1>5 DEF Dying
  <2>15. Buffer'
    <3>1. ASSUME NEW v \in Values
          PROVE  /\ buffered[v] => v \in ToSet(todo) \cup ToSet(kept)
                 /\ color'[v] = "purple" /\ ~freed[v] => v \in ToSet(todo) \cup ToSet(stack')
                 /\ dead[v] /\ ~freed[v] => v \in ToSet(todo)
                 /\ v \in ToSet(todo) => freed[v] \/ color'[v] \in {"purple", "gray"}
      <4>1. /\ buffered[v] => v \in ToSet(todo) \cup ToSet(kept)
            /\ color[v] = "purple" /\ ~freed[v] => v \in ToSet(todo) \cup ToSet(stack)
            /\ dead[v] /\ ~freed[v] => v \in ToSet(todo)
            /\ v \in ToSet(todo) => freed[v] \/ color[v] \in {"purple", "gray"}
        BY <1>1, <1>2 DEF Buffer
      <4>2. CASE v = x
        BY <2>4, <4>1, <4>2
      <4>3. CASE v # x
        <5>1. color'[v] = color[v]
          BY <2>4, <4>3
        <5> QED BY <2>2, <2>3, <4>1, <4>3, <5>1
      <4> QED BY <4>2, <4>3
    <3> QED BY <1>1, <1>2, <3>1 DEF Buffer
  <2>16. Counts'
    <3>1. \A v \in Values : Expected(v)' = Unit(v \in local) + Refs(elems, (Values \ Out(v))', v) + Times(kids, v)
      BY <1>1 DEF Expected
    <3> SUFFICES ASSUME NEW v \in Values PROVE count'[v] = Expected(v)'
      BY DEF Counts
    <3>2. CASE v \in Objects
      <4>1. Expected(v)' = Unit(v \in local) + Refs(elems, (Alive \ Gray) \ {x}, v) + Times(kids, v)
        BY <2>6, <3>1, <3>2
      <4>2. Times(kids, v) = 0
        BY <1>1, Collecting, TimesEmpty
      <4>3. count'[v] = Unit(v \in local) + Refs(elems, (Alive \ Gray) \ {x}, v) /\ count'[v] \in Nat
        BY <2>8, <3>2
      <4> QED BY <4>1, <4>2, <4>3
    <3>3. CASE v \in Leaves
      <4>1. Expected(v)' = Expected(v)
        BY <2>7, <3>1, <3>3 DEF Expected
      <4> QED BY <1>2, <2>9, <3>3, <4>1 DEF Counts
    <3> QED BY <3>2, <3>3, Sorts
  <2>17. Zero'
    <3>1. \A v \in Gone : v \in Values /\ count[v] = 0
      BY <1>2 DEF Zero, Gone
    <3> QED BY <1>1, <1>3, <1>5, <2>5, <2>11, <3>1 DEF Zero
  <2>18. NonZero'
    <3> SUFFICES ASSUME NEW v \in Alive, count'[v] = 0 PROVE color'[v] = "gray" \/ v \in ToSet(stack')
      BY <1>1, <1>5 DEF NonZero
    <3>1. v \in Values
      BY DEF Alive
    <3>2. CASE count[v] = 0
      <4>1. color[v] = "gray" \/ v \in ToSet(stack)
        BY <1>2, <1>3, <3>1, <3>2, Sorts DEF NonZero, Colored
      <4> QED BY <2>2, <2>3, <2>4, <3>1, <4>1
    <3>3. CASE count[v] # 0
      <4>1. v \in Objects
        BY <2>9, <3>1, <3>3, Sorts
      <4>2. Times(elems[x], v) > 0
        BY <2>8, <3>3, <4>1
      <4>3. v \in ToSet(elems[x])
        BY <1>2, <1>4, <4>2, Shape, TimesMember
      <4> QED BY <2>2, <4>1, <4>3
    <3> QED BY <3>2, <3>3
  <2>19. Traversed'
    BY <1>1, <1>2, <1>3, <1>5, <2>2, <2>3, <2>5, EmptyInjective DEF Traversed
  <2>20. GrayReached'
    <3>1. Grounded((Gray \cup ToSet(stack)) \ ToSet(kept), Gray)
      BY <1>1, <1>2 DEF GrayReached
    <3>2. ASSUME NEW U, U \subseteq ((Gray \cup {x}) \cup ToSet(stack')) \ ToSet(kept), Isolated(Gray \cup {x}, U)
          PROVE  U = {}
      <4> DEFINE W == U \cap (Gray \cup ToSet(stack))
      <4>1. Isolated(Gray, W)
        BY <3>2 DEF Isolated
      <4>2. W = {}
        BY <3>1, <3>2, <4>1 DEF Grounded
      <4>3. x \notin U
        BY <2>3, <4>2
      <4>4. \A u \in U : u \notin ToSet(elems[x])
        BY <3>2, <4>3 DEF Isolated
      <4> QED BY <2>2, <2>3, <3>2, <4>2, <4>3, <4>4
    <3>3. Grounded((Gray \cup ToSet(stack)) \ ToSet(kept), Gray)'
      BY <1>1, <2>5, <3>2 DEF Grounded, Isolated
    <3>4. ToSet(kept) \subseteq Gray \cup ToSet(stack)
      BY <1>1, <1>2 DEF GrayReached
    <3>5. \A v \in Gray : ToSet(elems[v]) \cap Objects \subseteq Gray \cup ToSet(stack)
      BY <1>1, <1>2 DEF GrayReached
    <3>6. Gray \cup ToSet(stack) \subseteq Gray' \cup ToSet(stack')
      BY <2>2, <2>3, <2>5
    <3>7. \A v \in Gray' : ToSet(elems[v]) \cap Objects \subseteq Gray' \cup ToSet(stack')
      BY <2>2, <2>5, <3>5, <3>6
    <3> QED BY <1>1, <3>3, <3>4, <3>6, <3>7 DEF GrayReached
  <2> QED BY <1>6, <1>7, <2>12, <2>13, <2>14, <2>15, <2>16, <2>17, <2>18, <2>19, <2>20 DEF IInv
<1> QED BY <1>8, <1>9

LEMMA BeginScanStep == ASSUME IInv, BeginScan PROVE IInv'
<1>1. /\ pc = "gray" /\ stack = <<>> /\ black = <<>> /\ garbage = <<>> /\ todo = <<>>
      /\ pc' = "scan" /\ todo' = kept
      /\ UNCHANGED <<elems, count, color, buffered, dead, freed, roots, limit, due, local, ops>>
      /\ UNCHANGED <<kids, cur, dying, kept, stack, black, garbage>>
  BY DEF BeginScan, At, heap, buffer, prog, destroy
<1>2. Types /\ TypeOK /\ Phases /\ Dying /\ Buffer /\ Counts /\ Zero /\ NonZero /\ Traversed /\ NoneLost /\ GrayReached
  BY DEF IInv, Types
<1>3. /\ White = {} /\ ToSet(<<>>) = {} /\ ToSet(stack) = {} /\ ToSet(todo) = {} /\ ToSet(black) = {}
      /\ Colored("white") = {}
  BY <1>1, <1>2, ToSetEmpty DEF Phases, White
<1>4. Gone' = Gone /\ Alive' = Alive /\ Gray' = Gray /\ White' = White /\ \A c : Colored(c)' = Colored(c)
  BY <1>1 DEF Gone, Alive, Gray, White, Colored
<1>5. Types'
  BY <1>1, <1>2 DEF Types, TypeOK
<1>6. Phases'
  BY <1>1, <1>2, <1>4 DEF Phases
<1>7. Dying'
  BY <1>1, <1>2, <1>4 DEF Dying
<1>8. Buffer'
  BY <1>1, <1>2, <1>3 DEF Buffer
<1>9. Counts'
  <2>1. \A v \in Values : Out(v)' = Out(v)
    BY <1>1, <1>4 DEF Out, Apart, Trial
  <2>2. \A v \in Values : Expected(v)' = Expected(v)
    BY <1>1, <2>1 DEF Expected
  <2> QED BY <1>1, <1>2, <2>2 DEF Counts
<1>10. Zero'
  BY <1>1, <1>2, <1>4 DEF Zero
<1>11. NonZero'
  BY <1>1, <1>2, <1>3, <1>4 DEF NonZero
<1>12. Traversed'
  BY <1>1, <1>2, <1>4 DEF Traversed
<1>13. Grounded(Gray \ ToSet(kept), Gray)
  BY <1>1, <1>2, <1>3 DEF GrayReached
<1>14. Gray \subseteq Alive /\ \A v \in Gray : ToSet(elems[v]) \cap Objects \subseteq Gray
  BY <1>1, <1>2, <1>3 DEF Traversed, GrayReached, Gray
<1>15. ScanReaches'
  <2>1. \A U \in SUBSET (Gray \ (ToSet(kept) \cup {})) : Isolated(Gray \cup {}, U) => U = {}
    BY <1>13 DEF Grounded
  <2>2. Grounded((Gray \cup White) \ ToSet(kept), Alive)
    <3> SUFFICES ASSUME NEW U, U \subseteq Gray \ ToSet(kept), Isolated(Alive, U) PROVE U = {}
      BY <1>3 DEF Grounded
    <3>1. Isolated(Gray, U)
      BY <1>14 DEF Isolated
    <3> QED BY <1>13, <3>1 DEF Grounded
  <2>3. Grounded((Gray \cup White) \ ToSet(kept), Alive)'
    BY <1>1, <1>4, <2>2 DEF Grounded, Isolated
  <2>4. (\A U \in SUBSET (Gray \ (ToSet(todo) \cup ToSet(stack))) :
           Isolated(Gray \cup ToSet(black), U) => U = {})'
    BY <1>1, <1>3, <1>4, <2>1 DEF Isolated
  <2> QED BY <2>3, <2>4 DEF ScanReaches
<1>16. GrayReached' /\ WhiteReached'
  BY <1>1 DEF GrayReached, WhiteReached
<1>17. NoneLost'
  <2>1. Grounded(Alive \ (local \cup ToSet(todo) \cup ToSet(kept)), Alive)
    BY <1>1, <1>2 DEF NoneLost
  <2>2. ToSet(kept) \subseteq Gray
    BY <1>1, <1>2, <1>3 DEF GrayReached
  <2>3. ASSUME NEW U, U \subseteq Alive \ local, Isolated(Alive, U)
        PROVE  U \cap Objects \subseteq Gray
    <3> DEFINE W == (U \ Gray) \cap Objects
    <3>1. Isolated(Alive, W)
      <4> SUFFICES ASSUME NEW v \in Alive \ W, NEW w \in W PROVE w \notin ToSet(elems[v])
        BY DEF Isolated
      <4>1. CASE v \notin U
        BY <2>3, <4>1 DEF Isolated
      <4>2. CASE v \in U /\ v \in Gray
        BY <1>14, <4>2
      <4>3. CASE v \in U /\ v \notin Objects
        <5>1. v \in Leaves
          BY <4>3, Sorts DEF Alive
        <5> QED BY <1>2, <5>1, Shape
      <4> QED BY <4>1, <4>2, <4>3
    <3>2. W \subseteq Alive \ (local \cup ToSet(todo) \cup ToSet(kept))
      BY <1>3, <2>2, <2>3
    <3>3. W = {}
      BY <2>1, <3>1, <3>2 DEF Grounded
    <3> QED BY <3>3
  <2>4. (\A U \in SUBSET (Alive \ local) :
           Isolated(Alive, U) => U \cap Objects \subseteq Gray \cup White \cup ToSet(garbage))'
    BY <1>1, <1>4, <2>3 DEF Isolated
  <2> QED BY <1>1, <2>4 DEF NoneLost
<1> QED BY <1>5, <1>6, <1>7, <1>8, <1>9, <1>10, <1>11, <1>12, <1>15, <1>16, <1>17 DEF IInv

-----------------------------------------------------------------------------
(* The second traversal: scan and scan_black                               *)

LEMMA Scanning ==
  ASSUME IInv, pc = "scan"
  PROVE  /\ garbage = <<>> /\ ToSet(garbage) = {} /\ Apart = Gone \cup {Null}
         /\ Trial = Gray \cup White \cup ToSet(black)
         /\ \A v \in Objects : Values \ Out(v) = Alive \ Trial
         /\ \A v \in Leaves : Values \ Out(v) = Alive
         /\ Gray \cup White \cup ToSet(black) \subseteq Alive
         /\ \A v \in Alive : ToSet(elems[v]) \subseteq Alive
<1>1. garbage = <<>> /\ ToSet(garbage) = {} /\ cur = Null
  BY Collecting, ToSetEmpty DEF IInv, Phases
<1>2. Apart = Gone \cup {Null} /\ Trial = Gray \cup White \cup ToSet(black)
  BY <1>1 DEF Apart, Trial, Gray, White
<1>3. \A v \in Objects : Values \ Out(v) = Alive \ Trial
  BY <1>2, Sorts DEF Out, Alive
<1>4. \A v \in Leaves : Values \ Out(v) = Alive
  BY <1>2, Sorts DEF Out, Alive
<1>5. /\ Gray \cup White \cup ToSet(black) \subseteq Alive
      /\ \A v \in Alive : ToSet(elems[v]) \subseteq Alive
  BY DEF IInv, Traversed, Gray, White
<1> QED BY <1>1, <1>2, <1>3, <1>4, <1>5

\* A step of scan that changes no count and no flag: what is left to show.
LEMMA ScanSame ==
  ASSUME IInv, pc = "scan", pc' = "scan", Types',
         UNCHANGED <<elems, count, buffered, dead, freed, buffer, prog, destroy, kept, garbage>>,
         Trial' = Trial, Gray' \cup White' \subseteq Gray \cup White,
         \A v \in Values : color'[v] = "purple" => color[v] = "purple",
         \A v \in Values : v \in White' => count[v] = 0,
         \A v \in Values : v \in Gray \cup White /\ count[v] = 0 => v \in Gray' \cup White',
         IsInjective(black'), ToSet(black') \subseteq Colored("black")',
         ScanReaches', NoneLost'
  PROVE  IInv'
<1>1. /\ UNCHANGED <<elems, count, buffered, dead, freed, roots, limit, due, local, ops>>
      /\ UNCHANGED <<kids, cur, dying, kept, garbage>>
  BY DEF buffer, prog, destroy
<1>2. Types /\ TypeOK /\ Phases /\ Dying /\ Buffer /\ Counts /\ Zero /\ NonZero /\ Traversed
  BY DEF IInv, Types
<1>3. garbage = <<>> /\ ToSet(garbage) = {} /\ cur = Null /\ dying = <<>> /\ ToSet(dying) = {}
  BY Scanning, Collecting
<1>4. Gone' = Gone /\ Alive' = Alive
  BY <1>1 DEF Gone, Alive
<1>5. Phases'
  BY <1>1, <1>2 DEF Phases
<1>6. Dying'
  BY <1>1, <1>2, <1>4 DEF Dying
<1>7. Buffer'
  BY <1>1, <1>2 DEF Buffer
<1>8. Counts'
  <2>1. \A v \in Values : Out(v)' = Out(v)
    BY <1>1, <1>4 DEF Out, Apart
  <2>2. \A v \in Values : Expected(v)' = Expected(v)
    BY <1>1, <2>1 DEF Expected
  <2> QED BY <1>1, <1>2, <2>2 DEF Counts
<1>9. Zero'
  <2>1. \A v \in Colored("white")' : v \in White' /\ v \in Values
    BY DEF White, Colored
  <2> QED BY <1>1, <1>2, <1>3, <1>4, <2>1 DEF Zero
<1>10. NonZero'
  <2> SUFFICES ASSUME NEW v \in Alive, count[v] = 0 PROVE color'[v] \in {"gray", "white"}
    BY <1>1, <1>4 DEF NonZero
  <2>1. v \in Values /\ v # cur
    BY Collecting
  <2>2. v \in Gray \cup White
    BY <1>2, <1>3, <2>1 DEF NonZero, Gray, White, Colored
  <2> QED BY <2>1, <2>2 DEF Gray, White, Colored
<1>11. Traversed'
  <2>1. Trial' \subseteq Alive
    BY Scanning
  <2>2. Colored("gray")' \cup Colored("white")' \cup ToSet(black') \subseteq Alive
    BY <2>1 DEF Trial
  <2> QED BY <1>1, <1>2, <1>3, <1>4, <2>2, EmptyInjective, ToSetEmpty DEF Traversed
<1>12. GrayReached' /\ WhiteReached'
  BY DEF GrayReached, WhiteReached
<1> QED BY <1>5, <1>6, <1>7, <1>8, <1>9, <1>10, <1>11, <1>12 DEF IInv

LEMMA ScanRootStep == ASSUME IInv, ScanRoot PROVE IInv'
<1>1. /\ pc = "scan" /\ pc' = "scan" /\ stack = <<>> /\ black = <<>> /\ garbage = <<>> /\ todo # <<>>
      /\ stack' = <<Head(todo)>> /\ todo' = Tail(todo)
      /\ UNCHANGED <<elems, count, color, buffered, dead, freed, buffer, prog, destroy, kept, black, garbage>>
      /\ UNCHANGED <<roots, limit, due, local, ops, kids, cur, dying>>
  BY DEF ScanRoot, At, heap, buffer, prog, destroy
<1>2. Types /\ TypeOK /\ Traversed /\ NoneLost /\ ScanReaches /\ Zero
  BY DEF IInv, Types
<1>3. /\ stack' \in Seq(Objects) /\ todo' \in Seq(Objects)
      /\ ToSet(stack') \cup ToSet(todo') = ToSet(stack) \cup ToSet(todo)
  <2>1. todo \in Seq(Objects) /\ ToSet(stack) = {}
    BY <1>1, <1>2, ToSetEmpty DEF TypeOK
  <2> QED BY <1>1, <2>1, HeadTail, Single
<1>4. Types'
  BY <1>1, <1>2, <1>3 DEF Types, TypeOK
<1>5. /\ Gone' = Gone /\ Alive' = Alive /\ Gray' = Gray /\ White' = White
      /\ Trial' = Trial /\ \A c : Colored(c)' = Colored(c)
  BY <1>1 DEF Gone, Alive, Gray, White, Colored, Trial
<1>6. ScanReaches'
  <2>1. \A U \in SUBSET (Gray \ (ToSet(todo) \cup ToSet(stack))) :
          Isolated(Gray \cup ToSet(black), U) => U = {}
    BY <1>1, <1>2 DEF ScanReaches
  <2>2. Gray' \ (ToSet(todo') \cup ToSet(stack')) = Gray \ (ToSet(todo) \cup ToSet(stack))
    BY <1>3, <1>5
  <2>3. (\A U \in SUBSET (Gray \ (ToSet(todo) \cup ToSet(stack))) :
          Isolated(Gray \cup ToSet(black), U) => U = {})'
    BY <1>1, <1>5, <2>1, <2>2 DEF Isolated
  <2>4. Grounded((Gray \cup White) \ ToSet(kept), Alive)
    BY <1>1, <1>2 DEF ScanReaches
  <2>5. Grounded((Gray \cup White) \ ToSet(kept), Alive)'
    BY <1>1, <1>5, <2>4 DEF Grounded, Isolated
  <2> QED BY <2>3, <2>5 DEF ScanReaches
<1>7. NoneLost'
  <2>1. \A U \in SUBSET (Alive \ local) :
          Isolated(Alive, U) => U \cap Objects \subseteq Gray \cup White \cup ToSet(garbage)
    BY <1>1, <1>2 DEF NoneLost
  <2>2. (\A U \in SUBSET (Alive \ local) :
          Isolated(Alive, U) => U \cap Objects \subseteq Gray \cup White \cup ToSet(garbage))'
    BY <1>1, <1>5, <2>1 DEF Isolated
  <2> QED BY <1>1, <2>2 DEF NoneLost
<1>8. IsInjective(black') /\ ToSet(black') \subseteq Colored("black")'
  BY <1>1, <1>2, <1>5 DEF Traversed
<1>9. \A v \in Values : v \in White' => count[v] = 0
  BY <1>2, <1>5 DEF Zero, White
<1> QED BY <1>1, <1>4, <1>5, <1>6, <1>7, <1>8, <1>9, ScanSame

LEMMA ScanStep == ASSUME IInv, Scan PROVE IInv'
<1> DEFINE x == Last(stack)
<1>1. /\ pc = "scan" /\ pc' = "scan" /\ stack # <<>> /\ black = <<>>
      /\ CASE color[x] # "gray" -> stack' = Front(stack) /\ UNCHANGED <<color, black>>
           [] color[x] = "gray" /\ count[x] > 0 ->
                color' = [color EXCEPT ![x] = "black"] /\ black' = <<x>> /\ stack' = Front(stack)
           [] OTHER ->
                /\ color' = [color EXCEPT ![x] = "white"]
                /\ stack' = Front(stack) \o CyclicChildren(x) /\ UNCHANGED black
      /\ UNCHANGED <<elems, count, buffered, dead, freed, buffer, prog, destroy, todo, kept, garbage>>
      /\ UNCHANGED <<roots, limit, due, local, ops, kids, cur, dying>>
  BY DEF Scan, Paint, Popped, buffer, prog, destroy
<1>2. Types /\ TypeOK /\ Traversed /\ NoneLost /\ ScanReaches /\ Zero
  BY DEF IInv, Types
<1> DEFINE S == Front(stack)
<1>3. /\ x \in Objects /\ x \in Values /\ x \in ToSet(stack) /\ S \in Seq(Objects)
      /\ ToSet(stack) = ToSet(S) \cup {x}
  <2>1. stack \in Seq(Objects)
    BY <1>2 DEF TypeOK
  <2> QED BY <1>1, <2>1, FrontLast, Sorts
<1> HIDE DEF x, S
<1>4. Gone' = Gone /\ Alive' = Alive
  BY <1>1 DEF Gone, Alive
<1>5. /\ ToSet(black) = {} /\ Gray \cup White \subseteq Alive /\ Trial = Gray \cup White
      /\ ToSet(garbage) = {} /\ ToSet(garbage') = {}
      /\ \A v \in Alive : ToSet(elems[v]) \subseteq Alive
      /\ Gray \subseteq Objects /\ White \subseteq Objects
  BY <1>1, <1>2, Scanning, ToSetEmpty, Shape
<1>6. /\ \A U \in SUBSET (Gray \ (ToSet(todo) \cup ToSet(stack))) : Isolated(Gray, U) => U = {}
      /\ Grounded((Gray \cup White) \ ToSet(kept), Alive)
  <2>1. Gray \cup ToSet(black) = Gray
    BY <1>5
  <2> QED BY <1>1, <1>2, <2>1 DEF ScanReaches
<1>7. \A U \in SUBSET (Alive \ local) : Isolated(Alive, U) => U \cap Objects \subseteq Gray \cup White
  BY <1>1, <1>2, <1>5 DEF NoneLost
<1>8. CASE color[x] # "gray"
  <2>1. stack' = S /\ UNCHANGED <<color, black>>
    BY <1>1, <1>8 DEF S
  <2>2. Types'
    BY <1>1, <1>2, <1>3, <2>1 DEF Types, TypeOK
  <2>3. /\ Gray' = Gray /\ White' = White /\ Trial' = Trial /\ (\A c : Colored(c)' = Colored(c))
        /\ x \notin Gray
    BY <1>8, <2>1 DEF Gray, White, Colored, Trial
  <2>4. ScanReaches'
    <3>1. Gray \ (ToSet(todo) \cup ToSet(stack')) = Gray \ (ToSet(todo) \cup ToSet(stack))
      BY <1>3, <2>1, <2>3
    <3>2. (\A U \in SUBSET (Gray \ (ToSet(todo) \cup ToSet(stack))) :
             Isolated(Gray \cup ToSet(black), U) => U = {})'
      BY <1>1, <1>5, <1>6, <2>1, <2>3, <3>1 DEF Isolated
    <3>3. Grounded((Gray \cup White) \ ToSet(kept), Alive)'
      BY <1>1, <1>4, <1>6, <2>3 DEF Grounded, Isolated
    <3> QED BY <3>2, <3>3 DEF ScanReaches
  <2>5. NoneLost'
    <3>1. (\A U \in SUBSET (Alive \ local) :
             Isolated(Alive, U) => U \cap Objects \subseteq Gray \cup White \cup ToSet(garbage))'
      BY <1>1, <1>4, <1>7, <2>3 DEF Isolated
    <3> QED BY <1>1, <3>1 DEF NoneLost
  <2>6. IsInjective(black') /\ ToSet(black') \subseteq Colored("black")'
    BY <1>2, <2>1, <2>3 DEF Traversed
  <2>7. \A v \in Values : v \in White' => count[v] = 0
    BY <1>2, <2>3 DEF Zero, White
  <2> QED BY <1>1, <2>1, <2>2, <2>3, <2>4, <2>5, <2>6, <2>7, ScanSame
<1>9. CASE color[x] = "gray" /\ count[x] > 0
  <2>1. color' = [color EXCEPT ![x] = "black"] /\ black' = <<x>> /\ stack' = S
    BY <1>1, <1>9 DEF S
  <2>2. /\ color' \in [Values -> Colors] /\ color'[x] = "black" /\ \A v \in Values \ {x} : color'[v] = color[v]
        /\ black' \in Seq(Objects) /\ ToSet(black') = {x} /\ IsInjective(black')
    BY <1>2, <1>3, <2>1, Single DEF TypeOK, Colors
  <2>3. Types'
    <3>1. TypeOK'
      BY <1>1, <1>2, <1>3, <2>1, <2>2 DEF TypeOK
    <3>2. \A v \in Leaves : v \in Values \ {x}
      BY <1>3, Sorts
    <3> QED BY <1>1, <1>2, <2>2, <3>1, <3>2 DEF Types
  <2>4. x \in Gray /\ Gray' = Gray \ {x} /\ White' = White /\ x \in Colored("black")'
    BY <1>3, <1>9, <2>2 DEF Gray, White, Colored
  <2>5. Trial' = Trial
    <3>1. Trial' = Gray' \cup White' \cup ToSet(black')
      BY DEF Trial, Gray, White
    <3> QED BY <1>5, <2>2, <2>4, <3>1
  <2>6. ScanReaches'
    <3>1. ASSUME NEW U, U \subseteq Gray' \ (ToSet(todo) \cup ToSet(stack')), Isolated(Gray, U)
          PROVE  U = {}
      BY <1>3, <1>6, <2>1, <2>4, <3>1
    <3>2. Gray' \cup ToSet(black') = Gray
      BY <2>2, <2>4
    <3>3. (\A U \in SUBSET (Gray \ (ToSet(todo) \cup ToSet(stack))) :
             Isolated(Gray \cup ToSet(black), U) => U = {})'
      BY <1>1, <3>1, <3>2 DEF Isolated
    <3>4. Grounded((Gray \cup White) \ ToSet(kept), Alive)'
      BY <1>1, <1>4, <1>6, <2>4 DEF Grounded, Isolated
    <3> QED BY <3>3, <3>4 DEF ScanReaches
  <2>7. NoneLost'
    <3>1. ASSUME NEW U, U \subseteq Alive \ local, Isolated(Alive, U)
          PROVE  U \cap Objects \subseteq Gray' \cup White'
      <4>1. U \cap Objects \subseteq Gray \cup White
        BY <1>7, <3>1
      <4>2. x \notin U
        <5> SUFFICES ASSUME x \in U PROVE FALSE
          OBVIOUS
        <5>1. PICK y \in Values \ Out(x) : x \in ToSet(elems[y])
          BY <1>1, <1>3, <1>9, <3>1, Collecting
        <5>2. y \in Alive /\ y \notin Gray \cup White
          BY <1>1, <1>3, <1>5, <5>1, Scanning
        <5>3. y \in U
          BY <3>1, <5>1, <5>2 DEF Isolated
        <5>4. y \in Objects
          BY <1>2, <5>1, Shape, Sorts
        <5> QED BY <4>1, <5>2, <5>3, <5>4
      <4> QED BY <2>4, <4>1, <4>2
    <3>2. (\A U \in SUBSET (Alive \ local) :
             Isolated(Alive, U) => U \cap Objects \subseteq Gray \cup White \cup ToSet(garbage))'
      BY <1>1, <1>4, <3>1 DEF Isolated
    <3> QED BY <1>1, <3>2 DEF NoneLost
  <2>8. \A v \in Values : v \in White' => count[v] = 0
    BY <1>2, <2>4 DEF Zero, White
  <2>9. \A v \in Values : v \in Gray \cup White /\ count[v] = 0 => v \in Gray' \cup White'
    BY <1>9, <2>4
  <2>10. \A v \in Values : color'[v] = "purple" => color[v] = "purple"
    BY <2>2
  <2>11. Gray' \cup White' \subseteq Gray \cup White /\ ToSet(black') \subseteq Colored("black")'
    BY <2>2, <2>4
  <2> QED BY <1>1, <2>2, <2>3, <2>5, <2>6, <2>7, <2>8, <2>9, <2>10, <2>11, ScanSame
<1>10. CASE color[x] = "gray" /\ ~(count[x] > 0)
  <2> DEFINE K == ToSet(elems[x]) \cap Objects
  <2>1. color' = [color EXCEPT ![x] = "white"] /\ black' = black /\ stack' = S \o CyclicChildren(x)
    BY <1>1, <1>10 DEF S
  <2>2. /\ color' \in [Values -> Colors] /\ color'[x] = "white" /\ \A v \in Values \ {x} : color'[v] = color[v]
    BY <1>2, <1>3, <2>1 DEF TypeOK, Colors
  <2>3. stack' \in Seq(Objects) /\ ToSet(stack') = ToSet(S) \cup K
    <3>1. CyclicChildren(x) \in Seq(Objects) /\ ToSet(CyclicChildren(x)) = K
      BY <1>2, <1>3, Shape
    <3> QED BY <1>3, <2>1, <3>1, Concat
  <2>4. Types'
    <3>1. TypeOK'
      BY <1>1, <1>2, <2>1, <2>2, <2>3 DEF TypeOK
    <3>2. \A v \in Leaves : v \in Values \ {x}
      BY <1>3, Sorts
    <3> QED BY <1>1, <1>2, <2>2, <3>1, <3>2 DEF Types
  <2>5. x \in Gray /\ Gray' = Gray \ {x} /\ White' = White \cup {x}
    BY <1>3, <1>10, <2>2 DEF Gray, White, Colored
  <2>6. Trial' = Trial /\ Gray' \cup White' = Gray \cup White
    <3>1. Trial' = Gray' \cup White' \cup ToSet(black')
      BY DEF Trial, Gray, White
    <3> QED BY <1>5, <2>1, <2>5, <3>1
  <2>7. ScanReaches'
    <3>1. ASSUME NEW U, U \subseteq Gray' \ (ToSet(todo) \cup ToSet(stack')), Isolated(Gray', U)
          PROVE  U = {}
      <4>1. U \subseteq Gray \ (ToSet(todo) \cup ToSet(stack))
        BY <1>3, <2>3, <2>5, <3>1
      <4>2. \A u \in U : u \notin ToSet(elems[x])
        BY <1>5, <2>3, <2>5, <3>1
      <4>3. Isolated(Gray, U)
        BY <2>5, <3>1, <4>2 DEF Isolated
      <4> QED BY <1>6, <4>1, <4>3
    <3>2. Gray' \cup ToSet(black') = Gray'
      BY <1>5, <2>1
    <3>3. (\A U \in SUBSET (Gray \ (ToSet(todo) \cup ToSet(stack))) :
             Isolated(Gray \cup ToSet(black), U) => U = {})'
      BY <1>1, <3>1, <3>2 DEF Isolated
    <3>4. Grounded((Gray \cup White) \ ToSet(kept), Alive)'
      BY <1>1, <1>4, <1>6, <2>6 DEF Grounded, Isolated
    <3> QED BY <3>3, <3>4 DEF ScanReaches
  <2>8. NoneLost'
    <3>1. (\A U \in SUBSET (Alive \ local) :
             Isolated(Alive, U) => U \cap Objects \subseteq Gray \cup White \cup ToSet(garbage))'
      BY <1>1, <1>4, <1>7, <2>6 DEF Isolated
    <3> QED BY <1>1, <3>1 DEF NoneLost
  <2>9. \A v \in Values : v \in White' => count[v] = 0
    <3>1. count[x] = 0
      BY <1>2, <1>3, <1>10, Shape
    <3> QED BY <1>2, <2>5, <3>1 DEF Zero, White
  <2>10. \A v \in Values : color'[v] = "purple" => color[v] = "purple"
    BY <2>2
  <2>11. IsInjective(black') /\ ToSet(black') \subseteq Colored("black")'
    BY <1>2, <1>5, <2>1 DEF Traversed
  <2> QED BY <1>1, <2>1, <2>4, <2>6, <2>7, <2>8, <2>9, <2>10, <2>11, ScanSame
<1> QED BY <1>8, <1>9, <1>10

LEMMA ScanBlackStep == ASSUME IInv, ScanBlack PROVE IInv'
<1> DEFINE x == Last(black)
           B == Front(black)
           K == {w \in ToSet(CyclicChildren(x)) : color[w] # "black"}
<1>1. /\ pc = "scan" /\ pc' = "scan" /\ black # <<>>
      /\ count' = [v \in Values |-> IF v \in Objects THEN count[v] + Times(elems[x], v) ELSE count[v]]
      /\ color' = [v \in Values |-> IF Contains(Revived(x), v) THEN "black" ELSE color[v]]
      /\ black' = B \o Revived(x) /\ Revived(x) = SetToSeq(K)
      /\ UNCHANGED <<elems, buffered, dead, freed, roots, limit, due, local, ops, kids, cur, dying>>
      /\ UNCHANGED <<todo, kept, stack, garbage>>
  BY DEF ScanBlack, Revived, buffer, prog, destroy
<1>2. Types /\ TypeOK /\ Phases /\ Dying /\ Buffer /\ Counts /\ Zero /\ NonZero /\ Traversed /\ NoneLost /\ ScanReaches
  BY DEF IInv, Types
<1>3. /\ x \in Objects /\ x \in Values /\ B \in Seq(Objects)
      /\ ToSet(black) = ToSet(B) \cup {x} /\ IsInjective(B) /\ x \notin ToSet(B)
      /\ color[x] = "black"
  <2>1. black \in Seq(Objects) /\ IsInjective(black) /\ ToSet(black) \subseteq Colored("black")
    BY <1>2 DEF TypeOK, Traversed
  <2> QED BY <1>1, <2>1, FrontLast, Sorts DEF Colored
<1>4. /\ x \in Alive /\ Gray \cup White \cup ToSet(B) \subseteq Alive /\ cur = Null
      /\ \A v \in Alive : ToSet(elems[v]) \subseteq Alive
      /\ Trial = Gray \cup White \cup ToSet(black) /\ Apart = Gone \cup {Null}
      /\ ToSet(garbage) = {} /\ ToSet(garbage') = {} /\ ToSet(dying) = {} /\ ToSet(dying') = {}
      /\ Gray \subseteq Objects /\ White \subseteq Objects
  BY <1>1, <1>2, <1>3, Scanning, Collecting, Shape, ToSetEmpty
<1>5. ToSet(CyclicChildren(x)) = ToSet(elems[x]) \cap Objects
  BY <1>2, <1>3, Shape
<1>6. /\ K \subseteq Objects /\ K \subseteq Values /\ K \subseteq Gray \cup White
      /\ K \cap ToSet(B) = {} /\ x \notin K
      /\ \A w \in ToSet(elems[x]) \cap Objects : color[w] # "black" => w \in K
      /\ \A w \in K : w \in ToSet(elems[x]) /\ color[w] # "black"
  <2>1. ASSUME NEW w \in K PROVE w \in Gray \cup White
    <3>1. w \in Values /\ w \in Alive /\ color[w] # "black"
      BY <1>4, <1>5, <2>1, Sorts
    <3>2. color[w] # "purple"
      BY <1>1, <1>2, <3>1 DEF Buffer, Alive, Gone
    <3>3. color[w] \in {"gray", "white"}
      BY <1>2, <3>1, <3>2, Shape DEF Colors
    <3> QED BY <3>1, <3>3 DEF Gray, White, Colored
  <2>2. \A w \in ToSet(B) : color[w] = "black"
    BY <1>2, <1>3 DEF Traversed, Colored
  <2> QED BY <1>3, <1>5, <2>1, <2>2, Sorts
<1>7. Revived(x) \in Seq(Objects) /\ ToSet(Revived(x)) = K /\ IsInjective(Revived(x))
  <2> HIDE DEF K
  <2>1. IsFiniteSet(K)
    BY <1>6, Sorts, FS_Subset
  <2>2. SetToSeq(K) \in Seq(K) /\ ToSet(SetToSeq(K)) = K /\ IsInjective(SetToSeq(K))
    BY <2>1, Listed
  <2>3. SetToSeq(K) \in Seq(Objects)
    BY <1>6, <2>2
  <2> QED BY <1>1, <2>2, <2>3
<1> HIDE DEF x, B, K
<1>8. /\ color' \in [Values -> Colors] /\ \A v \in K : color'[v] = "black"
      /\ \A v \in Values \ K : color'[v] = color[v]
  <2>1. \A v \in Values : Contains(Revived(x), v) <=> v \in K
    BY <1>7, Member
  <2>2. \A v \in Values : color'[v] = IF v \in K THEN "black" ELSE color[v]
    BY <1>1, <2>1
  <2>3. color' = [v \in Values |-> color'[v]]
    BY <1>1
  <2> QED BY <1>2, <1>6, <2>2, <2>3, Shape DEF Colors
<1>9. black' \in Seq(Objects) /\ ToSet(black') = ToSet(B) \cup K /\ IsInjective(black')
  BY <1>1, <1>3, <1>6, <1>7, Concat
<1>10. /\ Gray' = Gray \ K /\ White' = White \ K
       /\ \A v \in ToSet(black') : v \in Values /\ color'[v] = "black"
  <2>1. \A v \in ToSet(B) : v \in Values \ K /\ color[v] = "black"
    BY <1>2, <1>3, <1>6, Sorts DEF Traversed, Colored
  <2> QED BY <1>6, <1>8, <1>9, <2>1 DEF Gray, White, Colored
<1>11. Trial' = Trial \ {x}
  <2>1. Trial' = Gray' \cup White' \cup ToSet(black')
    BY DEF Trial, Gray, White
  <2>2. x \notin Gray \cup White
    BY <1>3 DEF Gray, White, Colored
  <2> QED BY <1>3, <1>4, <1>6, <1>9, <1>10, <2>1, <2>2
<1>12. Gone' = Gone /\ Alive' = Alive /\ Apart' = Apart
  <2>1. Gone' = Gone /\ Alive' = Alive
    BY <1>1 DEF Gone, Alive
  <2> QED BY <1>1, <2>1 DEF Apart
<1>13. /\ \A v \in Objects : (Values \ Out(v))' = (Alive \ Trial) \cup {x}
       /\ \A v \in Leaves : (Values \ Out(v))' = Values \ Out(v)
  <2>1. \A v \in Objects : Out(v)' = Apart \cup (Trial \ {x})
    BY <1>11, <1>12 DEF Out
  <2>2. \A v \in Leaves : Out(v)' = Out(v)
    BY <1>12, Sorts DEF Out
  <2> QED BY <1>3, <1>4, <2>1, <2>2, Sorts DEF Alive
<1>14. ASSUME NEW v \in Objects
       PROVE  /\ count'[v] = count[v] + Times(elems[x], v) /\ count'[v] \in Nat
              /\ count'[v] = Unit(v \in local) + Refs(elems, (Alive \ Trial) \cup {x}, v)
              /\ Times(elems[x], v) \in Nat
  <2> DEFINE T == Alive \ Trial
  <2>1. T \subseteq Values /\ x \notin T /\ T = Values \ Out(v) /\ v \in Values
    BY <1>1, <1>3, <1>4, Scanning, Sorts DEF Alive
  <2> HIDE DEF T
  <2>2. /\ Refs(elems, T \cup {x}, v) = Refs(elems, T, v) + Times(elems[x], v)
        /\ Refs(elems, T, v) \in Nat /\ Times(elems[x], v) \in Nat
    <3>1. Graph(elems)
      BY <1>2, Shape
    <3>2. T \subseteq Values /\ x \in Values /\ x \notin T
      BY <1>3, <2>1
    <3> QED BY <3>1, <3>2, RefsMore
  <2>3. count[v] = Unit(v \in local) + Refs(elems, T, v) /\ Unit(v \in local) \in Nat
    BY <1>1, <2>1, Collecting
  <2>4. count'[v] = count[v] + Times(elems[x], v)
    BY <1>1, <2>1
  <2>5. count'[v] = Unit(v \in local) + Refs(elems, T \cup {x}, v) /\ count'[v] \in Nat
    BY <2>2, <2>3, <2>4
  <2> QED BY <2>2, <2>4, <2>5 DEF T
<1>15. \A v \in Leaves : count'[v] = count[v]
  BY <1>1, Sorts
<1>16. Types'
  <2>1. count' \in [Values -> Nat]
    <3>1. \A v \in Values : count'[v] \in Nat
      BY <1>2, <1>14, <1>15, Shape, Sorts
    <3>2. count' = [v \in Values |-> count'[v]]
      BY <1>1
    <3> QED BY <3>1, <3>2
  <2>2. TypeOK'
    BY <1>1, <1>2, <1>8, <1>9, <2>1 DEF TypeOK
  <2>3. \A v \in Leaves : v \in Values \ K
    BY <1>6, Sorts
  <2> QED BY <1>1, <1>2, <1>8, <2>2, <2>3 DEF Types
<1>17. Phases'
  BY <1>1, <1>2 DEF Phases
<1>18. Dying'
  BY <1>1, <1>2, <1>12 DEF Dying
<1>19. Buffer'
  <2>1. \A v \in Values : color'[v] = "purple" => color[v] = "purple"
    BY <1>8
  <2> QED BY <1>1, <1>2, <2>1 DEF Buffer
<1>20. Counts'
  <2>1. \A v \in Values : Expected(v)' = Unit(v \in local) + Refs(elems, (Values \ Out(v))', v) + Times(kids, v)
    BY <1>1 DEF Expected
  <2> SUFFICES ASSUME NEW v \in Values PROVE count'[v] = Expected(v)'
    BY DEF Counts
  <2>2. CASE v \in Objects
    <3>1. Expected(v)' = Unit(v \in local) + Refs(elems, (Alive \ Trial) \cup {x}, v) + Times(kids, v)
      BY <1>13, <2>1, <2>2
    <3>2. Times(kids, v) = 0
      BY <1>1, Collecting, TimesEmpty
    <3>3. count'[v] = Unit(v \in local) + Refs(elems, (Alive \ Trial) \cup {x}, v) /\ count'[v] \in Nat
      BY <1>14, <2>2
    <3> QED BY <3>1, <3>2, <3>3
  <2>3. CASE v \in Leaves
    <3>1. Expected(v)' = Expected(v)
      BY <1>13, <2>1, <2>3 DEF Expected
    <3> QED BY <1>2, <1>15, <2>3, <3>1 DEF Counts
  <2> QED BY <2>2, <2>3, Sorts
<1>21. Zero'
  <2> SUFFICES ASSUME NEW v \in Gone \cup White' PROVE count'[v] = 0
    BY <1>1, <1>4, <1>12 DEF Zero, White
  <2>1. v \in Values /\ count[v] = 0
    BY <1>2, <1>10 DEF Zero, Gone, White, Colored
  <2>2. CASE v \in Leaves
    BY <1>15, <2>1, <2>2
  <2>3. CASE v \in Objects
    <3>1. v \notin ToSet(elems[x])
      <4>1. v \in Gone => v \notin ToSet(elems[x])
        BY <1>4 DEF Alive
      <4>2. v \in White' => v \notin ToSet(elems[x])
        BY <1>6, <1>10, <2>3 DEF White, Colored
      <4> QED BY <4>1, <4>2
    <3>2. Times(elems[x], v) = 0
      <4>1. Times(elems[x], v) \in Nat /\ (Times(elems[x], v) > 0 <=> v \in ToSet(elems[x]))
        BY <1>2, <1>3, Shape, TimesMember
      <4> QED BY <3>1, <4>1
    <3> QED BY <1>14, <2>1, <2>3, <3>2
  <2> QED BY <2>1, <2>2, <2>3, Sorts
<1>22. NonZero'
  <2> SUFFICES ASSUME NEW v \in Alive, count'[v] = 0 PROVE color'[v] \in {"gray", "white"}
    BY <1>1, <1>12 DEF NonZero
  <2>1. v \in Values /\ v # cur
    BY <1>1, Collecting
  <2>2. count[v] = 0 /\ v \notin K
    <3>1. CASE v \in Leaves
      BY <1>6, <1>15, <3>1, Sorts
    <3>2. CASE v \in Objects
      <4>1. count[v] = 0 /\ Times(elems[x], v) = 0
        BY <1>2, <1>14, <2>1, <3>2, Shape
      <4>2. v \notin ToSet(elems[x])
        BY <1>2, <1>3, <4>1, Shape, TimesMember
      <4> QED BY <1>6, <4>1, <4>2
    <3> QED BY <2>1, <3>1, <3>2, Sorts
  <2>3. color[v] \in {"gray", "white"}
    BY <1>1, <1>2, <1>4, <2>1, <2>2 DEF NonZero
  <2> QED BY <1>8, <2>1, <2>2, <2>3
<1>23. Traversed'
  <2>1. ToSet(black') \subseteq Colored("black")'
    BY <1>10 DEF Colored
  <2>2. Colored("gray")' \cup Colored("white")' \cup ToSet(black') \subseteq Alive
    BY <1>4, <1>6, <1>9, <1>10 DEF Gray, White
  <2> QED BY <1>1, <1>2, <1>4, <1>9, <1>12, <2>1, <2>2 DEF Traversed
<1>24. ScanReaches'
  <2>1. /\ \A U \in SUBSET (Gray \ (ToSet(todo) \cup ToSet(stack))) :
             Isolated(Gray \cup ToSet(black), U) => U = {}
        /\ Grounded((Gray \cup White) \ ToSet(kept), Alive)
    BY <1>1, <1>2 DEF ScanReaches
  <2>2. ASSUME NEW U, U \subseteq Gray' \ (ToSet(todo) \cup ToSet(stack)), Isolated(Gray' \cup ToSet(black'), U)
        PROVE  U = {}
    <3>1. U \subseteq Gray \ (ToSet(todo) \cup ToSet(stack))
      BY <1>10, <2>2
    <3>2. ASSUME NEW w \in U PROVE w \notin ToSet(elems[x])
      <4>1. w \in Objects /\ w \notin K /\ color[w] # "black"
        BY <1>4, <1>10, <2>2 DEF Gray, Colored
      <4> QED BY <1>6, <4>1
    <3>3. \A v \in (Gray \cup ToSet(black)) \ U : v = x \/ v \in (Gray' \cup ToSet(black')) \ U
      BY <1>3, <1>9, <1>10
    <3>4. Isolated(Gray \cup ToSet(black), U)
      BY <2>2, <3>2, <3>3 DEF Isolated
    <3> QED BY <2>1, <3>1, <3>4
  <2>3. (\A U \in SUBSET (Gray \ (ToSet(todo) \cup ToSet(stack))) :
           Isolated(Gray \cup ToSet(black), U) => U = {})'
    BY <1>1, <2>2 DEF Isolated
  <2>4. Grounded((Gray \cup White) \ ToSet(kept), Alive)'
    BY <1>1, <1>10, <1>12, <2>1 DEF Grounded, Isolated
  <2> QED BY <2>3, <2>4 DEF ScanReaches
<1>25. GrayReached' /\ WhiteReached'
  BY <1>1 DEF GrayReached, WhiteReached
<1>26. NoneLost'
  <2>1. ASSUME NEW U, U \subseteq Alive \ local, Isolated(Alive, U)
        PROVE  U \cap Objects \subseteq Gray' \cup White'
    <3>1. U \cap Objects \subseteq Gray \cup White
      BY <1>1, <1>2, <1>4, <2>1 DEF NoneLost
    <3>2. x \notin U
      BY <1>3, <3>1 DEF Gray, White, Colored
    <3>3. \A w \in K : w \notin U
      BY <1>4, <1>6, <2>1, <3>2 DEF Isolated
    <3> QED BY <1>10, <3>1, <3>3
  <2>2. (\A U \in SUBSET (Alive \ local) :
           Isolated(Alive, U) => U \cap Objects \subseteq Gray \cup White \cup ToSet(garbage))'
    BY <1>1, <1>12, <2>1 DEF Isolated
  <2> QED BY <1>1, <2>2 DEF NoneLost
<1> QED BY <1>16, <1>17, <1>18, <1>19, <1>20, <1>21, <1>22, <1>23, <1>24, <1>25, <1>26 DEF IInv

LEMMA EndScanStep == ASSUME IInv, EndScan PROVE IInv'
<1>1. /\ pc = "scan" /\ stack = <<>> /\ black = <<>> /\ garbage = <<>> /\ todo = <<>>
      /\ pc' = "white" /\ todo' = kept
      /\ buffered' = [v \in Values |-> buffered[v] /\ ~Contains(kept, v)]
      /\ limit' = IF 2 * Survivors > Threshold THEN 2 * Survivors ELSE Threshold
      /\ UNCHANGED <<elems, count, color, dead, freed, roots, due, local, ops>>
      /\ UNCHANGED <<kids, cur, dying, kept, stack, black, garbage>>
  BY DEF EndScan, At, prog, destroy
<1>2. Types /\ TypeOK /\ Phases /\ Dying /\ Buffer /\ Counts /\ Zero /\ NonZero /\ Traversed /\ NoneLost /\ ScanReaches
  BY DEF IInv, Types
<1>3. ToSet(stack) = {} /\ ToSet(todo) = {} /\ ToSet(black) = {} /\ ToSet(garbage) = {}
  BY <1>1, ToSetEmpty
<1>4. Gone' = Gone /\ Alive' = Alive /\ Gray' = Gray /\ White' = White /\ \A c : Colored(c)' = Colored(c)
  BY <1>1 DEF Gone, Alive, Gray, White, Colored
<1>5. limit' \in Nat /\ limit' > 0
  <2> DEFINE n == Survivors
  <2>1. n \in Nat
    <3> DEFINE P == {i \in DOMAIN kept : color[kept[i]] = "black"}
    <3>1. kept \in Seq(Objects)
      BY <1>2 DEF TypeOK
    <3>2. DOMAIN kept = 1..Len(kept) /\ Len(kept) \in Nat
      BY <3>1, LenNat
    <3>3. IsFiniteSet(1..Len(kept))
      BY <3>2, FS_Interval
    <3>4. P \subseteq 1..Len(kept)
      BY <3>2
    <3> HIDE DEF P
    <3>5. Cardinality(P) \in Nat
      BY <3>3, <3>4, FS_Subset, FS_CardinalityType
    <3> QED BY <3>5 DEF Survivors, P
  <2>2. limit' = IF 2 * n > Threshold THEN 2 * n ELSE Threshold
    BY <1>1
  <2> HIDE DEF n
  <2> QED BY <2>1, <2>2, Sorts
<1>6. buffered' \in [Values -> BOOLEAN] /\ \A v \in Values : ~buffered'[v]
  <2>1. \A v \in Values : buffered[v] => v \in ToSet(kept)
    BY <1>1, <1>2 DEF Buffer
  <2>2. \A v \in Values : Contains(kept, v) <=> v \in ToSet(kept)
    BY <1>2, Member DEF TypeOK
  <2>3. \A v \in Values : buffered[v] \in BOOLEAN
    BY <1>2 DEF TypeOK
  <2> QED BY <1>1, <2>1, <2>2, <2>3
<1>7. Gray = {}
  <2>1. \A U \in SUBSET (Gray \ (ToSet(todo) \cup ToSet(stack))) :
          Isolated(Gray \cup ToSet(black), U) => U = {}
    BY <1>1, <1>2 DEF ScanReaches
  <2>2. Gray \in SUBSET (Gray \ (ToSet(todo) \cup ToSet(stack)))
    BY <1>3
  <2>3. Isolated(Gray \cup ToSet(black), Gray)
    BY <1>3 DEF Isolated
  <2> QED BY <2>1, <2>2, <2>3
<1>8. Types'
  BY <1>1, <1>2, <1>5, <1>6, Sorts DEF Types, TypeOK
<1>9. Phases'
  BY <1>1, <1>2, <1>4, <1>7 DEF Phases, Gray
<1>10. Dying'
  BY <1>1, <1>2, <1>4 DEF Dying
<1>11. Buffer'
  BY <1>1, <1>2, <1>5, <1>6 DEF Buffer
<1>12. Counts'
  <2>1. \A v \in Values : Out(v)' = Out(v)
    BY <1>1, <1>4 DEF Out, Apart, Trial
  <2>2. \A v \in Values : Expected(v)' = Expected(v)
    BY <1>1, <2>1 DEF Expected
  <2> QED BY <1>1, <1>2, <2>2 DEF Counts
<1>13. Zero'
  BY <1>1, <1>2, <1>4 DEF Zero
<1>14. NonZero'
  BY <1>1, <1>2, <1>4 DEF NonZero
<1>15. Traversed'
  BY <1>1, <1>2, <1>4 DEF Traversed
<1>16. WhiteReached'
  <2>1. Grounded((Gray \cup White) \ ToSet(kept), Alive)
    BY <1>1, <1>2 DEF ScanReaches
  <2>2. ASSUME NEW U, U \subseteq White \ ToSet(kept), Isolated(White, U)
        PROVE  U = {}
    <3>1. Isolated(Alive, U)
      <4> SUFFICES ASSUME NEW v \in Alive \ U, NEW w \in U, v \notin White PROVE w \notin ToSet(elems[v])
        BY <2>2 DEF Isolated
      <4>1. w \in Objects /\ w \in Values /\ ~(count[w] > 0)
        BY <1>2, <2>2, Shape, Sorts DEF Zero, White
      <4>2. v \in Values \ Out(w)
        BY <1>1, <1>3, <1>7, <4>1, Scanning DEF Alive
      <4> QED BY <1>1, <4>1, <4>2, Collecting
    <3> QED BY <2>1, <2>2, <3>1 DEF Grounded
  <2>3. Grounded(White \ (ToSet(todo) \cup ToSet(stack)), White)'
    BY <1>1, <1>3, <1>4, <2>2 DEF Grounded, Isolated
  <2> QED BY <2>3 DEF WhiteReached
<1>17. GrayReached' /\ ScanReaches'
  BY <1>1 DEF GrayReached, ScanReaches
<1>18. NoneLost'
  <2>1. \A U \in SUBSET (Alive \ local) :
          Isolated(Alive, U) => U \cap Objects \subseteq Gray \cup White \cup ToSet(garbage)
    BY <1>1, <1>2 DEF NoneLost
  <2>2. (\A U \in SUBSET (Alive \ local) :
          Isolated(Alive, U) => U \cap Objects \subseteq Gray \cup White \cup ToSet(garbage))'
    BY <1>1, <1>4, <2>1 DEF Isolated
  <2> QED BY <1>1, <2>2 DEF NoneLost
<1> QED BY <1>8, <1>9, <1>10, <1>11, <1>12, <1>13, <1>14, <1>15, <1>16, <1>17, <1>18 DEF IInv

-----------------------------------------------------------------------------
(* The third traversal: collect_white                                      *)

LEMMA Whitening ==
  ASSUME IInv, pc = "white"
  PROVE  /\ Gray = {} /\ ToSet(black) = {} /\ Trial = White /\ cur = Null /\ ToSet(dying) = {}
         /\ Apart = Gone \cup {Null} \cup ToSet(garbage)
         /\ \A v \in Objects : Values \ Out(v) = (Alive \ ToSet(garbage)) \ White
         /\ \A v \in Leaves : Values \ Out(v) = Alive \ ToSet(garbage)
         /\ White \subseteq Alive /\ White \subseteq Objects
         /\ ToSet(garbage) \subseteq Alive \cap Objects /\ White \cap ToSet(garbage) = {}
         /\ \A v \in Values : color[v] = "white" => ~freed[v] /\ ~buffered[v]
<1>1. Gray = {} /\ ToSet(black) = {} /\ cur = Null /\ ToSet(dying) = {}
  BY Collecting, ToSetEmpty DEF IInv, Phases, Gray
<1>2. Trial = White /\ Apart = Gone \cup {Null} \cup ToSet(garbage)
  BY <1>1 DEF Trial, Apart, Gray, White
<1>3. \A v \in Objects : Values \ Out(v) = (Alive \ ToSet(garbage)) \ White
  BY <1>2, Sorts DEF Out, Alive
<1>4. \A v \in Leaves : Values \ Out(v) = Alive \ ToSet(garbage)
  BY <1>2, Sorts DEF Out, Alive
<1>5. White \subseteq Alive /\ White \subseteq Objects
  BY Shape DEF IInv, Traversed, White
<1>6. ToSet(garbage) \subseteq Alive \cap Objects /\ White \cap ToSet(garbage) = {}
  <2>1. ToSet(garbage) \subseteq Objects
    BY Shape, Member DEF IInv
  <2>2. ToSet(garbage) \subseteq Colored("black") \cap Alive
    BY DEF IInv, Traversed
  <2> QED BY <2>1, <2>2 DEF White, Colored
<1>7. \A v \in Values : color[v] = "white" => ~freed[v] /\ ~buffered[v]
  BY <1>5 DEF IInv, Buffer, White, Colored, Alive, Gone
<1> QED BY <1>1, <1>2, <1>3, <1>4, <1>5, <1>6, <1>7

\* A step of collect_white that changes only its stacks.
LEMMA WhiteSame ==
  ASSUME IInv, pc = "white", UNCHANGED <<heap, buffer, prog, pc, destroy, kept, black, garbage>>,
         todo' \in Seq(Objects), stack' \in Seq(Objects),
         \A v \in White : v \in ToSet(todo) \cup ToSet(stack) => v \in ToSet(todo') \cup ToSet(stack')
  PROVE  IInv'
<1>1. /\ pc' = "white"
      /\ UNCHANGED <<elems, count, color, buffered, dead, freed, roots, limit, due, local, ops>>
      /\ UNCHANGED <<kids, cur, dying, kept, black, garbage>>
  BY DEF heap, buffer, prog, destroy
<1>2. Types /\ TypeOK /\ Phases /\ Dying /\ Buffer /\ Counts /\ Zero /\ NonZero /\ Traversed /\ NoneLost /\ WhiteReached
  BY DEF IInv, Types
<1>3. Gone' = Gone /\ Alive' = Alive /\ Gray' = Gray /\ White' = White /\ \A c : Colored(c)' = Colored(c)
  BY <1>1 DEF Gone, Alive, Gray, White, Colored
<1>4. Types'
  BY <1>1, <1>2 DEF Types, TypeOK
<1>5. Phases'
  BY <1>1, <1>2, <1>3 DEF Phases
<1>6. Dying'
  BY <1>1, <1>2, <1>3 DEF Dying
<1>7. Buffer'
  BY <1>1, <1>2 DEF Buffer
<1>8. Counts'
  <2>1. \A v \in Values : Out(v)' = Out(v)
    BY <1>1, <1>3 DEF Out, Apart, Trial
  <2>2. \A v \in Values : Expected(v)' = Expected(v)
    BY <1>1, <2>1 DEF Expected
  <2> QED BY <1>1, <1>2, <2>2 DEF Counts
<1>9. Zero'
  BY <1>1, <1>2, <1>3 DEF Zero
<1>10. NonZero'
  BY <1>1, <1>2, <1>3 DEF NonZero
<1>11. Traversed'
  BY <1>1, <1>2, <1>3 DEF Traversed
<1>12. WhiteReached'
  <2>1. Grounded(White \ (ToSet(todo) \cup ToSet(stack)), White)
    BY <1>2 DEF WhiteReached
  <2>2. Grounded(White \ (ToSet(todo) \cup ToSet(stack)), White)'
    BY <1>1, <1>3, <2>1 DEF Grounded, Isolated
  <2> QED BY <2>2 DEF WhiteReached
<1>13. GrayReached' /\ ScanReaches'
  BY <1>1 DEF GrayReached, ScanReaches
<1>14. NoneLost'
  <2>1. \A U \in SUBSET (Alive \ local) :
          Isolated(Alive, U) => U \cap Objects \subseteq Gray \cup White \cup ToSet(garbage)
    BY <1>2 DEF NoneLost
  <2>2. (\A U \in SUBSET (Alive \ local) :
          Isolated(Alive, U) => U \cap Objects \subseteq Gray \cup White \cup ToSet(garbage))'
    BY <1>1, <1>3, <2>1 DEF Isolated
  <2> QED BY <1>1, <2>2 DEF NoneLost
<1> QED BY <1>4, <1>5, <1>6, <1>7, <1>8, <1>9, <1>10, <1>11, <1>12, <1>13, <1>14 DEF IInv

LEMMA WhiteRootStep == ASSUME IInv, WhiteRoot PROVE IInv'
<1>1. /\ pc = "white" /\ todo # <<>> /\ stack = <<>>
      /\ stack' = <<Head(todo)>> /\ todo' = Tail(todo)
      /\ UNCHANGED <<heap, buffer, prog, pc, destroy, kept, black, garbage>>
  BY DEF WhiteRoot, At
<1>2. todo \in Seq(Objects) /\ ToSet(stack) = {}
  BY <1>1, ToSetEmpty DEF IInv, Types, TypeOK
<1>3. /\ Head(todo) \in Objects /\ Tail(todo) \in Seq(Objects)
      /\ ToSet(todo) = {Head(todo)} \cup ToSet(Tail(todo))
  BY <1>1, <1>2, HeadTail
<1>4. stack' \in Seq(Objects) /\ ToSet(stack') = {Head(todo)}
  BY <1>1, <1>3, Single
<1>5. todo' \in Seq(Objects) /\ ToSet(todo) \cup ToSet(stack) = ToSet(todo') \cup ToSet(stack')
  BY <1>1, <1>2, <1>3, <1>4
<1> QED BY <1>1, <1>4, <1>5, WhiteSame

LEMMA CollectWhiteStep == ASSUME IInv, CollectWhite PROVE IInv'
<1> DEFINE x == Last(stack)
           S == Front(stack)
           K == ToSet(elems[x]) \cap Objects
           L == {v \in Leaves : ~freed[v] /\ Times(elems[x], v) > 0 /\ count'[v] = 0}
<1>1. /\ pc = "white" /\ stack # <<>>
      /\ \/ /\ freed[x] \/ ~LooksWhite(x)
            /\ stack' = S /\ UNCHANGED <<color, count, freed, garbage>>
         \/ /\ LooksWhite(x)
            /\ color' = [color EXCEPT ![x] = "black"]
            /\ stack' = S \o CyclicChildren(x)
            /\ count' = [v \in Values |-> IF v \in Leaves THEN count[v] - Times(elems[x], v) ELSE count[v]]
            /\ freed' = [v \in Values |-> freed[v] \/ (v \in Leaves /\ Times(elems[x], v) > 0 /\ count'[v] = 0)]
            /\ garbage' = Append(garbage, x)
      /\ UNCHANGED <<elems, buffered, dead, buffer, prog, pc, destroy, todo, kept, black>>
      /\ UNCHANGED <<roots, limit, due, local, ops, kids, cur, dying>>
  BY DEF CollectWhite, Paint, Popped, buffer, prog, destroy
<1>2. Types /\ TypeOK /\ Phases /\ Dying /\ Buffer /\ Counts /\ Zero /\ NonZero /\ Traversed /\ NoneLost /\ WhiteReached
  BY DEF IInv, Types
<1>3. /\ x \in Objects /\ x \in Values /\ S \in Seq(Objects) /\ ToSet(stack) = ToSet(S) \cup {x}
  <2>1. stack \in Seq(Objects)
    BY <1>2 DEF TypeOK
  <2> QED BY <1>1, <2>1, FrontLast, Sorts
\* A white value has its block.
<1>4. (LooksWhite(x) <=> color[x] = "white") /\ (color[x] = "white" => ~freed[x])
  BY <1>1, <1>3, Whitening DEF LooksWhite
<1>5. /\ CyclicChildren(x) \in Seq(Objects) /\ ToSet(CyclicChildren(x)) = K
  BY <1>2, <1>3, Shape
<1> HIDE DEF x, S, K
<1>6. CASE color[x] # "white"
  <2>1. stack' = S /\ UNCHANGED <<color, count, freed, garbage>>
    BY <1>1, <1>4, <1>6
  <2>2. UNCHANGED <<heap, buffer, prog, pc, destroy, kept, black, garbage>>
    BY <1>1, <2>1 DEF heap
  <2>3. todo' \in Seq(Objects) /\ stack' \in Seq(Objects)
    BY <1>1, <1>2, <1>3, <2>1 DEF TypeOK
  <2>4. \A v \in White : v \in ToSet(todo) \cup ToSet(stack) => v \in ToSet(todo') \cup ToSet(stack')
    BY <1>1, <1>3, <1>6, <2>1 DEF White, Colored
  <2> QED BY <1>1, <2>2, <2>3, <2>4, WhiteSame
<1>7. CASE color[x] = "white"
  <2>1. /\ color' = [color EXCEPT ![x] = "black"]
        /\ stack' = S \o CyclicChildren(x)
        /\ count' = [v \in Values |-> IF v \in Leaves THEN count[v] - Times(elems[x], v) ELSE count[v]]
        /\ freed' = [v \in Values |-> freed[v] \/ (v \in Leaves /\ Times(elems[x], v) > 0 /\ count'[v] = 0)]
        /\ garbage' = Append(garbage, x)
    BY <1>1, <1>4, <1>7
  <2>2. /\ Gray = {} /\ Trial = White /\ cur = Null /\ ToSet(dying) = {} /\ ToSet(black) = {}
        /\ Apart = Gone \cup {Null} \cup ToSet(garbage)
        /\ \A v \in Objects : Values \ Out(v) = (Alive \ ToSet(garbage)) \ White
        /\ \A v \in Leaves : Values \ Out(v) = Alive \ ToSet(garbage)
        /\ White \subseteq Alive /\ White \subseteq Objects
        /\ ToSet(garbage) \subseteq Alive \cap Objects /\ White \cap ToSet(garbage) = {}
        /\ x \in White
    BY <1>1, <1>3, <1>7, Whitening DEF White, Colored
  <2>3. /\ garbage' \in Seq(Objects) /\ ToSet(garbage') = ToSet(garbage) \cup {x} /\ IsInjective(garbage')
    <3>1. garbage \in Seq(Objects) /\ IsInjective(garbage) /\ x \notin ToSet(garbage)
      BY <1>2, <2>2 DEF TypeOK, Traversed
    <3> QED BY <1>3, <2>1, <3>1, Appended
  <2>4. stack' \in Seq(Objects) /\ ToSet(stack') = ToSet(S) \cup K
    BY <1>3, <1>5, <2>1, Concat
  <2>5. /\ color' \in [Values -> Colors] /\ color'[x] = "black" /\ \A v \in Values \ {x} : color'[v] = color[v]
    BY <1>2, <1>3, <2>1 DEF TypeOK, Colors
  <2>6. /\ Gray' = {} /\ White' = White \ {x} /\ Colored("gray")' = {} /\ Colored("white")' = White'
    BY <1>3, <2>2, <2>5 DEF Gray, White, Colored
  <2>7. /\ freed' \in [Values -> BOOLEAN] /\ \A v \in Values : freed'[v] <=> freed[v] \/ v \in L
    BY <1>2, <2>1 DEF TypeOK
  <2>8. L \subseteq Leaves /\ L \subseteq Values /\ L \cap Objects = {} /\ L \cap Gone = {} /\ L \cap White = {}
    BY <1>2, <2>2, Sorts DEF Gone, Types
  <2>9. /\ Gone' = Gone \cup L /\ Alive' = Alive \ L
        /\ \A v \in L : count'[v] = 0
    BY <1>1, <2>7, <2>8 DEF Gone, Alive
  <2>10. Trial' = White \ {x} /\ Apart' = Gone \cup L \cup {Null} \cup ToSet(garbage) \cup {x}
    BY <1>1, <2>2, <2>3, <2>6, <2>9 DEF Trial, Apart
  <2> DEFINE T == (Alive \ ToSet(garbage)) \ {x}
  <2>11. /\ \A v \in Objects : (Values \ Out(v))' = (Values \ Out(v)) \ L
         /\ \A v \in Leaves : (Values \ Out(v))' = T \ L
    <3>1. \A v \in Objects : Out(v)' = Apart' \cup Trial'
      BY DEF Out
    <3>2. \A v \in Leaves : Out(v)' = Apart'
      BY Sorts DEF Out
    <3> QED BY <2>2, <2>10, <3>1, <3>2, Sorts DEF Alive
  \* What the leaves hold does not count.
  <2>12. ASSUME NEW P, P \subseteq Values, NEW v PROVE Refs(elems, P \ L, v) = Refs(elems, P, v)
    <3>1. RefSet(elems, P \ L, v) = RefSet(elems, P, v)
      <4>1. \A u \in L : DOMAIN elems[u] = {}
        BY <1>2, <2>8 DEF Types
      <4> HIDE DEF L
      <4> QED BY <4>1 DEF RefSet
    <3> QED BY <3>1 DEF Refs
  <2> HIDE DEF L
  <2>13. \A v \in Objects : count'[v] = count[v]
    BY <2>1, Sorts
  <2>14. ASSUME NEW v \in Leaves
         PROVE  /\ count[v] = count'[v] + Times(elems[x], v) /\ count'[v] \in Nat /\ Times(elems[x], v) \in Nat
                /\ count'[v] = Unit(v \in local) + Refs(elems, T, v)
    <3>1. T \subseteq Values /\ x \in Values /\ x \notin T /\ T \cup {x} = Values \ Out(v) /\ v \in Values
      BY <1>3, <2>2, Sorts DEF Alive
    <3> HIDE DEF T
    <3>2. /\ Refs(elems, T \cup {x}, v) = Refs(elems, T, v) + Times(elems[x], v)
          /\ Refs(elems, T, v) \in Nat /\ Times(elems[x], v) \in Nat
      <4>1. Graph(elems)
        BY <1>2, Shape
      <4> QED BY <3>1, <4>1, RefsMore
    <3>3. count[v] = Unit(v \in local) + Refs(elems, T \cup {x}, v) /\ Unit(v \in local) \in Nat
      BY <1>1, <3>1, Collecting
    <3>4. count'[v] = count[v] - Times(elems[x], v)
      BY <2>1, <3>1
    <3>5. count'[v] = Unit(v \in local) + Refs(elems, T, v)
      BY <3>2, <3>3, <3>4
    <3>6. count'[v] \in Nat /\ count[v] = count'[v] + Times(elems[x], v)
      BY <3>2, <3>3, <3>5
    <3> QED BY <3>2, <3>5, <3>6
  <2>15. \A v \in Values : count[v] = 0 => count'[v] = 0
    <3>1. \A v \in Leaves : count[v] = 0 => count'[v] = 0
      BY <2>14
    <3> QED BY <2>13, <3>1, Sorts
  <2>16. Types'
    <3>1. count' \in [Values -> Nat]
      <4>1. \A v \in Values : count'[v] \in Nat
        BY <1>2, <2>13, <2>14, Shape, Sorts
      <4>2. count' = [v \in Values |-> count'[v]]
        BY <2>1
      <4> QED BY <4>1, <4>2
    <3>2. TypeOK'
      BY <1>1, <1>2, <2>3, <2>4, <2>5, <2>7, <3>1 DEF TypeOK
    <3>3. \A v \in Leaves : v \in Values \ {x}
      BY <1>3, Sorts
    <3> QED BY <1>1, <1>2, <2>5, <3>2, <3>3 DEF Types
  <2>17. Phases'
    BY <1>1, <1>2, <2>6 DEF Phases
  <2>18. Dying'
    BY <1>1, <1>2, <2>2, EmptyInjective, Collecting DEF Dying
  <2>19. Buffer'
    <3>1. \A v \in Values : color'[v] = "purple" => color[v] = "purple"
      BY <2>5
    <3> QED BY <1>1, <1>2, <2>7, <3>1 DEF Buffer
  <2>20. Counts'
    <3>1. \A v \in Values : Expected(v)' = Unit(v \in local) + Refs(elems, (Values \ Out(v))', v) + Times(kids, v)
      BY <1>1 DEF Expected
    <3> SUFFICES ASSUME NEW v \in Values PROVE count'[v] = Expected(v)'
      BY DEF Counts
    <3>2. CASE v \in Objects
      <4>1. Refs(elems, (Values \ Out(v))', v) = Refs(elems, Values \ Out(v), v)
        <5>1. Refs(elems, (Values \ Out(v)) \ L, v) = Refs(elems, Values \ Out(v), v)
          BY <2>12
        <5> QED BY <2>11, <3>2, <5>1
      <4>2. Expected(v)' = Expected(v)
        BY <3>1, <4>1 DEF Expected
      <4> QED BY <1>2, <2>13, <3>2, <4>2 DEF Counts
    <3>3. CASE v \in Leaves
      <4>1. Refs(elems, T \ L, v) = Refs(elems, T, v)
        <5>1. T \subseteq Values
          BY DEF Alive
        <5> HIDE DEF T
        <5> QED BY <2>12, <5>1
      <4>2. Expected(v)' = Unit(v \in local) + Refs(elems, T, v) + Times(kids, v)
        BY <2>11, <3>1, <3>3, <4>1
      <4>3. Times(kids, v) = 0
        BY <1>1, Collecting, TimesEmpty
      <4>4. count'[v] = Unit(v \in local) + Refs(elems, T, v) /\ count'[v] \in Nat
        BY <2>14, <3>3
      <4> QED BY <4>2, <4>3, <4>4
    <3> QED BY <3>2, <3>3, Sorts
  <2>21. Zero'
    <3> SUFFICES ASSUME NEW v \in Gone \cup L \cup White' \cup ToSet(garbage') PROVE count'[v] = 0
      BY <1>1, <2>2, <2>6, <2>9 DEF Zero
    <3>1. v \in L \/ (v \in Values /\ count[v] = 0)
      BY <1>2, <1>3, <2>2, <2>3, <2>6, Sorts DEF Zero, Gone, White, Alive
    <3> QED BY <2>9, <2>15, <3>1
  <2>22. NonZero'
    <3> SUFFICES ASSUME NEW v \in Alive', count'[v] = 0
                 PROVE  color'[v] \in {"gray", "white"} \/ v \in ToSet(garbage')
      BY DEF NonZero
    <3>1. v \in Values /\ v \in Alive /\ v \notin L /\ v # cur
      BY <1>1, <2>9, Collecting
    <3>2. CASE v \in Objects
      <4>1. count[v] = 0
        BY <2>13, <3>2
      <4>2. color[v] \in {"gray", "white"} \/ v \in ToSet(garbage)
        BY <1>1, <1>2, <2>2, <3>1, <4>1 DEF NonZero
      <4> QED BY <2>3, <2>5, <3>1, <4>2
    <3>3. CASE v \in Leaves
      <4>1. color[v] = "black" /\ v \notin ToSet(garbage)
        BY <1>2, <2>2, <3>3, Sorts DEF Types
      <4>2. count[v] # 0
        BY <1>1, <1>2, <2>2, <3>1, <4>1 DEF NonZero
      <4>3. Times(elems[x], v) > 0
        BY <2>14, <3>3, <4>2
      <4>4. v \in L
        BY <3>1, <3>3, <4>3 DEF L, Alive, Gone
      <4> QED BY <3>1, <4>4
    <3> QED BY <3>1, <3>2, <3>3, Sorts
  <2>23. Traversed'
    <3>1. Colored("gray")' \cup Colored("white")' \cup ToSet(black') \subseteq Alive'
      BY <1>1, <2>2, <2>6, <2>8, <2>9
    <3>2. ToSet(garbage') \subseteq Colored("black")' \cap Alive'
      <4>1. \A v \in ToSet(garbage) : v \in Values /\ v # x /\ color[v] = "black"
        BY <1>2, <2>2 DEF Traversed, Colored
      <4>2. \A v \in ToSet(garbage') : v \in Objects /\ v \in Values /\ color'[v] = "black" /\ v \in Alive
        BY <1>3, <2>2, <2>3, <2>5, <4>1
      <4> QED BY <2>8, <2>9, <4>2 DEF Colored
    <3>3. IsInjective(black') /\ ToSet(black') \subseteq Colored("black")'
      BY <1>1, <1>2, <2>2 DEF Traversed
    <3> QED BY <1>1, <2>3, <3>1, <3>2, <3>3 DEF Traversed
  <2>24. WhiteReached'
    <3>1. Grounded(White \ (ToSet(todo) \cup ToSet(stack)), White)
      BY <1>1, <1>2 DEF WhiteReached
    <3>2. ASSUME NEW U, U \subseteq White' \ (ToSet(todo) \cup ToSet(stack')), Isolated(White', U)
          PROVE  U = {}
      <4>1. U \subseteq White \ (ToSet(todo) \cup ToSet(stack))
        BY <1>3, <2>4, <2>6, <3>2
      <4>2. \A u \in U : u \notin ToSet(elems[x])
        BY <2>2, <2>4, <2>6, <3>2 DEF K
      <4>3. Isolated(White, U)
        BY <2>6, <3>2, <4>2 DEF Isolated
      <4> QED BY <3>1, <4>1, <4>3 DEF Grounded
    <3>3. Grounded(White \ (ToSet(todo) \cup ToSet(stack)), White)'
      BY <1>1, <3>2 DEF Grounded, Isolated
    <3> QED BY <3>3 DEF WhiteReached
  <2>25. GrayReached' /\ ScanReaches'
    BY <1>1 DEF GrayReached, ScanReaches
  <2>26. NoneLost'
    <3>1. ASSUME NEW U, U \subseteq Alive' \ local, \A v \in Alive' \ U : \A w \in U : w \notin ToSet(elems[v])
          PROVE  U \cap Objects \subseteq Gray' \cup White' \cup ToSet(garbage')
      <4>1. Isolated(Alive, U)
        <5> SUFFICES ASSUME NEW v \in Alive \ U, NEW w \in U PROVE w \notin ToSet(elems[v])
          BY DEF Isolated
        <5>1. v \in L => ToSet(elems[v]) = {}
          BY <1>2, <2>8, Shape
        <5> QED BY <2>9, <3>1, <5>1
      <4>2. U \cap Objects \subseteq Gray \cup White \cup ToSet(garbage)
        BY <1>1, <1>2, <2>9, <3>1, <4>1 DEF NoneLost
      <4> QED BY <2>2, <2>3, <2>6, <4>2
    <3>2. (\A U \in SUBSET (Alive \ local) :
             Isolated(Alive, U) => U \cap Objects \subseteq Gray \cup White \cup ToSet(garbage))'
      BY <1>1, <3>1 DEF Isolated
    <3> QED BY <1>1, <3>2 DEF NoneLost
  <2> QED BY <2>16, <2>17, <2>18, <2>19, <2>20, <2>21, <2>22, <2>23, <2>24, <2>25, <2>26 DEF IInv
<1> QED BY <1>6, <1>7

LEMMA FreeGarbageStep == ASSUME IInv, FreeGarbage PROVE IInv'
<1> DEFINE G == ToSet(garbage)
<1>1. /\ pc = "white" /\ stack = <<>> /\ garbage' = <<>>
      /\ freed' = [v \in Values |-> freed[v] \/ Contains(garbage, v)]
      /\ UNCHANGED <<elems, count, color, buffered, dead, roots, limit, due, local, ops, pc>>
      /\ UNCHANGED <<kids, cur, dying, todo, kept, stack, black>>
  BY DEF FreeGarbage, buffer, prog, destroy
<1>2. Types /\ TypeOK /\ Phases /\ Dying /\ Buffer /\ Counts /\ Zero /\ NonZero /\ Traversed /\ NoneLost /\ WhiteReached
  BY DEF IInv, Types
<1>3. /\ Gray = {} /\ Trial = White /\ cur = Null /\ ToSet(dying) = {} /\ ToSet(black) = {}
      /\ Apart = Gone \cup {Null} \cup G
      /\ \A v \in Objects : Values \ Out(v) = (Alive \ G) \ White
      /\ White \subseteq Alive /\ White \subseteq Objects
      /\ G \subseteq Alive \cap Objects /\ White \cap G = {}
  BY <1>1, Whitening
<1>4. freed' \in [Values -> BOOLEAN] /\ \A v \in Values : freed'[v] <=> freed[v] \/ v \in G
  <2>1. \A v : Contains(garbage, v) <=> v \in G
    BY <1>2, Member DEF TypeOK
  <2> QED BY <1>1, <1>2, <2>1 DEF TypeOK
<1>5. /\ Gone' = Gone \cup G /\ Alive' = Alive \ G /\ ToSet(garbage') = {}
      /\ Gray' = Gray /\ White' = White /\ \A c : Colored(c)' = Colored(c)
  <2>1. G \subseteq Values
    BY <1>3, Sorts
  <2>2. Gone' = Gone \cup G
    BY <1>1, <1>4, <2>1 DEF Gone
  <2> QED BY <1>1, <2>2, ToSetEmpty DEF Alive, Gray, White, Colored
<1> HIDE DEF G
<1>6. Types'
  <2>1. garbage' \in Seq(Objects)
    BY <1>1
  <2> QED BY <1>1, <1>2, <1>4, <2>1 DEF Types, TypeOK
<1>7. Phases'
  BY <1>1, <1>2, <1>5 DEF Phases
<1>8. Dying'
  BY <1>1, <1>2, <1>3, <1>5 DEF Dying
<1>9. Buffer'
  BY <1>1, <1>2, <1>4 DEF Buffer
<1>10. Counts'
  <2>1. Apart' = Apart /\ Trial' = Trial
    BY <1>1, <1>3, <1>5 DEF Apart, Trial
  <2>2. \A v \in Values : Expected(v)' = Expected(v)
    BY <1>1, <2>1 DEF Expected, Out
  <2> QED BY <1>1, <1>2, <2>2 DEF Counts
<1>11. Zero'
  BY <1>1, <1>2, <1>5 DEF Zero, G
<1>12. NonZero'
  BY <1>1, <1>2, <1>5 DEF NonZero, G
<1>13. Traversed'
  <2>1. Colored("gray")' \cup Colored("white")' \cup ToSet(black') \subseteq Alive'
    BY <1>1, <1>2, <1>3, <1>5 DEF White, Gray
  <2> QED BY <1>1, <1>2, <1>3, <1>5, <2>1, EmptyInjective DEF Traversed
<1>14. WhiteReached'
  <2>1. Grounded(White \ (ToSet(todo) \cup ToSet(stack)), White)
    BY <1>1, <1>2 DEF WhiteReached
  <2>2. Grounded(White \ (ToSet(todo) \cup ToSet(stack)), White)'
    BY <1>1, <1>5, <2>1 DEF Grounded, Isolated
  <2> QED BY <2>2 DEF WhiteReached
<1>15. GrayReached' /\ ScanReaches'
  BY <1>1 DEF GrayReached, ScanReaches
<1>16. NoneLost'
  <2>1. ASSUME NEW U, U \subseteq (Alive \ G) \ local,
               \A v \in (Alive \ G) \ U : \A w \in U : w \notin ToSet(elems[v])
        PROVE  U \cap Objects \subseteq White
    <3> DEFINE W == U \cup G \cup White
    <3>1. \A w \in G \cup White : w \in Objects /\ w \in Values /\ ~(count[w] > 0)
      BY <1>2, <1>3, Sorts DEF Zero, White, G
    <3>2. Isolated(Alive, W)
      <4> SUFFICES ASSUME NEW v \in Alive \ W, NEW w \in W PROVE w \notin ToSet(elems[v])
        BY DEF Isolated
      <4>1. CASE w \in U
        BY <2>1, <4>1
      <4>2. CASE w \in G \cup White
        <5>1. v \in Values \ Out(w)
          BY <1>3, <3>1, <4>2
        <5> QED BY <1>1, <3>1, <4>2, <5>1, Collecting
      <4> QED BY <4>1, <4>2
    <3>3. W \subseteq Alive \ local
      <4>1. \A w \in G \cup White : w \notin local
        BY <1>2, <3>1, Held
      <4> QED BY <1>3, <2>1, <4>1
    <3>4. W \cap Objects \subseteq White \cup G
      BY <1>1, <1>2, <1>3, <3>2, <3>3 DEF NoneLost, G
    <3> QED BY <2>1, <3>4
  <2>2. (\A U \in SUBSET (Alive \ local) :
          Isolated(Alive, U) => U \cap Objects \subseteq Gray \cup White \cup ToSet(garbage))'
    BY <1>1, <1>3, <1>5, <2>1 DEF Isolated
  <2> QED BY <1>1, <2>2 DEF NoneLost
<1> QED BY <1>6, <1>7, <1>8, <1>9, <1>10, <1>11, <1>12, <1>13, <1>14, <1>15, <1>16 DEF IInv

LEMMA EndCollectionStep == ASSUME IInv, EndCollection PROVE IInv'
<1>1. /\ pc = "white" /\ stack = <<>> /\ black = <<>> /\ garbage = <<>> /\ todo = <<>>
      /\ pc' = "code" /\ kept' = <<>>
      /\ UNCHANGED <<elems, count, color, buffered, dead, freed, roots, limit, due, local, ops>>
      /\ UNCHANGED <<kids, cur, dying, todo, stack, black, garbage>>
  BY DEF EndCollection, At, heap, buffer, prog, destroy
<1>2. Types /\ TypeOK /\ Phases /\ Dying /\ Buffer /\ Counts /\ Zero /\ NonZero /\ Traversed /\ NoneLost /\ WhiteReached
  BY DEF IInv, Types
<1>3. /\ ToSet(stack) = {} /\ ToSet(todo) = {} /\ ToSet(garbage) = {} /\ ToSet(roots) = {} /\ ToSet(kids) = {}
      /\ ToSet(dying) = {} /\ roots = <<>> /\ kids = <<>> /\ cur = Null /\ dying = <<>> /\ ~due
  BY <1>1, <1>2, ToSetEmpty, Collecting DEF Phases
<1>4. White = {} /\ Gray = {}
  <2>1. Grounded(White \ (ToSet(todo) \cup ToSet(stack)), White)
    BY <1>1, <1>2 DEF WhiteReached
  <2>2. Isolated(White, White)
    BY DEF Isolated
  <2> QED BY <1>1, <1>3, <2>1, <2>2, Whitening DEF Grounded
<1>5. /\ Gone' = Gone /\ Alive' = Alive /\ Gray' = {} /\ White' = {} /\ (\A c : Colored(c)' = Colored(c))
      /\ Colored("gray")' = {} /\ Colored("white")' = {}
  BY <1>1, <1>4 DEF Gone, Alive, Gray, White, Colored
<1>6. Types'
  BY <1>1, <1>2 DEF Types, TypeOK
<1>7. Phases'
  BY <1>1, <1>3, <1>5 DEF Phases
<1>8. Dying'
  BY <1>1, <1>2, <1>5 DEF Dying
<1>9. Buffer'
  <2>1. ASSUME NEW v \in Values
        PROVE  ~buffered[v] /\ (~freed[v] => color[v] = "black") /\ (dead[v] => freed[v])
    <3>1. color[v] \in Colors /\ color[v] # "gray" /\ color[v] # "white"
      BY <1>2, <1>4, Shape DEF Gray, White, Colored
    <3>2. ~buffered[v] /\ (color[v] = "purple" => freed[v]) /\ (dead[v] => freed[v])
      BY <1>1, <1>2 DEF Buffer
    <3> QED BY <3>1, <3>2 DEF Colors
  <2>2. limit' > 0 /\ ~(Len(roots') >= limit')
    <3>1. Len(roots) = 0 /\ limit > 0 /\ limit \in Nat
      BY <1>2, <1>3 DEF Buffer, TypeOK
    <3> QED BY <1>1, <3>1
  <2> QED BY <1>1, <1>3, <2>1, <2>2, EmptyInjective DEF Buffer
<1>10. Counts'
  <2>1. \A v \in Values : Out(v)' = Out(v)
    BY <1>1, <1>5 DEF Out, Apart, Trial
  <2>2. \A v \in Values : Expected(v)' = Expected(v)
    BY <1>1, <2>1 DEF Expected
  <2> QED BY <1>1, <1>2, <2>2 DEF Counts
<1>11. Zero'
  BY <1>1, <1>2, <1>5 DEF Zero
<1>12. NonZero'
  BY <1>1, <1>2, <1>5 DEF NonZero
<1>13. Traversed'
  BY <1>1, <1>2, <1>5 DEF Traversed
<1>14. GrayReached' /\ ScanReaches' /\ WhiteReached'
  BY <1>1 DEF GrayReached, ScanReaches, WhiteReached
<1>15. NoneLost'
  <2>1. ASSUME NEW U, U \subseteq Alive \ local, Isolated(Alive, U) PROVE U = {}
    <3>1. U \cap Objects = {}
      BY <1>1, <1>2, <1>3, <1>4, <2>1 DEF NoneLost
    <3> SUFFICES ASSUME NEW u \in U PROVE FALSE
      OBVIOUS
    <3>2. u \in Leaves /\ u \in Values /\ u \in Alive /\ u \notin local
      BY <2>1, <3>1, Sorts DEF Alive
    <3>3. count[u] # 0
      BY <1>1, <1>2, <1>3, <1>4, <3>2, Sorts DEF NonZero, Gray, White, Colored
    <3>4. PICK y \in Values \ Out(u) : u \in ToSet(elems[y])
      <4>1. count[u] \in Nat
        BY <1>2, <3>2, Shape
      <4>2. count[u] > 0
        BY <3>3, <4>1
      <4>3. \E y \in Values \ Out(u) : u \in ToSet(elems[y])
        BY <1>2, <1>3, <3>2, <4>2, Counted
      <4> QED BY <4>3
    <3>5. y \in Alive
      BY <1>1, <1>3, <3>2, <3>4, Whitening
    <3>6. y \in Objects
      BY <1>2, <3>4, Shape, Sorts
    <3> QED BY <2>1, <3>1, <3>4, <3>5, <3>6 DEF Isolated
  <2>2. /\ (Alive \ (local \cup ToSet(roots) \cup ToSet(kids) \cup ToSet(dying) \cup {cur}))' = Alive \ local
        /\ (Alive \ {cur})' = Alive
    BY <1>1, <1>3, <1>5, Sorts DEF Alive
  <2>3. Grounded(Alive \ (local \cup ToSet(roots) \cup ToSet(kids) \cup ToSet(dying) \cup {cur}), Alive \ {cur})'
    BY <1>1, <2>1, <2>2 DEF Grounded, Isolated
  <2> QED BY <1>1, <2>3 DEF NoneLost
<1> QED BY <1>6, <1>7, <1>8, <1>9, <1>10, <1>11, <1>12, <1>13, <1>14, <1>15 DEF IInv

-----------------------------------------------------------------------------
(* The invariant                                                           *)

LEMMA InitInv == Init => IInv
<1> SUFFICES ASSUME Init PROVE IInv
  OBVIOUS
<1>1. PICK h \in Heaps :
        /\ elems = h.elems /\ local = h.local /\ ops = h.ops
        /\ dead = [v \in Values |-> v \in h.dead] /\ freed = [v \in Values |-> v \in h.freed]
        /\ count = [v \in Values |-> References(h.elems, h.freed \cup h.dead, h.local, v)]
        /\ buffered = [v \in Values |-> v \in h.roots] /\ roots = SetToSeq(h.roots)
        /\ color = [v \in Values |-> IF v \in h.roots THEN "purple" ELSE "black"]
  BY DEF Init
<1>2. /\ limit \in {Threshold, 2 * Cardinality(Objects)} /\ Len(roots) < limit
      /\ due = FALSE /\ pc = "code" /\ kids = <<>> /\ cur = Null /\ dying = <<>>
      /\ todo = <<>> /\ kept = <<>> /\ stack = <<>> /\ black = <<>> /\ garbage = <<>>
  BY DEF Init
<1>3. /\ elems \in [Values -> Seq(Values)] /\ local \subseteq Values /\ ops \in Nat
      /\ h.dead \subseteq h.roots /\ h.roots \subseteq Objects /\ h.freed \subseteq Values
      /\ h.freed \cap (local \cup h.roots) = {}
      /\ \A v \in Values :
           /\ v \in h.freed \cup h.dead <=> References(elems, h.freed \cup h.dead, local, v) = 0
           /\ v \in h.freed \cup Leaves => elems[v] = <<>>
           /\ Len(elems[v]) <= MaxElems
           /\ v \in h.freed \/ v \in Reach(elems, h.dead, local \cup h.roots)
  BY <1>1, HeapsAssumption DEF IsHeap
<1>4. Gone = h.freed \cup h.dead /\ Alive = Values \ (h.freed \cup h.dead)
  BY <1>1, <1>3, Sorts DEF Gone, Alive
<1>5. roots \in Seq(Objects) /\ IsInjective(roots) /\ ToSet(roots) = h.roots
  <2>1. IsFiniteSet(h.roots)
    BY <1>3, Sorts, FS_Subset
  <2>2. roots \in Seq(h.roots) /\ IsInjective(roots) /\ ToSet(roots) = h.roots
    BY <1>1, <2>1, Listed
  <2>3. roots \in Seq(Objects)
    BY <1>3, <2>2
  <2> QED BY <2>2, <2>3
<1>6. limit \in Nat /\ limit > 0 /\ Len(roots) \in Nat
  <2>1. IsFiniteSet(Objects)
    BY Sorts, FS_Subset
  <2>2. Cardinality(Objects) \in Nat
    BY <2>1, FS_CardinalityType
  <2>3. limit \in Nat
    BY <1>2, <2>2, Sorts
  <2>4. Len(roots) \in Nat
    BY <1>5, LenNat
  <2> QED BY <1>2, <2>3, <2>4
<1>7. \A v \in Values : References(elems, Gone, local, v) = Unit(v \in local) + Refs(elems, Alive, v)
  BY <1>4 DEF References, Unit, Refs, RefSet, Alive
<1>8. \A v \in Values : count[v] = Unit(v \in local) + Refs(elems, Alive, v)
  BY <1>1, <1>4, <1>7
<1>9. \A v \in Values : count[v] \in Nat
  <2>1. Graph(elems)
    BY <1>3 DEF Graph
  <2>2. \A v \in Values : Refs(elems, Alive, v) \in Nat
    BY <2>1, RefsType DEF Alive
  <2>3. \A b : Unit(b) \in Nat
    BY DEF Unit
  <2> QED BY <1>8, <2>2, <2>3
<1>10. \A v \in Values : count[v] = 0 <=> v \in Gone
  BY <1>1, <1>3, <1>4
<1>11. ToSet(<<>>) = {} /\ Gray = {} /\ White = {} /\ Trial = {} /\ Apart = Gone \cup {Null}
  BY <1>1, <1>2, ToSetEmpty DEF Gray, White, Colored, Trial, Apart
<1>12. Types
  <2>1. TypeOK
    <3>1. color \in [Values -> Colors] /\ count \in [Values -> Nat]
      BY <1>1, <1>9 DEF Colors
    <3>2. /\ buffered \in [Values -> BOOLEAN] /\ dead \in [Values -> BOOLEAN]
          /\ freed \in [Values -> BOOLEAN]
      BY <1>1
    <3>3. /\ kids \in Seq(Values) /\ dying \in Seq(Objects) /\ todo \in Seq(Objects) /\ kept \in Seq(Objects)
          /\ stack \in Seq(Objects) /\ black \in Seq(Objects) /\ garbage \in Seq(Objects)
      BY <1>2
    <3>4. due \in BOOLEAN /\ pc \in {"code", "release", "gray", "scan", "white", "wild"} /\ cur \in Objects \cup {Null}
      BY <1>2
    <3> QED BY <1>3, <1>5, <1>6, <3>1, <3>2, <3>3, <3>4 DEF TypeOK
  <2>2. \A v \in Leaves : elems[v] = <<>> /\ ~dead[v] /\ ~buffered[v] /\ color[v] = "black"
    BY <1>1, <1>3, Sorts
  <2> QED BY <1>2, <1>3, <2>1, <2>2 DEF Types
<1>13. Phases /\ Dying /\ GrayReached /\ ScanReaches /\ WhiteReached
  BY <1>2, <1>11, ToSetEmpty, EmptyInjective
     DEF Phases, Dying, GrayReached, ScanReaches, WhiteReached, Gray, White
<1>14. Buffer
  <2>1. \A v \in Values : /\ buffered[v] <=> v \in ToSet(roots)
                          /\ buffered[v] => ~freed[v]
                          /\ ~freed[v] => color[v] = IF buffered[v] THEN "purple" ELSE "black"
                          /\ dead[v] /\ ~freed[v] => buffered[v]
    BY <1>1, <1>3, <1>5
  <2>2. ~(Len(roots) >= limit)
    BY <1>2, <1>6
  <2> QED BY <1>2, <1>5, <1>6, <2>1, <2>2 DEF Buffer
<1>15. Counts
  <2> SUFFICES ASSUME NEW v \in Values PROVE count[v] = Expected(v)
    BY DEF Counts
  <2>1. Values \ Out(v) = Alive
    BY <1>11, Sorts DEF Out, Alive
  <2>2. Times(kids, v) = 0
    BY <1>2, TimesEmpty
  <2>3. Unit(v \in local) + Refs(elems, Alive, v) \in Nat
    BY <1>8, <1>9
  <2> QED BY <1>8, <2>1, <2>2, <2>3 DEF Expected
<1>16. Zero
  BY <1>2, <1>10, <1>11, Sorts DEF Zero, White, Gone
<1>17. NonZero
  BY <1>10 DEF NonZero, Alive
<1>18. Traversed
  BY <1>2, <1>11, EmptyInjective DEF Traversed, Gray, White
<1>19. NoneLost
  <2>1. ASSUME NEW U, U \subseteq Alive \ (local \cup ToSet(roots)), Isolated(Alive, U)
        PROVE  U = {}
    <3> DEFINE C == Values \ U
    <3>1. C \in SUBSET Values /\ local \cup h.roots \subseteq C
      BY <1>3, <1>5, <2>1, Sorts
    <3>2. Closed(elems, h.dead, C)
      <4> SUFFICES ASSUME NEW v \in C, v \notin h.dead, NEW w \in ToSet(elems[v]), w \notin C
                   PROVE  FALSE
        <5>1. \A v \in C : ToSet(elems[v]) \subseteq Values
          BY <1>12, Shape
        <5> QED BY <5>1 DEF Closed
      <4>1. w \in Values /\ w \in U
        BY <1>12, Shape
      <4>2. v \in h.freed => ToSet(elems[v]) = {}
        BY <1>3, ToSetEmpty
      <4>3. v \in Alive
        BY <1>4, <4>2
      <4> QED BY <2>1, <4>1, <4>3 DEF Isolated
    <3> HIDE DEF C
    <3>3. ASSUME NEW u \in U PROVE FALSE
      <4>1. u \in Values /\ u \notin h.freed
        BY <1>4, <2>1
      <4>2. u \in Reach(elems, h.dead, local \cup h.roots)
        BY <1>3, <4>1
      <4>3. u \in C
        BY <3>1, <3>2, <4>2 DEF Reach
      <4> QED BY <4>3 DEF C
    <3> QED BY <3>3
  <2>2. /\ Alive \ (local \cup ToSet(roots) \cup ToSet(kids) \cup ToSet(dying) \cup {cur})
           = Alive \ (local \cup ToSet(roots))
        /\ Alive \ {cur} = Alive
    BY <1>2, <1>11, Sorts DEF Alive
  <2>3. Grounded(Alive \ (local \cup ToSet(roots)), Alive)
    BY <2>1 DEF Grounded
  <2> QED BY <1>2, <2>2, <2>3 DEF NoneLost
<1> QED BY <1>12, <1>13, <1>14, <1>15, <1>16, <1>17, <1>18, <1>19 DEF IInv

LEMMA StepInv ==
  ASSUME IInv, [Next]_vars, ~Misread
  PROVE  IInv'
<1>1. CASE Program
  BY <1>1, NewStep, GetStep, PushStep, PopStep, OverwriteStep, DropStep, CollectNowStep DEF Program
<1>2. CASE Release
  BY <1>2, ReleaseOneStep, DestroyStep, BuryStep, ReleasedStep DEF Release
<1>3. CASE Collection
  BY <1>3, NextRootStep, MarkGrayStep, BeginScanStep, ScanRootStep, ScanStep, ScanBlackStep,
     EndScanStep, WhiteRootStep, CollectWhiteStep, FreeGarbageStep, EndCollectionStep DEF Collection
<1>4. CASE UNCHANGED vars
  <2>1. UNCHANGED <<elems, count, color, buffered, dead, freed, roots, limit, due, local>>
    BY <1>4 DEF vars
  <2>2. UNCHANGED <<ops, pc, kids, cur, dying, todo, kept, stack, black, garbage>>
    BY <1>4 DEF vars
  <2>3. /\ Gone' = Gone /\ Alive' = Alive /\ Gray' = Gray /\ White' = White
        /\ Apart' = Apart /\ Trial' = Trial /\ \A c : Colored(c)' = Colored(c)
    BY <2>1, <2>2 DEF Gone, Alive, Gray, White, Apart, Trial, Colored
  <2>4. \A v : Out(v)' = Out(v)
    BY <2>3 DEF Out
  <2>5. Types' /\ Phases' /\ Dying' /\ Buffer'
    BY <2>1, <2>2, <2>3 DEF IInv, Types, TypeOK, Phases, Dying, Buffer
  <2>6. Counts' /\ Zero' /\ NonZero'
    <3>1. \A v : Expected(v)' = Expected(v)
      BY <2>1, <2>2, <2>4 DEF Expected
    <3>2. Counts'
      BY <2>1, <3>1 DEF IInv, Counts
    <3>3. Zero' /\ NonZero'
      BY <2>1, <2>2, <2>3 DEF IInv, Zero, NonZero
    <3> QED BY <3>2, <3>3
  <2>7. \A S, U : Isolated(S, U)' <=> Isolated(S, U)
    BY <2>1 DEF Isolated
  <2>8. \A T, S : Grounded(T, S)' <=> Grounded(T, S)
    BY <2>7 DEF Grounded
  <2>9. Traversed' /\ GrayReached' /\ ScanReaches' /\ WhiteReached' /\ NoneLost'
    <3>1. Traversed' /\ GrayReached'
      BY <2>1, <2>2, <2>3, <2>8 DEF IInv, Traversed, GrayReached
    <3>2. ScanReaches' /\ WhiteReached'
      BY <2>1, <2>2, <2>3, <2>7, <2>8 DEF IInv, ScanReaches, WhiteReached
    <3>3. NoneLost'
      BY <2>1, <2>2, <2>3, <2>7, <2>8 DEF IInv, NoneLost
    <3> QED BY <3>1, <3>2, <3>3
  <2> QED BY <2>5, <2>6, <2>9 DEF IInv
<1> QED BY <1>1, <1>2, <1>3, <1>4 DEF Next

LEMMA InitPresent == Init => Present
BY DEF Init, Present

\* No action starts from there.
LEMMA WildStops == ASSUME pc = "wild", Next PROVE FALSE
<1>1. ~Program
  BY DEF Program, New, Get, Push, Pop, Overwrite, Drop, CollectNow, Operates
<1>2. ~Release
  BY DEF Release, ReleaseOne, Destroy, Bury, Released
<1>3. ~Collection
  BY DEF Collection, NextRoot, MarkGray, BeginScan, ScanRoot, Scan, ScanBlack, EndScan,
         WhiteRoot, CollectWhite, FreeGarbage, EndCollection, At
<1> QED BY <1>1, <1>2, <1>3 DEF Next, Misread

\* The buffer of roots that a collection takes.
LEMMA RootsPresent ==
  ASSUME IInv, pc \in {"code", "release"}
  PROVE  IsInjective(roots) /\ \A v \in ToSet(roots) : ~freed[v]
<1>1. roots \in Seq(Objects)
  BY DEF IInv, Types, TypeOK
<1>2. ToSet(roots) \subseteq Values
  BY <1>1, Member, Sorts
<1> QED BY <1>2 DEF IInv, Buffer

LEMMA NextRootPresent == ASSUME IInv, Present, NextRoot PROVE Present'
<1>1. /\ pc = "gray" /\ todo # <<>> /\ todo' = Tail(todo) /\ pc' = "gray"
      /\ \/ UNCHANGED freed
         \/ freed' = [freed EXCEPT ![Head(todo)] = @ \/ dead[Head(todo)]]
  BY DEF NextRoot, At
<1>2. todo \in Seq(Objects) /\ IsInjective(todo) /\ \A v \in ToSet(todo) : v \in Values /\ ~freed[v]
  <2>1. todo \in Seq(Objects)
    BY DEF IInv, Types, TypeOK
  <2>2. ToSet(todo) \subseteq Values
    BY <2>1, Member, Sorts
  <2> QED BY <1>1, <2>1, <2>2 DEF Present
<1>3. ToSet(todo) = {Head(todo)} \cup ToSet(Tail(todo))
  BY <1>1, <1>2, HeadTail
<1>4. IsInjective(Tail(todo)) /\ Head(todo) \notin ToSet(Tail(todo))
  BY <1>1, <1>2, TailInjective
<1>5. ASSUME NEW v \in ToSet(todo') PROVE ~freed'[v]
  <2>1. v \in Values /\ ~freed[v] /\ v # Head(todo)
    BY <1>1, <1>2, <1>3, <1>4
  <2>2. freed \in [Values -> BOOLEAN]
    BY DEF IInv, Types, TypeOK
  <2> QED BY <1>1, <2>1, <2>2
<1>6. IsInjective(todo')
  BY <1>1, <1>4
<1> QED BY <1>1, <1>5, <1>6 DEF Present

LEMMA ScanPresent == ASSUME IInv, Present, Scan PROVE Present'
<1> DEFINE x == Last(stack)
<1>1. /\ pc = "scan" /\ stack # <<>> /\ pc' = "scan"
      /\ stack' \in {Front(stack), Front(stack) \o CyclicChildren(x)}
      /\ UNCHANGED <<dead, freed, todo>>
  BY DEF Scan, Popped
<1>2. stack \in Seq(Objects)
  BY DEF IInv, Types, TypeOK
<1>3. /\ x \in Objects /\ x \in ToSet(stack) /\ Front(stack) \in Seq(Objects)
      /\ ToSet(Front(stack)) \subseteq ToSet(stack)
  BY <1>1, <1>2, FrontLast
<1> HIDE DEF x
<1>4. x \in Values /\ x \in Alive
  BY <1>1, <1>3, Sorts DEF Present
<1>5. CyclicChildren(x) \in Seq(Objects) /\ ToSet(CyclicChildren(x)) \subseteq Alive
  <2>1. CyclicChildren(x) \in Seq(Objects) /\ ToSet(CyclicChildren(x)) \subseteq ToSet(elems[x])
    BY <1>4, Shape DEF IInv
  <2>2. ToSet(elems[x]) \subseteq Alive
    BY <1>1, <1>4 DEF IInv, Traversed
  <2> QED BY <2>1, <2>2
<1>6. ToSet(Front(stack) \o CyclicChildren(x)) = ToSet(Front(stack)) \cup ToSet(CyclicChildren(x))
  BY <1>3, <1>5, Concat
<1>7. ToSet(todo) \cup ToSet(stack) \subseteq Alive
  BY <1>1 DEF Present
<1>8. Alive' = Alive
  BY <1>1 DEF Alive, Gone
<1>9. ToSet(stack') \subseteq Alive
  BY <1>1, <1>3, <1>5, <1>6, <1>7
<1> QED BY <1>1, <1>7, <1>8, <1>9 DEF Present

LEMMA StepPresent ==
  ASSUME IInv, Present, [Next]_vars, ~Misread
  PROVE  Present'
<1>1. CASE CollectNow \/ Released
  <2>1. /\ pc \in {"code", "release"} /\ UNCHANGED freed
        /\ (pc' = "gray" /\ todo' = roots) \/ pc' = "code"
    BY <1>1 DEF CollectNow, Released, TakeRoots, heap
  <2> QED BY <2>1, RootsPresent DEF Present
<1>2. CASE NextRoot
  BY <1>2, NextRootPresent
<1>3. CASE MarkGray
  <2>1. pc' = "gray" /\ UNCHANGED <<pc, todo, freed>>
    BY <1>3 DEF MarkGray
  <2> QED BY <2>1 DEF Present
<1>4. CASE BeginScan
  <2>1. pc = "gray" /\ pc' = "scan" /\ todo' = kept /\ stack' = <<>> /\ UNCHANGED <<dead, freed>>
    BY <1>4 DEF BeginScan, At, heap
  <2>2. ToSet(kept) \subseteq Alive /\ Alive' = Alive
    BY <2>1 DEF IInv, Traversed, Alive, Gone
  <2> QED BY <2>1, <2>2, ToSetEmpty DEF Present
<1>5. CASE ScanRoot
  <2>1. /\ pc = "scan" /\ pc' = "scan" /\ todo # <<>>
        /\ stack' = <<Head(todo)>> /\ todo' = Tail(todo) /\ UNCHANGED <<dead, freed>>
    BY <1>5 DEF ScanRoot, At, heap
  <2>2. todo \in Seq(Objects)
    BY DEF IInv, Types, TypeOK
  <2>3. Head(todo) \in Objects /\ ToSet(todo) = {Head(todo)} \cup ToSet(todo')
    BY <2>1, <2>2, HeadTail
  <2>4. ToSet(stack') = {Head(todo)}
    BY <2>1, <2>3, Single
  <2>5. ToSet(todo) \subseteq Alive /\ Alive' = Alive
    BY <2>1 DEF Present, Alive, Gone
  <2> QED BY <2>1, <2>3, <2>4, <2>5 DEF Present
<1>6. CASE Scan
  BY <1>6, ScanPresent
<1>7. CASE ScanBlack
  <2>1. pc = "scan" /\ UNCHANGED <<pc, todo, stack, dead, freed>>
    BY <1>7 DEF ScanBlack
  <2>2. Alive' = Alive
    BY <2>1 DEF Alive, Gone
  <2> QED BY <2>1, <2>2 DEF Present
<1>8. CASE New \/ Get \/ Push \/ Pop
  <2>1. pc' = "code"
    BY <1>8 DEF New, Get, Push, Pop, Operates
  <2> QED BY <2>1 DEF Present
<1>9. CASE Overwrite \/ Drop \/ ReleaseOne \/ Destroy \/ Bury
  <2>1. pc' = "release"
    BY <1>9 DEF Overwrite, Drop, ReleaseOne, GiveBack, Destroy, Bury
  <2> QED BY <2>1 DEF Present
<1>10. CASE EndScan \/ WhiteRoot \/ CollectWhite \/ FreeGarbage \/ EndCollection
  <2>1. pc' \in {"white", "code"}
    BY <1>10 DEF EndScan, WhiteRoot, CollectWhite, FreeGarbage, EndCollection, At
  <2> QED BY <2>1 DEF Present
<1>11. CASE UNCHANGED vars
  <2>1. UNCHANGED <<pc, todo, stack, dead, freed>>
    BY <1>11 DEF vars
  <2>2. Alive' = Alive
    BY <2>1 DEF Alive, Gone
  <2> QED BY <2>1, <2>2 DEF Present
<1> QED BY <1>1, <1>2, <1>3, <1>4, <1>5, <1>6, <1>7, <1>8, <1>9, <1>10, <1>11
        DEF Next, Program, Release, Collection

-----------------------------------------------------------------------------
(* What the program relies on                                              *)

LEMMA ExactFromInv ==
  ASSUME IInv, Present
  PROVE  HeapExact
<1>1. TypeOK
  BY DEF IInv, Types
<1>2. ASSUME Quiet PROVE \A v \in Values \ Gone : count[v] = References(elems, Gone, local, v)
  BY <1>2, CodeFacts DEF Quiet, References, Refs, RefSet, Unit, Alive
<1>3. ASSUME Quiet
      PROVE  /\ IsInjective(roots)
             /\ \A v \in Values : ~freed[v] =>
                  /\ buffered[v] <=> Contains(roots, v)
                  /\ color[v] = IF buffered[v] THEN "purple" ELSE "black"
  <2>1. \A v : Contains(roots, v) <=> v \in ToSet(roots)
    BY <1>1, Member DEF TypeOK
  <2> QED BY <1>3, <2>1 DEF Quiet, IInv, Buffer
<1>4. ASSUME Quiet PROVE Len(roots) < limit /\ ~due
  <2>1. ~due /\ ~(Len(roots) >= limit)
    BY <1>4, CodeFacts DEF Quiet, IInv, Buffer
  <2>2. Len(roots) \in Nat /\ limit \in Nat
    BY <1>1, LenNat DEF TypeOK
  <2> QED BY <2>1, <2>2
\* The blocks that the traversals look at.
<1>5. ReadsExact
  <2>1. ASSUME pc = "gray", todo # <<>> PROVE ~freed[Head(todo)]
    <3>1. Head(todo) \in ToSet(todo)
      BY <1>1, <2>1, HeadTail DEF TypeOK
    <3> QED BY <2>1, <3>1 DEF Present
  <2>2. ASSUME pc \in {"gray", "scan"}, NEW v \in ToSet(stack) \cup ToSet(black) PROVE ~freed[v]
    <3>1. v \in Alive
      BY <2>2 DEF IInv, Traversed, Present
    <3> QED BY <3>1 DEF Alive, Gone
  <2>3. ASSUME pc = "white", NEW v \in ToSet(stack), freed[v] PROVE ~LooksWhite(v)
    <3>1. v \in Values
      BY <1>1, <2>3, Member, Sorts DEF TypeOK
    <3> QED BY <2>3, <3>1, Whitening DEF LooksWhite
  <2> QED BY <2>1, <2>2, <2>3 DEF ReadsExact
<1> QED BY <1>1, <1>2, <1>3, <1>4, <1>5 DEF HeapExact, CountsExact, BufferExact, BufferBounded

LEMMA NoCycleLostFromInv ==
  ASSUME IInv
  PROVE  NoCycleLost
<1> SUFFICES ASSUME pc = "code", NEW v \in Values, ~freed[v],
                    NEW C \in SUBSET Values, local \cup ToSet(roots) \subseteq C,
                    Closed(elems, Gone, C)
             PROVE  v \in C
  BY DEF NoCycleLost, Quiet, Reach
<1>1. CASE dead[v]
  BY <1>1 DEF IInv, Buffer
<1>2. CASE ~dead[v]
  <2> DEFINE U == Alive \ C
  <2>1. v \in Alive
    BY <1>2 DEF Alive, Gone
  <2>2. Isolated(Alive, U)
    BY DEF Isolated, Closed, Alive
  <2>3. U \subseteq Alive \ (local \cup ToSet(roots))
    OBVIOUS
  <2>4. Grounded(Alive \ (local \cup ToSet(roots)), Alive)
    <3>1. /\ Alive \ (local \cup ToSet(roots) \cup ToSet(kids) \cup ToSet(dying) \cup {cur})
             = Alive \ (local \cup ToSet(roots))
          /\ Alive \ {cur} = Alive
      BY CodeFacts, ToSetEmpty, Sorts DEF Alive
    <3>2. Grounded(Alive \ (local \cup ToSet(roots) \cup ToSet(kids) \cup ToSet(dying) \cup {cur}),
                   Alive \ {cur})
      BY DEF IInv, NoneLost
    <3> QED BY <3>1, <3>2
  <2>5. U = {}
    BY <2>2, <2>3, <2>4 DEF Grounded
  <2> QED BY <2>1, <2>5
<1> QED BY <1>1, <1>2

\* For every heap of a program, every size of the buffer of roots and whatever
\* the program does next, the invariant holds, unless a word that was written
\* over a block given back made the collector take it for garbage: in the middle
\* of a traversal the counts are those of the references that it has not taken
\* out, and mark_gray and scan look at no block that is gone (mark_gray, scan,
\* scan_black and collect_white, rc.rs 829-918).
THEOREM Invariant == Spec => []SafeInv
<1>1. Init => SafeInv
  BY InitInv, InitPresent DEF SafeInv, IInv, Types
<1>2. SafeInv /\ [Next]_vars => SafeInv'
  <2> SUFFICES ASSUME SafeInv, [Next]_vars PROVE SafeInv'
    OBVIOUS
  <2>1. CASE UNCHANGED vars /\ pc = "wild"
    BY <2>1 DEF SafeInv, TypeOK, vars
  <2>2. CASE pc = "wild" /\ Next
    BY <2>2, WildStops
  <2>3. CASE pc # "wild" /\ Misread
    <3>1. TypeOK /\ pc' = "wild"
      BY <2>3 DEF SafeInv, Misread
    <3>2. UNCHANGED <<heap, buffer, prog, destroy, collect>>
      BY <2>3 DEF Misread
    <3>3. TypeOK'
      BY <3>1, <3>2 DEF TypeOK, heap, buffer, prog, destroy, collect
    <3> QED BY <3>1, <3>3 DEF SafeInv
  <2>4. CASE pc # "wild" /\ ~Misread
    <3>1. IInv /\ Present
      BY <2>4 DEF SafeInv
    <3>2. IInv' /\ Present'
      BY <2>4, <3>1, StepInv, StepPresent
    <3>3. TypeOK'
      BY <3>2 DEF IInv, Types
    <3> QED BY <3>2, <3>3 DEF SafeInv
  <2> QED BY <2>1, <2>2, <2>3, <2>4
<1> QED BY <1>1, <1>2, PTL DEF Spec

\* Between operations each count is the number of references to its value,
\* no color of a collection is left, BUFFERED says what is in the buffer of
\* roots, and the buffer is below its limit (release_counted, possible_root,
\* collect_exclusive, rc.rs 588-806).  On the way there mark_gray and scan read
\* no freed word, and collect_white none on which white was left: the run ends
\* only by a word that something else wrote.
THEOREM Exact == Spec => []HeapExact
<1>1. SafeInv => HeapExact
  <2>1. CASE pc = "wild"
    BY <2>1 DEF SafeInv, HeapExact, CountsExact, BufferExact, BufferBounded, ReadsExact, Quiet
  <2>2. CASE pc # "wild"
    BY <2>2, ExactFromInv DEF SafeInv
  <2> QED BY <2>1, <2>2
<1> QED BY <1>1, Invariant, PTL

\* Between operations what has its block is reached from the program or from
\* the buffer of roots: a collection forgets no cycle (possible_root and
\* collect_exclusive, rc.rs 698-806).
THEOREM CyclesFound == Spec => []NoCycleLost
<1>1. SafeInv => NoCycleLost
  <2>1. CASE pc = "wild"
    BY <2>1 DEF NoCycleLost, Quiet
  <2>2. CASE pc # "wild"
    BY <2>2, NoCycleLostFromInv DEF SafeInv
  <2> QED BY <2>1, <2>2
<1> QED BY <1>1, Invariant, PTL

-----------------------------------------------------------------------------
(* The promise of Memory                                                   *)

\* What is alive, but for what is being destroyed and what a collection gives
\* up: it holds what the program holds and all that this references.
Spared == Alive \ ({cur} \cup ToSet(dying) \cup ToSet(garbage) \cup IF pc = "white" THEN White ELSE {})

LEMMA SparedClosed ==
  ASSUME IInv
  PROVE  /\ local \subseteq Spared /\ Spared \subseteq Values
         /\ \A v \in Spared : ~freed[v] /\ ToSet(elems[v]) \subseteq Spared
<1>1. Types /\ Counts /\ Zero /\ Phases /\ Traversed
  BY DEF IInv
<1>2. Spared \subseteq Values /\ \A v \in Spared : v \in Alive /\ ~freed[v]
  BY DEF Spared, Alive, Gone
<1>3. ASSUME NEW v \in Values, count[v] > 0 PROVE v \in Spared
  BY <1>1, <1>3, Live DEF Spared
<1>4. local \subseteq Spared
  BY <1>1, <1>3, Held
<1>5. ASSUME NEW v \in Spared, NEW w \in ToSet(elems[v]) PROVE w \in Spared
  <2>1. v \in Values /\ v \in Alive /\ w \in Values
    BY <1>1, <1>2, Shape
  <2>2. CASE v \notin Out(w)
    <3>1. count[w] > 0
      BY <1>1, <2>1, <2>2, Counted
    <3> QED BY <1>3, <2>1, <3>1
  <2>3. CASE pc \in {"code", "release"}
    <3>1. Out(w) = Gone \cup {cur}
      BY <2>1, <2>3, AtRest
    <3>2. v \notin Out(w)
      BY <2>1, <3>1 DEF Spared, Alive
    <3> QED BY <2>2, <3>2
  <2>4. CASE pc \in {"gray", "scan"}
    <3>1. garbage = <<>> /\ cur = Null /\ dying = <<>>
      BY <1>1, <2>4 DEF Phases
    <3>2. Spared = Alive
      BY <2>4, <3>1, ToSetEmpty, Sorts DEF Spared, Alive
    <3> QED BY <1>1, <2>1, <2>4, <3>2 DEF Traversed
  <2>5. CASE pc = "white"
    <3>1. v \notin ToSet(garbage) /\ v \notin White
      BY <2>5 DEF Spared
    <3>2. v \in Values \ Out(w)
      BY <2>1, <2>5, <3>1, Whitening, Sorts
    <3> QED BY <2>2, <3>2
  <2>6. pc \in {"code", "release", "gray", "scan", "white"}
    BY <1>1 DEF Types, TypeOK
  <2> QED BY <2>3, <2>4, <2>5, <2>6
<1> QED BY <1>2, <1>4, <1>5

\* The program reaches nothing else, so it reaches no block that is not there.
LEMMA ReachesSpared ==
  ASSUME IInv
  PROVE  \A v \in Promise!Reachable : v \in Values /\ ~freed[v]
<1>1. Spared \in SUBSET Values /\ Promise!Closed(Spared)
  BY SparedClosed DEF Promise!Closed
<1>2. \A v \in Promise!Reachable : v \in Spared
  BY <1>1 DEF Promise!Reachable
<1> QED BY <1>1, <1>2, SparedClosed

LEMMA PromiseInit == Init => Promise!Init
<1> SUFFICES ASSUME Init PROVE Promise!Init
  OBVIOUS
<1>1. IInv /\ Types /\ TypeOK
  BY InitInv DEF IInv, Types
<1>2. \A v \in Values : ToSet(elems[v]) \subseteq Values
  BY <1>1, Shape
<1>3. Promise!TypeOK
  BY <1>1, <1>2 DEF Promise!TypeOK, TypeOK
<1>4. Promise!ReachableAlive
  BY <1>1, ReachesSpared DEF Promise!ReachableAlive
<1> QED BY <1>3, <1>4 DEF Promise!Init

\* Whatever changes no reference and allocates nothing only gives blocks back.
LEMMA OnlyReclaims ==
  ASSUME IInv, IInv', UNCHANGED <<elems, local>>, \A v \in Values : freed[v] => freed'[v]
  PROVE  Promise!Next
<1> DEFINE S == {v \in Values : freed'[v] /\ ~freed[v]}
<1>1. Promise!Reachable' = Promise!Reachable
  BY DEF Promise!Reachable, Promise!Closed
<1>2. \A v \in Promise!Reachable : v \in Values /\ ~freed'[v]
  <2>1. (\A v \in Promise!Reachable : v \in Values /\ ~freed[v])'
    BY ReachesSpared, PTL
  <2> QED BY <1>1, <2>1
<1>3. S \in SUBSET (Values \ Promise!Reachable)
  BY <1>2
<1>4. freed' = [v \in Values |-> freed[v] \/ v \in S]
  <2>1. freed \in [Values -> BOOLEAN] /\ freed' \in [Values -> BOOLEAN]
    BY DEF IInv, Types, TypeOK
  <2> QED BY <2>1
<1> HIDE DEF S
<1>5. UNCHANGED <<[v \in Values |-> ToSet(elems[v])], [th \in {Main} |-> local]>>
  OBVIOUS
<1>6. Promise!Reclaim
  BY <1>3, <1>4, <1>5 DEF Promise!Reclaim
<1> QED BY <1>6 DEF Promise!Next

\* A reference that leaves a value stays in the set of its references if the
\* value holds it twice, and is the one that goes otherwise.
LEMMA SetWithout ==
  ASSUME Types, NEW v \in Values, NEW i \in DOMAIN elems[v],
         elems' = [elems EXCEPT ![v] = RemoveAt(@, i)]
  PROVE  LET E == [u \in Values |-> ToSet(elems[u])]
         IN  E' = E \/ E' = [E EXCEPT ![v] = @ \ {elems[v][i]}]
<1>1. /\ ToSet(elems[v]) = ToSet(elems'[v]) \cup {elems[v][i]}
      /\ \A u \in Values \ {v} : elems'[u] = elems[u]
  BY Removal
<1>2. CASE elems[v][i] \in ToSet(elems'[v])
  <2>1. \A u \in Values : ToSet(elems'[u]) = ToSet(elems[u])
    BY <1>1, <1>2
  <2> QED BY <2>1
<1>3. CASE elems[v][i] \notin ToSet(elems'[v])
  <2>1. ToSet(elems'[v]) = ToSet(elems[v]) \ {elems[v][i]}
    BY <1>1, <1>3
  <2>2. \A u \in Values \ {v} : ToSet(elems'[u]) = ToSet(elems[u])
    BY <1>1
  <2> QED BY <2>1, <2>2
<1> QED BY <1>2, <1>3

\* What the program does is what a thread of Memory may do.
LEMMA ProgramKeeps ==
  ASSUME IInv, New \/ Get \/ Push \/ Pop \/ Overwrite \/ Drop
  PROVE  [Promise!Next]_(Promise!vars)
<1> DEFINE E == [u \in Values |-> ToSet(elems[u])]
           H == [th \in {Main} |-> local]
<1>1. Types /\ TypeOK /\ \A v \in Values : elems[v] \in Seq(Values)
  BY Shape DEF IInv, Types
<1>2. CASE New
  <2>1. PICK v \in Values :
          /\ freed[v] /\ freed' = [freed EXCEPT ![v] = FALSE]
          /\ elems' = [elems EXCEPT ![v] = <<>>] /\ local' = local \cup {v}
    BY <1>2 DEF New
  <2>2. E' = [E EXCEPT ![v] = {}]
    BY <1>1, <2>1, ToSetEmpty DEF TypeOK
  <2>3. H' = [H EXCEPT ![Main] = @ \cup {v}]
    BY <2>1
  <2>4. Promise!New(Main)
    BY <2>1, <2>2, <2>3 DEF Promise!New
  <2> QED BY <2>4 DEF Promise!Next, Promise!Program
<1>3. CASE Get
  <2>1. PICK v \in local : \E w \in ToSet(elems[v]) :
          local' = local \cup {w} /\ UNCHANGED <<elems, freed>>
    BY <1>3 DEF Get
  <2>2. PICK w \in ToSet(elems[v]) : local' = local \cup {w} /\ UNCHANGED <<elems, freed>>
    BY <2>1
  <2>3. v \in H[Main] /\ w \in E[v]
    BY <1>1, <2>2 DEF TypeOK
  <2>4. H' = [H EXCEPT ![Main] = @ \cup {w}] /\ UNCHANGED <<E, freed>>
    BY <2>2
  <2>5. Promise!Copy(Main)
    BY <2>3, <2>4 DEF Promise!Copy
  <2> QED BY <2>5 DEF Promise!Next, Promise!Program
<1>4. CASE Push
  <2>1. PICK v \in local \cap Objects, w \in local :
          elems' = [elems EXCEPT ![v] = Append(@, w)] /\ UNCHANGED <<local, freed>>
    BY <1>4 DEF Push
  <2>2. v \in Values /\ w \in Values /\ v \in H[Main] /\ w \in H[Main]
    BY <1>1 DEF TypeOK
  <2>3. ToSet(Append(elems[v], w)) = ToSet(elems[v]) \cup {w}
    BY <1>1, <2>2, Appended
  <2>4. E' = [E EXCEPT ![v] = @ \cup {w}] /\ UNCHANGED <<H, freed>>
    BY <1>1, <2>1, <2>2, <2>3 DEF TypeOK
  <2>5. Promise!Put(Main)
    BY <2>2, <2>4 DEF Promise!Put
  <2> QED BY <2>5 DEF Promise!Next, Promise!Program
<1>5. CASE Pop
  <2>1. PICK v \in local : \E i \in DOMAIN elems[v] :
          /\ elems' = [elems EXCEPT ![v] = RemoveAt(@, i)]
          /\ local' = local \cup {elems[v][i]} /\ freed' = freed
    BY <1>5 DEF Pop
  <2>2. PICK i \in DOMAIN elems[v] :
          /\ elems' = [elems EXCEPT ![v] = RemoveAt(@, i)]
          /\ local' = local \cup {elems[v][i]} /\ freed' = freed
    BY <2>1
  <2>3. v \in Values /\ v \in H[Main] /\ E[v] = ToSet(elems[v])
    BY <1>1 DEF TypeOK
  <2>4. elems[v][i] \in E[v]
    BY <1>1, <2>2, <2>3, Removal
  <2>5. H' = [H EXCEPT ![Main] = @ \cup {elems[v][i]}]
    BY <2>2
  <2>6. E' = E \/ E' = [E EXCEPT ![v] = @ \ {elems[v][i]}]
    BY <1>1, <2>2, <2>3, SetWithout
  <2> HIDE DEF E, H
  <2>7. Promise!Copy(Main) \/ Promise!Take(Main)
    BY <2>2, <2>3, <2>4, <2>5, <2>6 DEF Promise!Copy, Promise!Take, E, H
  <2> QED BY <2>7 DEF Promise!Next, Promise!Program
<1>6. CASE Overwrite
  <2>1. PICK v \in local : \E i \in DOMAIN elems[v] :
          elems' = [elems EXCEPT ![v] = RemoveAt(@, i)] /\ UNCHANGED <<local, freed>>
    BY <1>6 DEF Overwrite
  <2>2. PICK i \in DOMAIN elems[v] :
          elems' = [elems EXCEPT ![v] = RemoveAt(@, i)] /\ UNCHANGED <<local, freed>>
    BY <2>1
  <2>3. v \in Values /\ v \in H[Main] /\ E[v] = ToSet(elems[v])
    BY <1>1 DEF TypeOK
  <2>4. elems[v][i] \in E[v]
    BY <1>1, <2>2, <2>3, Removal
  <2>5. UNCHANGED <<H, freed>>
    BY <2>2
  <2>6. CASE E' = E
    BY <2>5, <2>6 DEF Promise!vars
  <2>7. CASE E' = [E EXCEPT ![v] = @ \ {elems[v][i]}]
    <3>1. Promise!Overwrite(Main)
      BY <2>3, <2>4, <2>5, <2>7 DEF Promise!Overwrite
    <3> QED BY <3>1 DEF Promise!Next, Promise!Program
  <2> QED BY <1>1, <2>2, <2>3, <2>6, <2>7, SetWithout
<1>7. CASE Drop
  <2>1. PICK w \in local : local' = local \ {w} /\ UNCHANGED <<elems, freed>>
    BY <1>7 DEF Drop, heap
  <2>2. H' = [H EXCEPT ![Main] = @ \ {w}] /\ UNCHANGED <<E, freed>>
    BY <2>1
  <2>3. Promise!Drop(Main)
    BY <2>1, <2>2 DEF Promise!Drop
  <2> QED BY <2>3 DEF Promise!Next, Promise!Program
<1> QED BY <1>2, <1>3, <1>4, <1>5, <1>6, <1>7

\* A release and a collection move no reference, and allocate nothing.
LEMMA OthersReclaim ==
  ASSUME IInv, CollectNow \/ Release \/ Collection
  PROVE  UNCHANGED <<elems, local>> /\ \A v \in Values : freed[v] => freed'[v]
<1>1. freed \in [Values -> BOOLEAN] /\ dead \in [Values -> BOOLEAN]
  BY DEF IInv, Types, TypeOK
<1>2. CASE CollectNow \/ Released
  BY <1>2 DEF CollectNow, Released, heap, prog
<1>3. CASE ReleaseOne
  BY <1>1, <1>3 DEF ReleaseOne, GiveBack, prog
<1>4. CASE Destroy
  BY <1>4 DEF Destroy, heap, prog
<1>5. CASE Bury
  <2>1. cur \in Alive /\ freed' = [freed EXCEPT ![cur] = ~buffered[cur]] /\ UNCHANGED <<elems, local>>
    BY <1>5 DEF Bury, prog, IInv, Dying
  <2> QED BY <1>1, <2>1 DEF Alive, Gone
<1>6. CASE NextRoot
  BY <1>1, <1>6 DEF NextRoot, prog
<1>7. CASE MarkGray \/ BeginScan \/ ScanRoot
  BY <1>7 DEF MarkGray, BeginScan, ScanRoot, heap, prog
<1>8. CASE Scan \/ ScanBlack \/ EndScan
  BY <1>8 DEF Scan, ScanBlack, EndScan, prog
<1>9. CASE WhiteRoot \/ EndCollection
  BY <1>9 DEF WhiteRoot, EndCollection, heap, prog
<1>10. CASE CollectWhite
  BY <1>10 DEF CollectWhite, prog
<1>11. CASE FreeGarbage
  BY <1>11 DEF FreeGarbage, prog
<1> QED BY <1>2, <1>3, <1>4, <1>5, <1>6, <1>7, <1>8, <1>9, <1>10, <1>11 DEF Release, Collection

LEMMA PromiseStep ==
  ASSUME IInv, IInv', [Next]_vars
  PROVE  [Promise!Next]_(Promise!vars)
<1>1. CASE New \/ Get \/ Push \/ Pop \/ Overwrite \/ Drop
  BY <1>1, ProgramKeeps
<1>2. CASE CollectNow \/ Release \/ Collection
  BY <1>2, OthersReclaim, OnlyReclaims
<1>3. CASE UNCHANGED vars
  BY <1>3 DEF vars, Promise!vars
<1>4. ~Misread
  BY DEF Misread, IInv, Types
<1> QED BY <1>1, <1>2, <1>3, <1>4 DEF Next, Program

\* The word of a freed block that looks white moves nothing by itself.
LEMMA SafeStep ==
  ASSUME SafeInv, [Next]_vars
  PROVE  [Promise!Next]_(Promise!vars)
<1>1. CASE UNCHANGED vars
  BY <1>1 DEF vars, Promise!vars
<1>2. CASE Misread
  BY <1>2 DEF Misread, heap, prog, Promise!vars
<1>3. CASE Next /\ ~Misread
  <2>1. pc # "wild"
    BY <1>3, WildStops
  <2>2. IInv
    BY <2>1 DEF SafeInv
  <2>3. IInv'
    BY <1>3, <2>2, StepInv
  <2> QED BY <1>3, <2>2, <2>3, PromiseStep
<1> QED BY <1>1, <1>2, <1>3

\* The synchronous collector keeps the promise of Memory: whatever the program
\* builds, no release and no collection ever gives back a block that it can
\* still reach (release_counted to collect_exclusive, rc.rs 570-806), up to the
\* first freed block that collect_white takes for garbage, if that comes.
THEOREM Promised == Spec => KeepsPromise
<1>1. Init => Promise!Init
  BY PromiseInit
<1>2. SafeInv /\ [Next]_vars => [Promise!Next]_(Promise!vars)
  BY SafeStep
<1> QED BY <1>1, <1>2, Invariant, PTL DEF Spec, KeepsPromise, Promise!Spec

-----------------------------------------------------------------------------
(* What Memory promises, for every set of blocks and of threads: a set that   *)
(* is closed before a step is closed after it, with the block that the        *)
(* allocator may have handed out, since there is no other way to a value than *)
(* through those one can reach.  So what could not be reached when it was     *)
(* given back is not reached later.                                           *)

CONSTANTS
  Blocks,   \* the values of Memory
  Threads   \* its mutators

VARIABLES
  links,    \* what each block references
  holds,    \* what each thread holds
  free      \* which blocks are not allocated

Mem == INSTANCE Memory WITH Values <- Blocks, Mutators <- Threads,
                            elems <- links, local <- holds, freed <- free

\* The values that a step hands out: given back before, allocated after.
HandedOut(H) == H = {v \in Blocks : free[v] /\ ~free'[v]}

LEMMA StillClosed ==
  ASSUME Mem!TypeOK, Mem!Next, NEW S \in SUBSET Blocks, Mem!Closed(S),
         NEW H \in SUBSET Blocks, HandedOut(H)
  PROVE  Mem!Closed(S \cup H)'
<1>1. CASE Mem!Reclaim
  BY <1>1 DEF Mem!Reclaim, Mem!Closed, HandedOut, Mem!TypeOK
<1>2. ASSUME NEW th \in Threads, Mem!Program(th) PROVE Mem!Closed(S \cup H)'
  <2>1. CASE Mem!Copy(th)
    BY <2>1 DEF Mem!Copy, Mem!Closed, HandedOut, Mem!TypeOK
  <2>2. CASE Mem!Put(th)
    BY <2>2 DEF Mem!Put, Mem!Closed, HandedOut, Mem!TypeOK
  <2>3. CASE Mem!Take(th)
    BY <2>3 DEF Mem!Take, Mem!Closed, HandedOut, Mem!TypeOK
  <2>4. CASE Mem!Overwrite(th)
    BY <2>4 DEF Mem!Overwrite, Mem!Closed, HandedOut, Mem!TypeOK
  <2>5. CASE Mem!Drop(th)
    BY <2>5 DEF Mem!Drop, Mem!Closed, HandedOut, Mem!TypeOK
  <2>6. CASE Mem!New(th)
    BY <2>6 DEF Mem!New, Mem!Closed, HandedOut, Mem!TypeOK
  <2> QED BY <1>2, <2>1, <2>2, <2>3, <2>4, <2>5, <2>6 DEF Mem!Program
<1> QED BY <1>1, <1>2 DEF Mem!Next

\* What a step makes reachable, the allocator handed out.
LEMMA ReachesNothingElse ==
  ASSUME Mem!TypeOK, Mem!Next, NEW v \in Mem!Reachable', v \notin Mem!Reachable
  PROVE  free[v] /\ ~free'[v]
<1> DEFINE H == {w \in Blocks : free[w] /\ ~free'[w]}
<1>1. v \in Blocks
  BY DEF Mem!Reachable
<1>2. PICK S \in SUBSET Blocks : Mem!Closed(S) /\ v \notin S
  BY <1>1 DEF Mem!Reachable
<1>3. PICK K \in SUBSET Blocks : K = H
  OBVIOUS
<1>4. Mem!Closed(S \cup K)'
  BY <1>2, <1>3, StillClosed DEF HandedOut
<1>5. v \in S \cup K
  BY <1>4 DEF Mem!Reachable
<1> QED BY <1>2, <1>3, <1>5

\* Only what no thread can reach is given back.
LEMMA GivesBackGarbage ==
  ASSUME Mem!TypeOK, Mem!Next, NEW v \in Blocks, ~free[v], free'[v]
  PROVE  v \notin Mem!Reachable
<1>1. CASE Mem!Reclaim
  BY <1>1 DEF Mem!Reclaim, Mem!TypeOK
<1>2. ASSUME NEW th \in Threads, Mem!Program(th) PROVE FALSE
  BY <1>2 DEF Mem!Program, Mem!Copy, Mem!Put, Mem!Take, Mem!Overwrite, Mem!Drop, Mem!New, Mem!TypeOK
<1> QED BY <1>1, <1>2 DEF Mem!Next

LEMMA MemoryTypeStep ==
  ASSUME Mem!TypeOK, [Mem!Next]_(Mem!vars)
  PROVE  Mem!TypeOK'
<1>1. CASE UNCHANGED Mem!vars
  BY <1>1 DEF Mem!vars, Mem!TypeOK
<1>2. CASE Mem!Reclaim
  BY <1>2 DEF Mem!Reclaim, Mem!TypeOK
<1>3. ASSUME NEW th \in Threads, Mem!Program(th) PROVE Mem!TypeOK'
  <2>1. CASE Mem!Copy(th) \/ Mem!Put(th)
    BY <2>1 DEF Mem!Copy, Mem!Put, Mem!TypeOK
  <2>2. CASE Mem!Take(th) \/ Mem!Overwrite(th)
    BY <2>2 DEF Mem!Take, Mem!Overwrite, Mem!TypeOK
  <2>3. CASE Mem!Drop(th)
    <3>1. PICK v \in holds[th] : holds' = [holds EXCEPT ![th] = @ \ {v}]
      BY <2>3 DEF Mem!Drop
    <3>2. holds' \in [Threads -> SUBSET Blocks]
      BY <3>1 DEF Mem!TypeOK
    <3> QED BY <2>3, <3>2 DEF Mem!Drop, Mem!TypeOK
  <2>4. CASE Mem!New(th)
    BY <2>4 DEF Mem!New, Mem!TypeOK
  <2> QED BY <1>3, <2>1, <2>2, <2>3, <2>4 DEF Mem!Program
<1> QED BY <1>1, <1>2, <1>3 DEF Mem!Next

LEMMA MemoryAliveStep ==
  ASSUME Mem!TypeOK, Mem!TypeOK', Mem!ReachableAlive, [Mem!Next]_(Mem!vars)
  PROVE  Mem!ReachableAlive'
<1>1. CASE UNCHANGED Mem!vars
  BY <1>1 DEF Mem!vars, Mem!ReachableAlive, Mem!Reachable, Mem!Closed
<1>2. ASSUME Mem!Next, NEW v \in Mem!Reachable' PROVE ~free'[v]
  <2>1. CASE v \in Mem!Reachable
    <3>1. v \in Blocks /\ ~free[v]
      BY <2>1 DEF Mem!Reachable, Mem!ReachableAlive
    <3> QED BY <1>2, <2>1, <3>1, GivesBackGarbage DEF Mem!TypeOK
  <2>2. CASE v \notin Mem!Reachable
    BY <1>2, <2>2, ReachesNothingElse
  <2> QED BY <2>1, <2>2
<1> QED BY <1>1, <1>2 DEF Mem!ReachableAlive

\* The promise (release and dealloc_block, rc.rs 511-604): however the
\* threads copy, store and drop references, and whenever blocks are given
\* back, a value that a thread can reach has its block.
THEOREM MemoryAlive == Mem!Spec => []Mem!ReachableAlive
<1>1. Mem!Init => Mem!TypeOK /\ Mem!ReachableAlive
  BY DEF Mem!Init
<1>2. Mem!TypeOK /\ Mem!ReachableAlive /\ [Mem!Next]_(Mem!vars) => (Mem!TypeOK /\ Mem!ReachableAlive)'
  BY MemoryTypeStep, MemoryAliveStep
<1> QED BY <1>1, <1>2, PTL DEF Mem!Spec

\* Every state has the types that the steps rely on.
THEOREM MemoryTypes == Mem!Spec => []Mem!TypeOK
<1>1. Mem!Init => Mem!TypeOK
  BY DEF Mem!Init
<1>2. Mem!TypeOK /\ [Mem!Next]_(Mem!vars) => Mem!TypeOK'
  BY MemoryTypeStep
<1> QED BY <1>1, <1>2, PTL DEF Mem!Spec

\* A value that no thread can reach stays so until its block is given back
\* and handed out again: garbage found by a collector is garbage for good.
THEOREM GarbageForGood == Mem!Spec => Mem!NoResurrection
<1>1. Mem!TypeOK /\ [Mem!Next]_(Mem!vars) =>
        [\A v \in Blocks : v \in Mem!Reachable' /\ v \notin Mem!Reachable => free[v]]_(Mem!vars)
  <2> SUFFICES ASSUME Mem!TypeOK, Mem!Next
               PROVE  \A v \in Blocks : v \in Mem!Reachable' /\ v \notin Mem!Reachable => free[v]
    OBVIOUS
  <2> QED BY ReachesNothingElse
<1> QED BY <1>1, MemoryTypes, PTL DEF Mem!Spec, Mem!NoResurrection

=============================================================================
