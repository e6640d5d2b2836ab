------------------------- MODULE GeneratorsProofs --------------------------
(***************************************************************************)
(* Proofs about Generators, for any number of generators, values, nested   *)
(* blocks and native frames, of programs that leave no try of a generator  *)
(* by a jump.                                                              *)
(*                                                                         *)
(* TRY_STACK falls into windows, one for each native frame, which only the *)
(* frame on top changes.  A frame of a generator is held by one place: a   *)
(* variable of a function, or a field of another frame; an operation takes *)
(* frames out of their places and releases them, with all that they hold.  *)
(***************************************************************************)
EXTENDS Generators, FiniteSetTheorems, SequenceTheorems, WellFoundedInduction, TLAPS

-----------------------------------------------------------------------------
(* The inductive invariant                                                 *)

\* Functions are below resumes; each native frame has its own id, each resume
\* its own generator.
Shape(ns) ==
  /\ ns[1].kind = "fn" /\ ~ns[1].tried
  /\ \A i, j \in 1..Len(ns) : j < i /\ ns[i].kind = "fn" => ns[j].kind = "fn"
  /\ \A i \in 1..Len(ns) : ns[i].kind = "resume" => ns[i].gen \in Gens /\ ns[i].use = NoUse
  /\ \A i \in 1..Len(ns) : ns[i].kind = "fn" => ns[i].gen = Null
  /\ \A i, j \in 1..Len(ns) : ns[i].id = ns[j].id => i = j
  /\ \A i, j \in 1..Len(ns) :
       ns[i].kind = "resume" /\ ns[j].kind = "resume" /\ ns[i].gen = ns[j].gen => i = j

\* The generators that run are those of the native stack; each is what the
\* activation below consumes.
Runs(ns, gs) ==
  /\ \A i \in 1..Len(ns) : ns[i].kind = "resume" => gs[ns[i].gen].stage = "running"
  /\ \A g \in Gens : gs[g].stage = "running" =>
       \E i \in 1..Len(ns) : ns[i].kind = "resume" /\ ns[i].gen = g
  /\ \A i \in 1..(Len(ns) - 1) :
       ns[i + 1].kind = "resume" => UseOf(ns, gs, i).gen = ns[i + 1].gen

Bodied(ns, gs) == \A i \in 1..Len(ns) : ns[i].kind = "resume" => gs[ns[i].gen].blocks # <<>>

Framed(f) ==
  /\ f \in GenFrames /\ Len(f.blocks) <= MaxDepth
  /\ f.stage = "none" => f = NoFrame
  /\ f.blocks # <<>> => f.blocks[1].kind = "body"
  /\ \A d \in Depths : f.use[d].gen # Null /\ f.use[d].mode # "for" =>
       f.stage = "running" /\ d = Len(f.blocks) /\ f.blocks[d].kind = "stmt"

\* L are the frames that something holds, each once.
Owned(ns, gs, L) ==
  /\ \A i, j \in 1..Len(ns) : ns[i].use.gen # Null /\ ns[i].use.gen = ns[j].use.gen => i = j
  /\ \A g, h \in Gens : \A d, e \in Depths :
       gs[g].use[d].gen # Null /\ gs[g].use[d].gen = gs[h].use[e].gen => g = h /\ d = e
  /\ \A i \in 1..Len(ns), h \in Gens, d \in Depths :
       ns[i].use.gen # Null => ns[i].use.gen # gs[h].use[d].gen
  /\ \A i \in 1..Len(ns) : ns[i].use.gen # Null => ns[i].use.gen \in L
  /\ \A h \in Gens : \A d \in Depths : gs[h].use[d].gen # Null => gs[h].use[d].gen \in L
  /\ \A g \in L : \/ \E i \in 1..Len(ns) : ns[i].use.gen = g
                  \/ \E h \in Gens : \E d \in Depths : gs[h].use[d].gen = g

Live(gs, os) == {g \in Gens : gs[g].stage # "none"} \ os

\* The frames of TRY_STACK of a native frame, and where its jump goes.
EndOf(ns, ts, i) == IF i = Len(ns) THEN Len(ts) ELSE ns[i + 1].depth
LevelsOf(a, gs)  == IF a.kind = "fn" THEN (IF a.tried THEN {0} ELSE {}) ELSE TriesOf(gs[a.gen])

Window(a, ts, b, e, lv) ==
  /\ {ts[k].level : k \in (b + 1)..e} = lv
  /\ \A k \in (b + 1)..e : /\ ts[k].id = a.id
                           /\ \A l \in (b + 1)..e : k < l => ts[k].level < ts[l].level

Unwinding(ns, ts, i, b, e) ==
  \A k \in (b + 1)..e :
    /\ ns[i].kind = "fn" => ts[k].unwind = i - 1
    /\ ns[i].kind = "resume" =>
         \A j \in 1..Len(ns) : ns[j].kind = "fn" => j <= ts[k].unwind

Windows(ns, ts, gs) ==
  /\ ns[1].depth = 0
  /\ \A i, j \in 1..Len(ns) : i <= j => ns[i].depth <= ns[j].depth
  /\ \A i \in 1..Len(ns) : ns[i].depth <= Len(ts)
  /\ \A i \in 1..Len(ns) :
       /\ Window(ns[i], ts, ns[i].depth, EndOf(ns, ts, i), LevelsOf(ns[i], gs))
       /\ Unwinding(ns, ts, i, ns[i].depth, EndOf(ns, ts, i))

Stacks(ns) == ns \in Seq(Activations) /\ Len(ns) \in 1..MaxCalls /\ Shape(ns)
Frames(gs) == gs \in [Gens -> GenFrames] /\ \A g \in Gens : Framed(gs[g])

\* What a resume has returned is for the activation on top.
Returned ==
  ret # "none" => /\ pc = "run" /\ UseOf(native, gens, Here).gen # Null
                  /\ ret = "value" => gens[UseOf(native, gens, Here).gen].value \in Values

Counters == count \in [Values -> Int] /\ lost \in [Values -> Nat]

IInv ==
  /\ pc \in {"run", "exit"} /\ ret \in {"none", "value", "end"}
  /\ tries \in Seq(TryFrames)
  /\ Stacks(native) /\ Frames(gens) /\ Counters
  /\ Runs(native, gens) /\ Bodied(native, gens)
  /\ orphans \subseteq {g \in Gens : gens[g].stage # "none"}
  /\ Owned(native, gens, Live(gens, orphans))
  /\ Windows(native, tries, gens)
  /\ Returned

-----------------------------------------------------------------------------
(* Sequences, numbers, finite families                                     *)

LEMMA LenNat == \A S : \A s \in Seq(S) : Len(s) \in Nat
BY LenProperties

LEMMA PushSeq ==
  ASSUME NEW S, NEW s \in Seq(S), NEW x \in S
  PROVE  /\ Append(s, x) \in Seq(S) /\ Len(Append(s, x)) = Len(s) + 1
         /\ \A i \in 1..Len(s) : Append(s, x)[i] = s[i]
         /\ Append(s, x)[Len(s) + 1] = x
BY AppendProperties

LEMMA CutSeq ==
  ASSUME NEW S, NEW s \in Seq(S), NEW k \in 0..Len(s)
  PROVE  /\ SubSeq(s, 1, k) \in Seq(S) /\ Len(SubSeq(s, 1, k)) = k
         /\ \A i \in 1..k : SubSeq(s, 1, k)[i] = s[i]
OBVIOUS

LEMMA FrontSeq ==
  ASSUME NEW S, NEW s \in Seq(S), s # <<>>
  PROVE  /\ Front(s) = SubSeq(s, 1, Len(s) - 1) /\ Len(s) - 1 \in 0..Len(s)
         /\ Last(s) = s[Len(s)] /\ Len(s) \in 1..Len(s) /\ Last(s) \in S
<1>1. Len(s) \in Nat /\ Len(s) # 0
  BY LenNat, EmptySeq
<1> QED BY <1>1 DEF Front, Last

LEMMA Least == ASSUME NEW T, T \subseteq Nat, T # {} PROVE \E x \in T : \A y \in T : x <= y
<1>1. PICK x \in T : \A y \in T : ~(<<y, x>> \in OpToRel(<, Nat))
  BY WFMin, NatLessThanWellFounded
<1>2. ASSUME NEW y \in T PROVE x <= y
  <2>1. x \in Nat /\ y \in Nat
    OBVIOUS
  <2>2. ~(y < x)
    BY <1>1, <2>1 DEF OpToRel
  <2> QED BY <2>1, <2>2
<1> QED BY <1>2

LEMMA Greatest ==
  ASSUME NEW n \in Nat, NEW T, T \subseteq 0..n, T # {}
  PROVE  \E x \in T : \A y \in T : y <= x
<1> DEFINE U == {n - x : x \in T}
<1>1. U \subseteq Nat /\ U # {}
  OBVIOUS
<1>2. PICK u \in U : \A w \in U : u <= w
  <2> HIDE DEF U
  <2> QED BY <1>1, Least
<1>3. PICK x \in T : u = n - x
  OBVIOUS
<1>4. ASSUME NEW y \in T PROVE y <= x
  <2>1. n - x <= n - y
    BY <1>2, <1>3
  <2>2. x \in 0..n /\ y \in 0..n
    OBVIOUS
  <2> QED BY <2>1, <2>2
<1> QED BY <1>4

LEMMA DeepestIs ==
  ASSUME NEW n \in Nat, NEW S, S \subseteq 1..n
  PROVE  /\ Deepest(S) \in 0..n
         /\ S # {} => Deepest(S) \in S /\ \A e \in S : e <= Deepest(S)
         /\ S = {} <=> Deepest(S) = 0
<1>1. CASE S = {}
  BY <1>1 DEF Deepest
<1>2. CASE S # {}
  <2>1. S \subseteq 0..n
    OBVIOUS
  <2>2. \E d \in S : \A e \in S : e <= d
    BY <1>2, <2>1, Greatest
  <2> DEFINE m == CHOOSE d \in S : \A e \in S : e <= d
  <2>3. m \in S /\ \A e \in S : e <= m
    BY <2>2
  <2>4. Deepest(S) = m
    BY <1>2 DEF Deepest
  <2> HIDE DEF m
  <2>5. m \in 0..n /\ m # 0
    BY <2>3
  <2> QED BY <1>2, <2>3, <2>4, <2>5
<1> QED BY <1>1, <1>2

LEMMA UpTo ==
  ASSUME NEW n \in Nat
  PROVE  IsFiniteSet(1..n) /\ Cardinality(1..n) = n
<1>1. 1 \in Int /\ n \in Int
  OBVIOUS
<1>2. IsFiniteSet(1..n) /\ Cardinality(1..n) = IF 1 > n THEN 0 ELSE n - 1 + 1
  BY <1>1, FS_Interval
<1> QED BY <1>2

LEMMA Within ==
  ASSUME NEW n \in Nat, NEW S, S \subseteq 1..n
  PROVE  IsFiniteSet(S) /\ Cardinality(S) \in 0..n
<1> DEFINE T == 1..n
<1>1. IsFiniteSet(T) /\ Cardinality(T) = n
  BY UpTo
<1>2. S \in SUBSET T
  OBVIOUS
<1> HIDE DEF T
<1>3. IsFiniteSet(S) /\ Cardinality(S) <= n
  BY <1>1, <1>2, FS_Subset
<1>4. Cardinality(S) \in Nat
  BY <1>3, FS_CardinalityType
<1> QED BY <1>3, <1>4

\* Some number up to n + 1 is none of n numbers.
LEMMA Unused ==
  ASSUME NEW n \in Nat, NEW f \in [1..n -> Nat]
  PROVE  \E m \in 1..(n + 1) : \A i \in 1..n : f[i] # m
<1> SUFFICES ASSUME \A m \in 1..(n + 1) : \E i \in 1..n : f[i] = m PROVE FALSE
  OBVIOUS
<1> DEFINE g == [m \in 1..(n + 1) |-> CHOOSE i \in 1..n : f[i] = m]
<1>1. \A m \in 1..(n + 1) : g[m] \in 1..n /\ f[g[m]] = m
  OBVIOUS
<1>2. g \in [1..(n + 1) -> 1..n]
  BY <1>1
<1> DEFINE A == 1..n
           B == 1..(n + 1)
<1>3. /\ IsFiniteSet(A) /\ Cardinality(A) = n
      /\ IsFiniteSet(B) /\ Cardinality(B) = n + 1
  <2>1. n + 1 \in Nat
    OBVIOUS
  <2> QED BY <2>1, UpTo
<1>4. g \in [B -> A]
  BY <1>2
<1> HIDE DEF A, B, g
<1>5. \A x, y \in B : g[x] = g[y] => x = y
  BY <1>1 DEF B
<1>6. g \in Injection(B, A)
  BY <1>4, <1>5 DEF Injection, IsInjective
<1>7. Cardinality(B) <= Cardinality(A)
  BY <1>3, <1>6, FS_Injection
<1> QED BY <1>3, <1>7

LEMMA TimesNat ==
  ASSUME NEW ws, IsFiniteSet(DOMAIN ws), NEW v
  PROVE  Times(ws, v) \in Nat
<1>1. {i \in DOMAIN ws : ws[i] = v} \in SUBSET DOMAIN ws
  OBVIOUS
<1> QED BY <1>1, FS_Subset, FS_CardinalityType DEF Times

LEMMA JoinFinite ==
  ASSUME NEW F, IsFiniteSet(DOMAIN F), \A i \in DOMAIN F : IsFiniteSet(DOMAIN F[i])
  PROVE  IsFiniteSet(DOMAIN Join(F))
<1> DEFINE P == {DOMAIN F[i] : i \in DOMAIN F}
           Q == UNION {{i} \X DOMAIN F[i] : i \in DOMAIN F}
<1>1. IsFiniteSet(P)
  <2> DEFINE d == [i \in DOMAIN F |-> DOMAIN F[i]]
  <2>1. d \in Surjection(DOMAIN F, P)
    BY DEF Surjection
  <2> HIDE DEF d, P
  <2> QED BY <2>1, FS_Surjection
<1>2. IsFiniteSet(UNION P)
  <2>1. \A T \in P : IsFiniteSet(T)
    OBVIOUS
  <2> HIDE DEF P
  <2> QED BY <1>1, <2>1, FS_UNION
<1> DEFINE A == DOMAIN F
           B == UNION P
<1>3. Q \in SUBSET (A \X B)
  <2>1. ASSUME NEW p \in Q PROVE p \in A \X B
    <3>1. PICK i \in DOMAIN F : p \in {i} \X DOMAIN F[i]
      OBVIOUS
    <3>2. i \in A /\ \A x \in DOMAIN F[i] : x \in B
      OBVIOUS
    <3> HIDE DEF A, B
    <3> QED BY <3>1, <3>2
  <2> HIDE DEF A, B, Q
  <2> QED BY <2>1
<1>4. DOMAIN Join(F) = Q
  BY DEF Join
<1>5. IsFiniteSet(A) /\ IsFiniteSet(B)
  BY <1>2
<1> HIDE DEF P, Q, A, B
<1>6. IsFiniteSet(A \X B)
  BY <1>5, FS_Product
<1> QED BY <1>3, <1>4, <1>6, FS_Subset

LEMMA PairFinite ==
  ASSUME NEW a, NEW b, IsFiniteSet(DOMAIN a), IsFiniteSet(DOMAIN b)
  PROVE  IsFiniteSet(DOMAIN Join(<<a, b>>))
<1> DEFINE F == <<a, b>>
<1>1. DOMAIN F = 1..2 /\ F[1] = a /\ F[2] = b
  OBVIOUS
<1>2. IsFiniteSet(1..2) /\ 1..2 = {1, 2}
  <2>1. 2 \in Nat
    OBVIOUS
  <2>2. IsFiniteSet(1..2)
    BY <2>1, UpTo
  <2> QED BY <2>2
<1>3. \A i \in DOMAIN F : IsFiniteSet(DOMAIN F[i])
  BY <1>1, <1>2
<1>4. IsFiniteSet(DOMAIN F)
  BY <1>1, <1>2
<1> HIDE DEF F
<1>5. IsFiniteSet(DOMAIN Join(F))
  BY <1>3, <1>4, JoinFinite
<1> QED BY <1>5 DEF F

LEMMA SeqFinite == \A S : \A s \in Seq(S) : IsFiniteSet(DOMAIN s)
<1> TAKE S
<1> TAKE s \in Seq(S)
<1>1. DOMAIN s = 1..Len(s) /\ Len(s) \in Nat
  BY LenNat
<1> QED BY <1>1, UpTo

LEMMA SingletonFinite == \A v : IsFiniteSet(DOMAIN <<v>>)
<1> TAKE v
<1>1. DOMAIN <<v>> = 1..1
  OBVIOUS
<1> QED BY <1>1, UpTo

LEMMA EmptyFinite == IsFiniteSet(DOMAIN <<>>)
<1>1. DOMAIN <<>> = {}
  OBVIOUS
<1> QED BY <1>1, FS_EmptySet

LEMMA Counting ==
  ASSUME NEW cnt \in [Values -> Int], NEW ws, IsFiniteSet(DOMAIN ws)
  PROVE  Released(cnt, ws) \in [Values -> Int]
<1>1. \A v \in Values : Times(ws, v) \in Nat
  BY TimesNat
<1> QED BY <1>1 DEF Released

LEMMA TakenType ==
  ASSUME NEW cnt \in [Values -> Int], NEW v
  PROVE  Taken(cnt, v) \in [Values -> Int]
<1>1. CASE v \in Values
  BY <1>1 DEF Taken
<1>2. CASE v \notin Values
  BY <1>2 DEF Taken
<1> QED BY <1>1, <1>2

LEMMA Forgetting ==
  ASSUME lost \in [Values -> Nat], NEW ws, IsFiniteSet(DOMAIN ws), Forget(ws)
  PROVE  lost' \in [Values -> Nat]
<1>1. \A v \in Values : Times(ws, v) \in Nat
  BY TimesNat
<1> QED BY <1>1 DEF Forget

LEMMA TripleFinite ==
  ASSUME NEW a, NEW b, NEW c, IsFiniteSet(DOMAIN a), IsFiniteSet(DOMAIN b), IsFiniteSet(DOMAIN c)
  PROVE  IsFiniteSet(DOMAIN Join(<<a, b, c>>))
<1> DEFINE F == <<a, b, c>>
<1>1. DOMAIN F = 1..3 /\ F[1] = a /\ F[2] = b /\ F[3] = c
  OBVIOUS
<1>2. IsFiniteSet(1..3) /\ 1..3 = {1, 2, 3}
  <2>1. 3 \in Nat
    OBVIOUS
  <2>2. IsFiniteSet(1..3)
    BY <2>1, UpTo
  <2> QED BY <2>2
<1>3. \A i \in DOMAIN F : IsFiniteSet(DOMAIN F[i])
  BY <1>1, <1>2
<1>4. IsFiniteSet(DOMAIN F)
  BY <1>1, <1>2
<1> HIDE DEF F
<1>5. IsFiniteSet(DOMAIN Join(F))
  BY <1>3, <1>4, JoinFinite
<1> QED BY <1>5 DEF F

-----------------------------------------------------------------------------
(* Frames                                                                  *)

LEMMA DepthsFinite == IsFiniteSet(Depths) /\ MaxDepth \in Nat /\ MaxDepth > 0
<1>1. MaxDepth \in Nat /\ MaxDepth > 0
  BY BoundsAssumption
<1> QED BY <1>1, UpTo DEF Depths

LEMMA FrameFields ==
  ASSUME NEW f \in GenFrames
  PROVE  /\ f.stage \in {"none", "start", "suspended", "running", "left", "done"}
         /\ f.param \in Values \cup {Null} /\ f.value \in Values \cup {Null}
         /\ f.blocks \in Seq(Blocks)
         /\ f.local \in [Depths -> Values \cup {Null}] /\ f.err \in [Depths -> Values \cup {Null}]
         /\ f.use \in [Depths -> Uses]
BY DEF GenFrames

LEMMA UseFields ==
  ASSUME NEW u \in Uses
  PROVE  u.gen \in Gens \cup {Null} /\ u.mode \in Modes /\ u.held \in Seq(Values)
BY DEF Uses

LEMMA NoUseType == NoUse \in Uses /\ NoUse.gen = Null /\ NoUse.mode = "for" /\ NoUse.held = <<>>
BY EmptySeq DEF NoUse, Uses, Modes

LEMMA NoFrameType ==
  /\ NoFrame \in GenFrames /\ NoFrame.stage = "none" /\ NoFrame.blocks = <<>>
  /\ NoFrame.param = Null /\ NoFrame.value = Null
  /\ \A d \in Depths : NoFrame.use[d] = NoUse /\ NoFrame.local[d] = Null /\ NoFrame.err[d] = Null
BY NoUseType, EmptySeq DEF NoFrame, GenFrames

LEMMA FieldsFinite ==
  ASSUME NEW f \in GenFrames
  PROVE  IsFiniteSet(DOMAIN Fields(f)) /\ IsFiniteSet(DOMAIN f.err)
<1> DEFINE a == <<f.param, f.value>>
           U == [d \in Depths |-> f.use[d].held]
<1>1. IsFiniteSet(DOMAIN a)
  <2>1. DOMAIN a = 1..2 /\ 2 \in Nat
    OBVIOUS
  <2> QED BY <2>1, UpTo
<1>2. DOMAIN f.local = Depths /\ DOMAIN f.err = Depths
  BY FrameFields
<1>3. DOMAIN U = Depths /\ \A d \in DOMAIN U : IsFiniteSet(DOMAIN U[d])
  <2>1. \A d \in Depths : U[d] \in Seq(Values)
    BY FrameFields, UseFields
  <2>2. DOMAIN U = Depths
    OBVIOUS
  <2> HIDE DEF U
  <2> QED BY <2>1, <2>2, SeqFinite
<1>4. IsFiniteSet(DOMAIN f.local) /\ IsFiniteSet(DOMAIN f.err) /\ IsFiniteSet(DOMAIN U)
  BY <1>2, <1>3, DepthsFinite
<1> HIDE DEF U
<1>5. IsFiniteSet(DOMAIN Join(U))
  BY <1>3, <1>4, JoinFinite
<1> HIDE DEF a
<1>6. IsFiniteSet(DOMAIN Join(<<a, f.local, Join(U)>>))
  BY <1>1, <1>4, <1>5, TripleFinite
<1> QED BY <1>4, <1>6 DEF Fields, a, U

LEMMA DropFinite ==
  ASSUME NEW gs \in [Gens -> GenFrames], NEW S
  PROVE  IsFiniteSet(DOMAIN GivenByDrop(gs, S)) /\ IsFiniteSet(DOMAIN LostByDrop(gs, S))
<1> DEFINE D == Tree(gs, S)
           F == [g \in D |-> Fields(gs[g])]
           E == [g \in D |-> gs[g].err]
<1>1. D \in SUBSET Gens
  BY DEF Tree
<1> HIDE DEF D
<1>2. IsFiniteSet(D)
  BY <1>1, GensAssumption, FS_Subset
<1>3. DOMAIN F = D /\ DOMAIN E = D
  OBVIOUS
<1>4. \A g \in D : IsFiniteSet(DOMAIN F[g]) /\ IsFiniteSet(DOMAIN E[g])
  <2>1. \A g \in D : gs[g] \in GenFrames
    BY <1>1
  <2>2. \A g \in D : F[g] = Fields(gs[g]) /\ E[g] = gs[g].err
    OBVIOUS
  <2> HIDE DEF F, E
  <2> QED BY <2>1, <2>2, FieldsFinite
<1> HIDE DEF F, E
<1>5. IsFiniteSet(DOMAIN Join(F))
  BY <1>2, <1>3, <1>4, JoinFinite
<1>6. IsFiniteSet(DOMAIN Join(E))
  BY <1>2, <1>3, <1>4, JoinFinite
<1> QED BY <1>5, <1>6 DEF GivenByDrop, LostByDrop, D, E, F

LEMMA BlocksFinite ==
  ASSUME NEW f \in GenFrames, Len(f.blocks) <= MaxDepth, NEW k \in Nat
  PROVE  IsFiniteSet(DOMAIN GivenByBlocks(f, k))
<1> DEFINE I == (k + 1)..Len(f.blocks)
           A(d) == IF f.blocks[d].declared THEN <<f.local[d]>> ELSE <<>>
           B(d) == IF Consumes(f.blocks[d]) THEN f.use[d].held ELSE <<>>
           F == [d \in I |-> Join(<<A(d), B(d)>>)]
<1>1. Len(f.blocks) \in Nat /\ I \subseteq Depths
  <2>1. Len(f.blocks) \in Nat
    BY FrameFields, LenNat
  <2> QED BY <2>1, DepthsFinite DEF Depths
<1>2. I \in SUBSET Depths
  BY <1>1
<1> HIDE DEF I
<1>3. IsFiniteSet(I)
  BY <1>2, DepthsFinite, FS_Subset
<1>4. ASSUME NEW d \in I PROVE IsFiniteSet(DOMAIN Join(<<A(d), B(d)>>))
  <2>1. IsFiniteSet(DOMAIN A(d))
    <3>1. A(d) = <<f.local[d]>> \/ A(d) = <<>>
      OBVIOUS
    <3> HIDE DEF A
    <3> QED BY <3>1, SingletonFinite, EmptyFinite
  <2>2. IsFiniteSet(DOMAIN B(d))
    <3>1. B(d) = f.use[d].held \/ B(d) = <<>>
      OBVIOUS
    <3>2. f.use[d].held \in Seq(Values)
      BY <1>2, FrameFields, UseFields
    <3>3. IsFiniteSet(DOMAIN f.use[d].held)
      BY <3>2, SeqFinite
    <3> HIDE DEF B
    <3> QED BY <3>1, <3>3, EmptyFinite
  <2> HIDE DEF A, B
  <2> QED BY <2>1, <2>2, PairFinite
<1> HIDE DEF A, B
<1>5. DOMAIN F = I /\ \A d \in I : IsFiniteSet(DOMAIN F[d])
  BY <1>4
<1> HIDE DEF F
<1>6. IsFiniteSet(DOMAIN Join(F))
  BY <1>3, <1>5, JoinFinite
<1> QED BY <1>6 DEF GivenByBlocks, F, A, B, I

\* Tree is the least set that holds S and what its members are iterating.
LEMMA TreeIs ==
  ASSUME NEW gs \in [Gens -> GenFrames], NEW S \in SUBSET Gens
  PROVE  /\ Tree(gs, S) \in SUBSET Gens /\ S \subseteq Tree(gs, S)
         /\ \A h \in Tree(gs, S) : Inner(gs[h]) \subseteq Tree(gs, S)
         /\ \A T \in SUBSET Gens :
              S \subseteq T /\ (\A h \in T : Inner(gs[h]) \subseteq T) => Tree(gs, S) \subseteq T
<1> DEFINE Ok(T) == S \subseteq T /\ \A h \in T : Inner(gs[h]) \subseteq T
           D == Tree(gs, S)
<1>1. D = {g \in Gens : \A T \in SUBSET Gens : Ok(T) => g \in T}
  BY DEF Tree
<1>2. \A h \in Gens : Inner(gs[h]) \subseteq Gens
  <2>1. \A h \in Gens : \A d \in Depths : gs[h].use[d].gen \in Gens \cup {Null}
    BY FrameFields, UseFields
  <2> QED BY <2>1 DEF Inner
<1> HIDE DEF D
<1>3. S \subseteq D /\ D \in SUBSET Gens
  BY <1>1
<1>4. ASSUME NEW h \in D, NEW g \in Inner(gs[h]) PROVE g \in D
  <2>1. g \in Gens
    BY <1>2, <1>3
  <2>2. ASSUME NEW T \in SUBSET Gens, Ok(T) PROVE g \in T
    <3>1. h \in T
      BY <1>1, <2>2
    <3> QED BY <2>2, <3>1
  <2> QED BY <1>1, <2>1, <2>2
<1>5. \A T \in SUBSET Gens : Ok(T) => D \subseteq T
  BY <1>1
<1> QED BY <1>3, <1>4, <1>5 DEF D

\* What is in the tree is a root, or something in the tree is iterating it.
LEMMA TreeFrom ==
  ASSUME NEW gs \in [Gens -> GenFrames], NEW S \in SUBSET Gens, NEW g \in Tree(gs, S), g \notin S
  PROVE  \E h \in Tree(gs, S) : g \in Inner(gs[h])
<1> DEFINE D == Tree(gs, S)
           T == D \ {g}
<1> SUFFICES ASSUME \A h \in D : g \notin Inner(gs[h]) PROVE FALSE
  OBVIOUS
<1>1. /\ D \in SUBSET Gens /\ S \subseteq D /\ \A h \in D : Inner(gs[h]) \subseteq D
      /\ \A X \in SUBSET Gens :
              S \subseteq X /\ (\A h \in X : Inner(gs[h]) \subseteq X) => D \subseteq X
  BY TreeIs
<1>2. g \in D
  OBVIOUS
<1> HIDE DEF D
<1>3. T \in SUBSET Gens /\ S \subseteq T /\ \A h \in T : Inner(gs[h]) \subseteq T
  BY <1>1
<1>4. D \subseteq T
  BY <1>1, <1>3
<1> QED BY <1>2, <1>4

LEMMA TreeSame ==
  ASSUME NEW gs \in [Gens -> GenFrames], NEW hs \in [Gens -> GenFrames], NEW S,
         \A h \in Gens : Inner(gs[h]) = Inner(hs[h])
  PROVE  Tree(gs, S) = Tree(hs, S)
<1>1. \A T \in SUBSET Gens : (\A h \in T : Inner(gs[h]) \subseteq T) <=> (\A h \in T : Inner(hs[h]) \subseteq T)
  OBVIOUS
<1> QED BY <1>1 DEF Tree

LEMMA TreeNone ==
  ASSUME NEW gs \in [Gens -> GenFrames]
  PROVE  Tree(gs, {}) = {} /\ AfterDrop(gs, {}) = gs
<1> DEFINE N == {}
<1>1. N \in SUBSET Gens /\ N \subseteq N /\ \A h \in N : Inner(gs[h]) \subseteq N
  OBVIOUS
<1> HIDE DEF N
<1>2. Tree(gs, N) \subseteq N
  BY <1>1, TreeIs
<1>3. Tree(gs, {}) = {}
  BY <1>2 DEF N
<1> QED BY <1>3 DEF AfterDrop

-----------------------------------------------------------------------------
(* Who holds a frame                                                       *)

\* Some places are emptied, and the frames of K are those of the others.
LEMMA OwnedLess ==
  ASSUME NEW ns, NEW gs, NEW L, Owned(ns, gs, L), NEW ms, NEW hs, NEW K \in SUBSET L,
         \A i \in 1..Len(ms) : ms[i].use.gen # Null =>
           i \in 1..Len(ns) /\ ms[i].use.gen = ns[i].use.gen /\ ms[i].use.gen \in K,
         \A h \in Gens : \A d \in Depths : hs[h].use[d].gen # Null =>
           hs[h].use[d].gen = gs[h].use[d].gen /\ hs[h].use[d].gen \in K,
         \A i \in 1..Len(ns) : ns[i].use.gen \in K =>
           i \in 1..Len(ms) /\ ms[i].use.gen = ns[i].use.gen,
         \A h \in Gens : \A d \in Depths : gs[h].use[d].gen \in K =>
           hs[h].use[d].gen = gs[h].use[d].gen
  PROVE  Owned(ms, hs, K)
<1>1. \A i, j \in 1..Len(ms) : ms[i].use.gen # Null /\ ms[i].use.gen = ms[j].use.gen => i = j
  BY DEF Owned
<1>2. \A g, h \in Gens : \A d, e \in Depths :
       hs[g].use[d].gen # Null /\ hs[g].use[d].gen = hs[h].use[e].gen => g = h /\ d = e
  BY DEF Owned
<1>3. \A i \in 1..Len(ms), h \in Gens, d \in Depths :
       ms[i].use.gen # Null => ms[i].use.gen # hs[h].use[d].gen
  BY DEF Owned
<1>4. \A g \in K : \/ \E i \in 1..Len(ms) : ms[i].use.gen = g
                   \/ \E h \in Gens : \E d \in Depths : hs[h].use[d].gen = g
  BY DEF Owned
<1> QED BY <1>1, <1>2, <1>3, <1>4 DEF Owned

LEMMA InnerIs ==
  ASSUME NEW f \in GenFrames, NEW d \in Depths, f.use[d].gen # Null, f.use[d].mode = "for"
  PROVE  f.use[d].gen \in Inner(f)
BY DEF Inner

LEMMA InnerFrom ==
  ASSUME NEW f \in GenFrames, NEW g \in Inner(f)
  PROVE  g # Null /\ \E d \in Depths : f.use[d].gen = g /\ f.use[d].mode = "for"
BY DEF Inner

\* A frame that runs is in no tree whose roots nothing holds any more.
LEMMA TreeIdle ==
  ASSUME NEW ns, NEW gs, NEW L, Stacks(ns), Frames(gs), Runs(ns, gs), Owned(ns, gs, L),
         NEW S \in SUBSET Gens, \A g \in S : gs[g].stage # "running"
  PROVE  \A g \in Tree(gs, S) : gs[g].stage # "running"
<1> DEFINE D == Tree(gs, S)
           T == {g \in D : gs[g].stage # "running"}
<1>0. gs \in [Gens -> GenFrames]
  BY DEF Frames
<1>1. /\ D \in SUBSET Gens /\ S \subseteq D /\ \A h \in D : Inner(gs[h]) \subseteq D
      /\ \A X \in SUBSET Gens :
              S \subseteq X /\ (\A h \in X : Inner(gs[h]) \subseteq X) => D \subseteq X
  BY <1>0, TreeIs
<1> HIDE DEF D
<1>2. ASSUME NEW h \in T, NEW g \in Inner(gs[h]) PROVE g \in T
  <2>1. h \in D /\ h \in Gens /\ gs[h].stage # "running" /\ gs[h] \in GenFrames
    BY <1>0, <1>1
  <2>2. g \in D /\ g \in Gens
    BY <1>1, <2>1
  <2>3. PICK d \in Depths : gs[h].use[d].gen = g
    BY <2>1, InnerFrom
  <2>4. g # Null
    BY <2>1, InnerFrom
  <2>5. ASSUME gs[g].stage = "running" PROVE FALSE
    <3>1. PICK j \in 1..Len(ns) : ns[j].kind = "resume" /\ ns[j].gen = g
      BY <2>2, <2>5 DEF Runs
    <3>2. Len(ns) \in Nat /\ ns[1].kind = "fn"
      BY DEF Stacks, Shape
    <3>3. j # 1
      BY <3>1, <3>2
    <3> DEFINE i == j - 1
    <3>4. i \in 1..(Len(ns) - 1) /\ i + 1 = j /\ i \in 1..Len(ns)
      BY <3>2, <3>3
    <3> HIDE DEF i
    <3>5. UseOf(ns, gs, i).gen = g
      BY <3>1, <3>4 DEF Runs
    <3>6. CASE ns[i].kind = "fn"
      <4>1. ns[i].use.gen = g
        BY <3>5, <3>6 DEF UseOf
      <4> QED BY <2>1, <2>3, <2>4, <3>4, <4>1 DEF Owned
    <3>7. CASE ns[i].kind # "fn"
      <4>0. ns[i].kind = "resume"
        <5>1. ns[i] \in Activations
          BY <3>4 DEF Stacks
        <5> QED BY <3>7, <5>1 DEF Activations
      <4> DEFINE r == ns[i].gen
                 n == Len(gs[r].blocks)
      <4>1. r \in Gens /\ gs[r].stage = "running"
        BY <3>4, <4>0 DEF Stacks, Shape, Runs
      <4>2. gs[r].blocks # <<>> /\ gs[r].use[n].gen = g
        BY <2>4, <3>5, <3>7, NoUseType DEF UseOf
      <4>3. n \in Depths
        <5>1. gs[r].blocks \in Seq(Blocks) /\ n <= MaxDepth
          BY <1>0, <4>1, FrameFields DEF Frames, Framed
        <5> HIDE DEF r
        <5>2. n \in Nat /\ n # 0
          BY <4>2, <5>1, LenNat, EmptySeq
        <5> QED BY <5>1, <5>2, DepthsFinite DEF Depths
      <4> HIDE DEF r, n
      <4>4. r = h
        BY <2>1, <2>3, <2>4, <4>1, <4>2, <4>3 DEF Owned
      <4> QED BY <2>1, <4>1, <4>4
    <3> QED BY <3>6, <3>7
  <2> QED BY <2>2, <2>5
<1>3. T \in SUBSET Gens /\ S \subseteq T
  BY <1>1
<1> HIDE DEF T
<1>4. D \subseteq T
  BY <1>1, <1>2, <1>3
<1> QED BY <1>4 DEF T, D

\* A frame takes those that it is iterating with it, and holds no others.
LEMMA OwnedDrop ==
  ASSUME NEW ns, NEW gs, NEW L, Frames(gs), Owned(ns, gs, L),
         NEW S \in SUBSET Gens, S \cap L = {}, L \subseteq Gens,
         \A g \in Tree(gs, S) : gs[g].stage # "running"
  PROVE  Owned(ns, AfterDrop(gs, S), L \ Tree(gs, S))
<1> DEFINE D == Tree(gs, S)
           hs == AfterDrop(gs, S)
           K == L \ D
<1>0. gs \in [Gens -> GenFrames] /\ \A h \in Gens : gs[h] \in GenFrames /\ Framed(gs[h])
  BY DEF Frames
<1>1. D \in SUBSET Gens /\ S \subseteq D /\ \A h \in D : Inner(gs[h]) \subseteq D
  BY <1>0, TreeIs
<1>2. \A g \in D \ S : \E h \in D : g \in Inner(gs[h])
  BY <1>0, TreeFrom
<1>3. \A h \in Gens : hs[h] = IF h \in D THEN NoFrame ELSE gs[h]
  BY DEF AfterDrop
<1>4. \A h \in D : \A d \in Depths : gs[h].use[d].gen # Null => gs[h].use[d].gen \in D
  <2> SUFFICES ASSUME NEW h \in D, NEW d \in Depths, gs[h].use[d].gen # Null
               PROVE  gs[h].use[d].gen \in D
    OBVIOUS
  <2>1. h \in Gens /\ gs[h].stage # "running" /\ Framed(gs[h]) /\ gs[h] \in GenFrames
    BY <1>0, <1>1
  <2> HIDE DEF D
  <2>2. gs[h].use[d].mode = "for"
    BY <2>1 DEF Framed
  <2>3. gs[h].use[d].gen \in Inner(gs[h])
    BY <2>1, <2>2, InnerIs
  <2> QED BY <1>1, <2>3
\* What is in the tree is held from within it, if at all.
<1>5. \A g \in D \cap L : \E h \in D : \E d \in Depths : gs[h].use[d].gen = g /\ g # Null
  <2> HIDE DEF D
  <2> SUFFICES ASSUME NEW g \in D, g \in L
               PROVE  \E h \in D : \E d \in Depths : gs[h].use[d].gen = g /\ g # Null
    OBVIOUS
  <2>1. PICK h \in D : g \in Inner(gs[h])
    BY <1>2
  <2>2. gs[h] \in GenFrames
    BY <1>0, <1>1
  <2> QED BY <2>1, <2>2, InnerFrom
<1> HIDE DEF D, hs
<1>6. \A h \in D, d \in Depths : hs[h].use[d].gen = Null
  BY <1>1, <1>3, NoFrameType, NoUseType
<1>7. K \in SUBSET L
  OBVIOUS
<1>8. \A i \in 1..Len(ns) : ns[i].use.gen # Null => ns[i].use.gen \in K
  <2> SUFFICES ASSUME NEW i \in 1..Len(ns), ns[i].use.gen # Null PROVE ns[i].use.gen \notin D
    BY DEF Owned
  <2>1. ns[i].use.gen \in L
    BY DEF Owned
  <2>2. ASSUME ns[i].use.gen \in D PROVE FALSE
    <3>1. PICK h \in D : \E d \in Depths : gs[h].use[d].gen = ns[i].use.gen
      BY <1>5, <2>1, <2>2
    <3>2. h \in Gens
      BY <1>1
    <3> QED BY <3>1, <3>2 DEF Owned
  <2> QED BY <2>2
<1>9. \A h \in Gens : \A d \in Depths : hs[h].use[d].gen # Null =>
           hs[h].use[d].gen = gs[h].use[d].gen /\ hs[h].use[d].gen \in K
  <2> SUFFICES ASSUME NEW h \in Gens, NEW d \in Depths, hs[h].use[d].gen # Null
               PROVE  hs[h].use[d].gen = gs[h].use[d].gen /\ hs[h].use[d].gen \in K
    OBVIOUS
  <2>1. h \notin D /\ hs[h] = gs[h]
    BY <1>3, <1>6
  <2>2. gs[h].use[d].gen \in L
    BY <2>1 DEF Owned
  <2>3. ASSUME gs[h].use[d].gen \in D PROVE FALSE
    <3>1. PICK k \in D : \E e \in Depths : gs[k].use[e].gen = gs[h].use[d].gen
      BY <1>5, <2>2, <2>3
    <3>2. k \in Gens /\ gs[h].use[d].gen # Null
      BY <1>1, <2>1
    <3>3. k = h
      BY <3>1, <3>2 DEF Owned
    <3> QED BY <2>1, <3>3
  <2> QED BY <2>1, <2>2, <2>3
<1>10. \A h \in Gens : \A d \in Depths : gs[h].use[d].gen \in K =>
           hs[h].use[d].gen = gs[h].use[d].gen
  <2> SUFFICES ASSUME NEW h \in Gens, NEW d \in Depths, gs[h].use[d].gen \in K
               PROVE  hs[h].use[d].gen = gs[h].use[d].gen
    OBVIOUS
  <2>1. gs[h].use[d].gen # Null
    BY NullAssumption
  <2>2. h \notin D
    BY <1>4, <2>1
  <2> QED BY <1>3, <2>2
<1>11. Owned(ns, hs, K)
  <2> HIDE DEF K
  <2> QED BY <1>7, <1>8, <1>9, <1>10, OwnedLess
<1> QED BY <1>11 DEF hs, D

\* The same with the frames that are there: what falls is no longer there.
LEMMA LiveDrop ==
  ASSUME NEW gs, NEW S \in SUBSET Gens, NEW os
  PROVE  Live(AfterDrop(gs, S), os) = Live(gs, os) \ Tree(gs, S)
<1>1. \A g \in Gens : AfterDrop(gs, S)[g].stage =
        IF g \in Tree(gs, S) THEN "none" ELSE gs[g].stage
  BY NoFrameType DEF AfterDrop
<1> QED BY <1>1 DEF Live

-----------------------------------------------------------------------------
(* The native stack and the windows of TRY_STACK                           *)

LEMMA ActivationFields ==
  ASSUME NEW a \in Activations
  PROVE  /\ a.kind \in {"fn", "resume"} /\ a.id \in Nat /\ a.tried \in BOOLEAN /\ a.depth \in Nat
         /\ a.gen \in Gens \cup {Null} /\ a.use \in Uses
BY DEF Activations

LEMMA StackIs ==
  ASSUME NEW ns, Stacks(ns)
  PROVE  /\ Len(ns) \in Nat /\ Len(ns) > 0 /\ ns # <<>> /\ Last(ns) = ns[Len(ns)]
         /\ \A i \in 1..Len(ns) : /\ ns[i] \in Activations /\ ns[i].kind \in {"fn", "resume"}
                                  /\ ns[i].depth \in Nat
<1>1. ns \in Seq(Activations) /\ Len(ns) \in Nat /\ Len(ns) > 0
  <2>1. MaxCalls \in Nat
    BY BoundsAssumption
  <2> QED BY <2>1 DEF Stacks
<1>2. \A i \in 1..Len(ns) : ns[i] \in Activations
  BY <1>1
<1>3. ns # <<>>
  BY <1>1, EmptySeq
<1> QED BY <1>1, <1>2, <1>3, ActivationFields DEF Last

\* ms is ns, but for what the function on top consumes.
Same(ns, ms) ==
  /\ ms \in Seq(Activations) /\ Len(ms) = Len(ns)
  /\ \A i \in 1..(Len(ns) - 1) : ms[i] = ns[i]
  /\ \A i \in 1..Len(ns) :
       /\ ms[i].kind = ns[i].kind /\ ms[i].id = ns[i].id /\ ms[i].tried = ns[i].tried
       /\ ms[i].depth = ns[i].depth /\ ms[i].gen = ns[i].gen
       /\ ns[i].kind = "resume" => ms[i].use = ns[i].use

\* Of the frames that run only that of the activation on top changes.
Steady(ns, gs, hs) ==
  /\ \A g \in Gens : hs[g].stage = "running" <=> gs[g].stage = "running"
  /\ \A i \in 1..(Len(ns) - 1) : ns[i].kind = "resume" => hs[ns[i].gen] = gs[ns[i].gen]

LEMMA SameIs == ASSUME NEW ns, Stacks(ns) PROVE Same(ns, ns)
BY DEF Same, Stacks

LEMMA StacksSame ==
  ASSUME NEW ns, NEW ms, Stacks(ns), Same(ns, ms)
  PROVE  Stacks(ms)
<1>1. Len(ns) \in Nat /\ Len(ns) > 0 /\ Len(ms) = Len(ns) /\ 1 \in 1..Len(ns)
  BY StackIs DEF Same
<1> QED BY <1>1 DEF Same, Stacks, Shape

LEMMA RunsSame ==
  ASSUME NEW ns, NEW ms, NEW gs, NEW hs, Stacks(ns), Same(ns, ms), Steady(ns, gs, hs), Runs(ns, gs)
  PROVE  Runs(ms, hs)
<1>1. Len(ns) \in Nat /\ Len(ns) > 0 /\ Len(ms) = Len(ns)
  BY StackIs DEF Same
<1>2. \A i \in 1..Len(ms) : ms[i].kind = "resume" => hs[ms[i].gen].stage = "running"
  BY <1>1 DEF Runs, Same, Steady, Stacks, Shape
<1>3. \A g \in Gens : hs[g].stage = "running" =>
       \E i \in 1..Len(ms) : ms[i].kind = "resume" /\ ms[i].gen = g
  BY <1>1 DEF Runs, Same, Steady
<1>4. ASSUME NEW i \in 1..(Len(ms) - 1), ms[i + 1].kind = "resume"
      PROVE  UseOf(ms, hs, i).gen = ms[i + 1].gen
  <2>1. i \in 1..(Len(ns) - 1) /\ i \in 1..Len(ns) /\ i + 1 \in 1..Len(ns)
    BY <1>1
  <2>2. ns[i + 1].kind = "resume" /\ ns[i + 1].gen = ms[i + 1].gen /\ ms[i] = ns[i]
    BY <1>4, <2>1 DEF Same
  <2>3. UseOf(ns, gs, i).gen = ns[i + 1].gen
    BY <2>1, <2>2 DEF Runs
  <2>4. ns[i].kind # "fn" => hs[ns[i].gen] = gs[ns[i].gen]
    <3>1. ns[i].kind \in {"fn", "resume"}
      BY <2>1, StackIs
    <3> QED BY <2>1, <3>1 DEF Steady
  <2>5. UseOf(ms, hs, i) = UseOf(ns, gs, i)
    BY <2>2, <2>4 DEF UseOf
  <2> QED BY <2>2, <2>3, <2>5
<1> QED BY <1>2, <1>3, <1>4 DEF Runs

\* The window on top is another one.
LEMMA WindowsTop ==
  ASSUME NEW ns, NEW ms, NEW gs, NEW hs, Stacks(ns), Same(ns, ms), Steady(ns, gs, hs),
         NEW ts \in Seq(TryFrames), NEW us \in Seq(TryFrames), Windows(ns, ts, gs),
         ns[Len(ns)].depth <= Len(us),
         \A k \in 1..ns[Len(ns)].depth : us[k] = ts[k],
         Window(ns[Len(ns)], us, ns[Len(ns)].depth, Len(us), LevelsOf(ns[Len(ns)], hs)),
         Unwinding(ns, us, Len(ns), ns[Len(ns)].depth, Len(us))
  PROVE  Windows(ms, us, hs)
<1> DEFINE n == Len(ns)
<1>1. n \in Nat /\ n > 0 /\ Len(ms) = n /\ Len(us) \in Nat /\ Len(ts) \in Nat
  BY StackIs, LenNat DEF Same
<1>2. /\ \A i \in 1..n : /\ ms[i].kind = ns[i].kind /\ ms[i].id = ns[i].id /\ ms[i].tried = ns[i].tried
                         /\ ms[i].depth = ns[i].depth /\ ms[i].gen = ns[i].gen
      /\ \A i \in 1..n : ns[i].depth \in Nat
  BY StackIs DEF Same
<1>3. \A i, j \in 1..n : i <= j => ms[i].depth <= ms[j].depth
  BY <1>2 DEF Windows
<1>4. \A i \in 1..n : ms[i].depth <= Len(us)
  <2> SUFFICES ASSUME NEW i \in 1..n PROVE ns[i].depth <= Len(us)
    BY <1>2
  <2>1. n \in 1..n /\ i <= n /\ ns[i].depth <= ns[n].depth
    BY <1>1 DEF Windows
  <2> QED BY <1>1, <1>2, <2>1
<1>5. ASSUME NEW i \in 1..n
      PROVE  /\ Window(ms[i], us, ms[i].depth, EndOf(ms, us, i), LevelsOf(ms[i], hs))
             /\ Unwinding(ms, us, i, ms[i].depth, EndOf(ms, us, i))
  <2> DEFINE b == ns[i].depth
  <2>1. LevelsOf(ms[i], hs) = LevelsOf(ns[i], hs) /\ ms[i].depth = b /\ ms[i].id = ns[i].id
    BY <1>2 DEF LevelsOf
  <2>2. CASE i = n
    <3>1. EndOf(ms, us, i) = Len(us)
      BY <1>1, <2>2 DEF EndOf
    <3>2. Window(ms[i], us, b, Len(us), LevelsOf(ms[i], hs))
      BY <2>1, <2>2 DEF Window
    <3>3. Unwinding(ms, us, i, b, Len(us))
      BY <1>1, <1>2, <2>2 DEF Unwinding
    <3> QED BY <2>1, <3>1, <3>2, <3>3
  <2>3. CASE i # n
    <3>0. i + 1 \in 1..n /\ i \in 1..(n - 1) /\ n \in 1..n
      BY <1>1, <2>3
    <3> DEFINE e == ns[i + 1].depth
    <3>1. e <= ns[n].depth /\ e \in Nat /\ b \in Nat /\ ns[n].depth \in Nat
      BY <1>2, <3>0 DEF Windows
    <3>2. EndOf(ms, us, i) = e /\ EndOf(ns, ts, i) = e
      BY <1>1, <1>2, <2>3, <3>0 DEF EndOf
    <3>3. \A k \in (b + 1)..e : us[k] = ts[k]
      BY <3>1
    <3>4. LevelsOf(ns[i], hs) = LevelsOf(ns[i], gs)
      <4>1. ns[i].kind \in {"fn", "resume"}
        BY StackIs
      <4> QED BY <3>0, <4>1 DEF LevelsOf, Steady
    <3>5. /\ Window(ns[i], ts, b, e, LevelsOf(ns[i], gs))
          /\ Unwinding(ns, ts, i, b, e)
      BY <3>2 DEF Windows
    <3> HIDE DEF b, e
    <3>6. Window(ms[i], us, b, e, LevelsOf(ms[i], hs))
      BY <2>1, <3>3, <3>4, <3>5 DEF Window
    <3>7. Unwinding(ms, us, i, b, e)
      BY <1>1, <1>2, <3>3, <3>5 DEF Unwinding
    <3> QED BY <2>1, <3>2, <3>6, <3>7
  <2> QED BY <2>2, <2>3
<1>6. ms[1].depth = 0
  BY <1>1, <1>2 DEF Windows
<1> QED BY <1>1, <1>3, <1>4, <1>5, <1>6 DEF Windows

LEMMA WindowsSame ==
  ASSUME NEW ns, NEW ms, NEW gs, NEW hs, Stacks(ns), Same(ns, ms), Steady(ns, gs, hs),
         NEW ts \in Seq(TryFrames), Windows(ns, ts, gs),
         ns[Len(ns)].kind = "resume" => TriesOf(hs[ns[Len(ns)].gen]) = TriesOf(gs[ns[Len(ns)].gen])
  PROVE  Windows(ms, ts, hs)
<1> DEFINE n == Len(ns)
<1>1. n \in Nat /\ n > 0 /\ n \in 1..n /\ ns[n].kind \in {"fn", "resume"}
  BY StackIs
<1>2. EndOf(ns, ts, n) = Len(ts)
  BY DEF EndOf
<1>3. LevelsOf(ns[n], hs) = LevelsOf(ns[n], gs)
  BY <1>1 DEF LevelsOf
<1>4. ns[n].depth <= Len(ts)
  BY <1>1 DEF Windows
<1>5. /\ Window(ns[n], ts, ns[n].depth, Len(ts), LevelsOf(ns[n], hs))
      /\ Unwinding(ns, ts, n, ns[n].depth, Len(ts))
  BY <1>1, <1>2, <1>3 DEF Windows
<1> QED BY <1>4, <1>5, WindowsTop

LEMMA StacksPush ==
  ASSUME NEW ns, Stacks(ns), Len(ns) < MaxCalls, NEW a \in Activations,
         \A i \in 1..Len(ns) : ns[i].id # a.id,
         a.kind = "fn" => ns[Len(ns)].kind = "fn" /\ a.gen = Null,
         a.kind = "resume" => /\ a.gen \in Gens /\ a.use = NoUse
                              /\ \A i \in 1..Len(ns) : ns[i].kind = "resume" => ns[i].gen # a.gen
  PROVE  Stacks(Append(ns, a))
<1> DEFINE n == Len(ns)
           ms == Append(ns, a)
<1>1. n \in Nat /\ n > 0 /\ n \in 1..n /\ ns \in Seq(Activations) /\ MaxCalls \in Nat
  BY StackIs, BoundsAssumption DEF Stacks
<1>2. /\ ms \in Seq(Activations) /\ Len(ms) = n + 1
      /\ \A i \in 1..n : ms[i] = ns[i]
      /\ ms[n + 1] = a
  BY <1>1, PushSeq
<1>3. Shape(ns)
  BY DEF Stacks
<1> HIDE DEF ms
<1>4. ms[1].kind = "fn" /\ ~ms[1].tried
  BY <1>1, <1>2, <1>3 DEF Shape
<1>5. ASSUME NEW i \in 1..Len(ms), NEW j \in 1..Len(ms), j < i, ms[i].kind = "fn" PROVE ms[j].kind = "fn"
  <2>1. j \in 1..n /\ (i \in 1..n \/ i = n + 1)
    BY <1>1, <1>2, <1>5
  <2>2. ns[j].kind = "fn"
    BY <1>1, <1>2, <1>3, <1>5, <2>1 DEF Shape
  <2> QED BY <1>2, <2>1, <2>2
<1>6. \A i \in 1..Len(ms) : ms[i].kind = "resume" => ms[i].gen \in Gens /\ ms[i].use = NoUse
  BY <1>1, <1>2, <1>3 DEF Shape
<1>7. \A i, j \in 1..Len(ms) : ms[i].id = ms[j].id => i = j
  BY <1>1, <1>2, <1>3 DEF Shape
<1>8. \A i, j \in 1..Len(ms) :
       ms[i].kind = "resume" /\ ms[j].kind = "resume" /\ ms[i].gen = ms[j].gen => i = j
  BY <1>1, <1>2, <1>3 DEF Shape
<1>9. Len(ms) \in 1..MaxCalls
  BY <1>1, <1>2
<1>11. \A i \in 1..Len(ms) : ms[i].kind = "fn" => ms[i].gen = Null
  BY <1>1, <1>2, <1>3 DEF Shape
<1>10. Shape(ms)
  BY <1>4, <1>5, <1>6, <1>7, <1>8, <1>11 DEF Shape
<1> QED BY <1>2, <1>9, <1>10 DEF Stacks, ms

LEMMA RunsPush ==
  ASSUME NEW ns, NEW gs, NEW hs, Stacks(ns), Runs(ns, gs), NEW a \in Activations,
         \A g \in Gens : (a.kind = "resume" /\ g = a.gen) \/ hs[g] = gs[g],
         \A i \in 1..Len(ns) : ns[i].kind = "resume" => ns[i].gen # a.gen,
         a.kind = "resume" => /\ a.gen \in Gens /\ hs[a.gen].stage = "running"
                              /\ UseOf(ns, gs, Len(ns)).gen = a.gen
  PROVE  Runs(Append(ns, a), hs)
<1> DEFINE n == Len(ns)
           ms == Append(ns, a)
<1>1. n \in Nat /\ n > 0 /\ n \in 1..n /\ ns \in Seq(Activations) /\ Shape(ns)
  BY StackIs DEF Stacks
<1>2. /\ ms \in Seq(Activations) /\ Len(ms) = n + 1
      /\ \A i \in 1..n : ms[i] = ns[i]
      /\ ms[n + 1] = a
  BY <1>1, PushSeq
<1> HIDE DEF ms
<1>3. \A i \in 1..n : ns[i].kind = "resume" => ns[i].gen \in Gens /\ hs[ns[i].gen] = gs[ns[i].gen]
  BY <1>1 DEF Shape
<1>4. \A i \in 1..Len(ms) : ms[i].kind = "resume" => hs[ms[i].gen].stage = "running"
  BY <1>1, <1>2, <1>3 DEF Runs
<1>5. ASSUME NEW g \in Gens, hs[g].stage = "running"
      PROVE  \E i \in 1..Len(ms) : ms[i].kind = "resume" /\ ms[i].gen = g
  <2>1. CASE a.kind = "resume" /\ g = a.gen
    BY <1>1, <1>2, <2>1
  <2>2. CASE hs[g] = gs[g]
    <3>1. PICK i \in 1..n : ns[i].kind = "resume" /\ ns[i].gen = g
      BY <1>5, <2>2 DEF Runs
    <3> QED BY <1>1, <1>2, <3>1
  <2> QED BY <2>1, <2>2
<1>6. ASSUME NEW i \in 1..(Len(ms) - 1), ms[i + 1].kind = "resume"
      PROVE  UseOf(ms, hs, i).gen = ms[i + 1].gen
  <2>1. i \in 1..n /\ ms[i] = ns[i] /\ (i \in 1..(n - 1) \/ i = n)
    BY <1>1, <1>2
  <2>2. ns[i].kind # "fn" => hs[ns[i].gen] = gs[ns[i].gen]
    <3>1. ns[i].kind \in {"fn", "resume"}
      BY <2>1, StackIs
    <3> QED BY <1>3, <2>1, <3>1
  <2>3. UseOf(ms, hs, i) = UseOf(ns, gs, i)
    BY <2>1, <2>2 DEF UseOf
  <2>4. CASE i = n
    BY <1>2, <1>6, <2>3, <2>4
  <2>5. CASE i \in 1..(n - 1)
    <3>1. i + 1 \in 1..n /\ ms[i + 1] = ns[i + 1]
      BY <1>1, <1>2, <2>5
    <3> QED BY <1>6, <2>3, <2>5, <3>1 DEF Runs
  <2> QED BY <2>1, <2>4, <2>5
<1>7. Runs(ms, hs)
  BY <1>4, <1>5, <1>6 DEF Runs
<1> QED BY <1>7 DEF ms

LEMMA WindowsPush ==
  ASSUME NEW ns, NEW gs, NEW hs, Stacks(ns), NEW a \in Activations,
         NEW ts \in Seq(TryFrames), NEW us \in Seq(TryFrames), Windows(ns, ts, gs),
         a.depth = Len(ts), Len(ts) <= Len(us), \A k \in 1..Len(ts) : us[k] = ts[k],
         \A i \in 1..Len(ns) : LevelsOf(ns[i], hs) = LevelsOf(ns[i], gs),
         a.kind = "fn" => ns[Len(ns)].kind = "fn",
         Window(a, us, Len(ts), Len(us), LevelsOf(a, hs)),
         Unwinding(Append(ns, a), us, Len(ns) + 1, Len(ts), Len(us))
  PROVE  Windows(Append(ns, a), us, hs)
<1> DEFINE n == Len(ns)
           ms == Append(ns, a)
<1>1. /\ n \in Nat /\ n > 0 /\ n \in 1..n /\ ns \in Seq(Activations) /\ Shape(ns)
      /\ Len(ts) \in Nat /\ Len(us) \in Nat /\ \A i \in 1..n : ns[i].depth \in Nat
  BY StackIs, LenNat DEF Stacks
<1>2. /\ ms \in Seq(Activations) /\ Len(ms) = n + 1
      /\ \A i \in 1..n : ms[i] = ns[i]
      /\ ms[n + 1] = a
  BY <1>1, PushSeq
<1> HIDE DEF ms
<1>3. \A i \in 1..n : ns[i].depth <= Len(ts)
  BY DEF Windows
<1>4. ASSUME NEW i \in 1..Len(ms), NEW j \in 1..Len(ms), i <= j PROVE ms[i].depth <= ms[j].depth
  <2>1. CASE j = n + 1
    <3>1. ms[j].depth = Len(ts) /\ (i = n + 1 \/ i \in 1..n)
      BY <1>1, <1>2, <2>1
    <3> QED BY <1>1, <1>2, <1>3, <2>1, <3>1
  <2>2. CASE j # n + 1
    <3>1. i \in 1..n /\ j \in 1..n
      BY <1>1, <1>2, <1>4, <2>2
    <3> QED BY <1>2, <1>4, <3>1 DEF Windows
  <2> QED BY <2>1, <2>2
<1>5. \A i \in 1..Len(ms) : ms[i].depth <= Len(us)
  BY <1>1, <1>2, <1>3
<1>6. ASSUME NEW i \in 1..Len(ms)
      PROVE  /\ Window(ms[i], us, ms[i].depth, EndOf(ms, us, i), LevelsOf(ms[i], hs))
             /\ Unwinding(ms, us, i, ms[i].depth, EndOf(ms, us, i))
  <2>1. CASE i = n + 1
    <3>1. EndOf(ms, us, i) = Len(us)
      BY <1>2, <2>1 DEF EndOf
    <3> QED BY <1>2, <2>1, <3>1 DEF ms
  <2>2. CASE i # n + 1
    <3>1. i \in 1..n /\ ms[i] = ns[i] /\ i # Len(ms)
      BY <1>1, <1>2, <2>2
    <3> DEFINE b == ns[i].depth
               e == EndOf(ns, ts, i)
    <3>2. EndOf(ms, us, i) = e
      <4>1. CASE i = n
        BY <1>1, <1>2, <3>1, <4>1 DEF EndOf
      <4>2. CASE i # n
        <5>1. i + 1 \in 1..n
          BY <1>1, <3>1, <4>2
        <5> QED BY <1>2, <3>1, <4>2, <5>1 DEF EndOf
      <4> QED BY <4>1, <4>2
    <3>3. e \in Nat /\ e <= Len(ts) /\ b \in Nat
      <4>1. i # n => i + 1 \in 1..n
        BY <1>1, <3>1
      <4> QED BY <1>1, <1>3, <3>1, <4>1 DEF EndOf
    <3>4. /\ Window(ns[i], ts, b, e, LevelsOf(ns[i], gs))
          /\ Unwinding(ns, ts, i, b, e)
      BY <3>1 DEF Windows
    <3> HIDE DEF b, e
    <3>5. \A k \in (b + 1)..e : us[k] = ts[k]
      BY <1>1, <3>3
    <3>6. Window(ns[i], us, b, e, LevelsOf(ns[i], hs))
      <4>1. LevelsOf(ns[i], hs) = LevelsOf(ns[i], gs)
        BY <3>1
      <4>2. {us[k].level : k \in (b + 1)..e} = {ts[k].level : k \in (b + 1)..e}
        BY <3>5
      <4> QED BY <3>4, <3>5, <4>1, <4>2 DEF Window
    <3>7. Unwinding(ms, us, i, b, e)
      <4>1. ASSUME ms[i].kind = "resume", NEW j \in 1..Len(ms), ms[j].kind = "fn" PROVE j \in 1..n
        <5>1. j = n + 1 => ns[n].kind = "fn"
          BY <1>2, <4>1
        <5>2. j = n + 1 => ns[i].kind = "fn"
          BY <1>1, <3>1, <5>1 DEF Shape
        <5> QED BY <1>1, <1>2, <3>1, <4>1, <5>2
      <4>2. \A k \in (b + 1)..e : us[k].unwind = ts[k].unwind
        BY <3>5
      <4>3. ns[i].kind = ms[i].kind
        BY <3>1
      <4> QED BY <1>2, <3>4, <4>1, <4>2, <4>3 DEF Unwinding
    <3> QED BY <3>1, <3>2, <3>6, <3>7 DEF b
  <2> QED BY <2>1, <2>2
<1>7. ms[1].depth = 0
  BY <1>1, <1>2 DEF Windows
<1>8. Windows(ms, us, hs)
  BY <1>4, <1>5, <1>6, <1>7 DEF Windows
<1> QED BY <1>8 DEF ms

LEMMA StacksCut ==
  ASSUME NEW ns, Stacks(ns), NEW n \in 1..Len(ns)
  PROVE  Stacks(SubSeq(ns, 1, n))
<1> DEFINE ms == SubSeq(ns, 1, n)
<1>1. Len(ns) \in Nat /\ n \in Nat /\ n > 0 /\ n \in 0..Len(ns) /\ ns \in Seq(Activations) /\ MaxCalls \in Nat
  BY StackIs, BoundsAssumption DEF Stacks
<1>2. ms \in Seq(Activations) /\ Len(ms) = n /\ \A i \in 1..n : ms[i] = ns[i]
  BY <1>1, CutSeq
<1> HIDE DEF ms
<1>3. \A i \in 1..n : i \in 1..Len(ns)
  BY <1>1
<1>4. 1 \in 1..n
  BY <1>1
<1>5. Shape(ms)
  BY <1>2, <1>3, <1>4 DEF Stacks, Shape
<1>6. n \in 1..MaxCalls
  BY <1>1 DEF Stacks
<1> QED BY <1>2, <1>5, <1>6 DEF Stacks, ms

\* What runs in hs are the n frames below.
Remains(ns, gs, hs, n) ==
  /\ \A g \in Gens : hs[g].stage = "running" <=>
       \E i \in 1..n : ns[i].kind = "resume" /\ ns[i].gen = g
  /\ \A i \in 1..(n - 1) : ns[i].kind = "resume" => hs[ns[i].gen] = gs[ns[i].gen]

LEMMA RunsCut ==
  ASSUME NEW ns, NEW gs, NEW hs, Stacks(ns), Runs(ns, gs), NEW n \in 1..Len(ns),
         Remains(ns, gs, hs, n)
  PROVE  Runs(SubSeq(ns, 1, n), hs)
<1> DEFINE ms == SubSeq(ns, 1, n)
<1>1. Len(ns) \in Nat /\ n \in Nat /\ n > 0 /\ n \in 0..Len(ns) /\ ns \in Seq(Activations) /\ Shape(ns)
  BY StackIs DEF Stacks
<1>2. ms \in Seq(Activations) /\ Len(ms) = n /\ \A i \in 1..n : ms[i] = ns[i]
  BY <1>1, CutSeq
<1> HIDE DEF ms
<1>3. \A i \in 1..n : i \in 1..Len(ns)
  BY <1>1
<1> USE DEF Remains
<1>4. \A i \in 1..n : ms[i].kind = "resume" => hs[ms[i].gen].stage = "running"
  BY <1>1, <1>2, <1>3 DEF Shape
<1>5. \A g \in Gens : hs[g].stage = "running" =>
       \E i \in 1..n : ms[i].kind = "resume" /\ ms[i].gen = g
  BY <1>2
<1>6. ASSUME NEW i \in 1..(n - 1), ms[i + 1].kind = "resume"
      PROVE  UseOf(ms, hs, i).gen = ms[i + 1].gen
  <2>1. i \in 1..n /\ i + 1 \in 1..n /\ ms[i] = ns[i] /\ ms[i + 1] = ns[i + 1] /\ i \in 1..(Len(ns) - 1)
    BY <1>1, <1>2
  <2>2. ns[i].kind # "fn" => hs[ns[i].gen] = gs[ns[i].gen]
    <3>1. ns[i].kind \in {"fn", "resume"}
      BY <1>3, <2>1, StackIs
    <3> QED BY <3>1
  <2>3. UseOf(ms, hs, i) = UseOf(ns, gs, i)
    BY <2>1, <2>2 DEF UseOf
  <2> QED BY <1>6, <2>1, <2>3 DEF Runs
<1>7. Runs(ms, hs)
  BY <1>2, <1>4, <1>5, <1>6 DEF Runs
<1> QED BY <1>7 DEF ms

LEMMA WindowsCut ==
  ASSUME NEW ns, NEW gs, NEW hs, Stacks(ns), NEW n \in 1..Len(ns),
         NEW ts \in Seq(TryFrames), Windows(ns, ts, gs),
         \A i \in 1..n : LevelsOf(ns[i], hs) = LevelsOf(ns[i], gs)
  PROVE  /\ Windows(SubSeq(ns, 1, n), SubSeq(ts, 1, EndOf(ns, ts, n)), hs)
         /\ SubSeq(ts, 1, EndOf(ns, ts, n)) \in Seq(TryFrames)
         /\ Len(SubSeq(ts, 1, EndOf(ns, ts, n))) = EndOf(ns, ts, n)
<1> DEFINE ms == SubSeq(ns, 1, n)
           L == EndOf(ns, ts, n)
           us == SubSeq(ts, 1, L)
<1>1. /\ Len(ns) \in Nat /\ n \in Nat /\ n > 0 /\ n \in 0..Len(ns) /\ ns \in Seq(Activations)
      /\ Shape(ns) /\ Len(ts) \in Nat /\ \A i \in 1..Len(ns) : ns[i].depth \in Nat
  BY StackIs, LenNat DEF Stacks
<1>2. ms \in Seq(Activations) /\ Len(ms) = n /\ \A i \in 1..n : ms[i] = ns[i]
  BY <1>1, CutSeq
<1>3. L \in 0..Len(ts)
  <2>1. n # Len(ns) => n + 1 \in 1..Len(ns)
    BY <1>1
  <2> QED BY <1>1, <2>1 DEF EndOf, Windows
<1>4. \A i \in 1..n : i \in 1..Len(ns)
  BY <1>1
<1> HIDE DEF ms, L
<1>5. us \in Seq(TryFrames) /\ Len(us) = L /\ \A k \in 1..L : us[k] = ts[k]
  BY <1>3, CutSeq
<1> HIDE DEF us
<1>6. \A i \in 1..n : ns[i].depth <= L
  <2> SUFFICES ASSUME NEW i \in 1..n PROVE ns[i].depth <= L
    OBVIOUS
  <2>1. CASE n = Len(ns)
    BY <1>4, <2>1 DEF L, EndOf, Windows
  <2>2. CASE n # Len(ns)
    <3>1. n + 1 \in 1..Len(ns) /\ i <= n + 1 /\ L = ns[n + 1].depth
      BY <1>1, <2>2 DEF L, EndOf
    <3> QED BY <1>4, <3>1 DEF Windows
  <2> QED BY <2>1, <2>2
<1>7. ASSUME NEW i \in 1..n
      PROVE  /\ Window(ms[i], us, ms[i].depth, EndOf(ms, us, i), LevelsOf(ms[i], hs))
             /\ Unwinding(ms, us, i, ms[i].depth, EndOf(ms, us, i))
  <2>0. i \in 1..Len(ns) /\ ms[i] = ns[i]
    BY <1>2, <1>4
  <2> DEFINE b == ns[i].depth
             e == EndOf(ns, ts, i)
  <2>1. EndOf(ms, us, i) = e
    <3>1. CASE i = n
      BY <1>2, <1>5, <3>1 DEF EndOf, L
    <3>2. CASE i # n
      <4>1. i + 1 \in 1..n /\ i # Len(ns)
        BY <1>1, <3>2
      <4> QED BY <1>2, <3>2, <4>1 DEF EndOf
    <3> QED BY <3>1, <3>2
  <2>2. e <= L /\ e \in Nat /\ b \in Nat
    <3>1. CASE i = n
      BY <1>1, <1>3, <2>0, <3>1 DEF L
    <3>2. CASE i # n
      <4>1. i + 1 \in 1..n /\ i # Len(ns) /\ i + 1 \in 1..Len(ns)
        BY <1>1, <3>2
      <4> QED BY <1>1, <1>6, <2>0, <4>1 DEF EndOf
    <3> QED BY <3>1, <3>2
  <2>3. /\ Window(ns[i], ts, b, e, LevelsOf(ns[i], gs))
        /\ Unwinding(ns, ts, i, b, e)
    BY <2>0 DEF Windows
  <2> HIDE DEF b, e
  <2>4. \A k \in (b + 1)..e : us[k] = ts[k]
    BY <1>3, <1>5, <2>2
  <2>5. Window(ns[i], us, b, e, LevelsOf(ns[i], hs))
    <3>1. LevelsOf(ns[i], hs) = LevelsOf(ns[i], gs)
      OBVIOUS
    <3> QED BY <2>3, <2>4, <3>1 DEF Window
  <2>6. Unwinding(ms, us, i, b, e)
    BY <1>2, <1>4, <2>0, <2>3, <2>4 DEF Unwinding
  <2> QED BY <2>0, <2>1, <2>5, <2>6 DEF b
<1>8. ms[1].depth = 0
  BY <1>1, <1>2 DEF Windows
<1>9. \A i, j \in 1..n : i <= j => ms[i].depth <= ms[j].depth
  BY <1>2, <1>4 DEF Windows
<1>10. Windows(ms, us, hs)
  BY <1>2, <1>5, <1>6, <1>7, <1>8, <1>9 DEF Windows
<1> QED BY <1>5, <1>10 DEF ms, us, L

\* The position of an index among those of a set numbers the set from 1.
LEMMA Numbered ==
  ASSUME NEW I, IsFiniteSet(I), I \subseteq Nat
  PROVE  \A n \in 1..Cardinality(I) : \E i \in I : Cardinality({j \in I : j <= i}) = n
<1> DEFINE B(i) == {j \in I : j <= i}
           m == Cardinality(I)
           g == [i \in I |-> Cardinality(B(i))]
<1>1. m \in Nat
  BY FS_CardinalityType
<1>2. \A i \in I : IsFiniteSet(B(i)) /\ Cardinality(B(i)) \in Nat /\ Cardinality(B(i)) <= m
  <2> SUFFICES ASSUME NEW i \in I
               PROVE  IsFiniteSet(B(i)) /\ Cardinality(B(i)) \in Nat /\ Cardinality(B(i)) <= m
    OBVIOUS
  <2>1. B(i) \in SUBSET I
    OBVIOUS
  <2>2. IsFiniteSet(B(i)) /\ Cardinality(B(i)) <= m
    BY <2>1, FS_Subset
  <2> QED BY <2>2, FS_CardinalityType
<1>3. \A i \in I : Cardinality(B(i)) # 0
  <2> SUFFICES ASSUME NEW i \in I PROVE Cardinality(B(i)) # 0
    OBVIOUS
  <2>1. i \in B(i)
    OBVIOUS
  <2>2. B(i) # {}
    BY <2>1
  <2> HIDE DEF B
  <2> QED BY <1>2, <2>2, FS_EmptySet
<1>4. \A i \in I : g[i] \in 1..m
  BY <1>1, <1>2, <1>3
<1>5. ASSUME NEW i \in I, NEW k \in I, i < k PROVE g[i] # g[k]
  <2>0. i \in Nat /\ k \in Nat
    OBVIOUS
  <2>1. B(i) \in SUBSET B(k)
    <3>1. \A j \in I : j \in Nat
      OBVIOUS
    <3>2. \A j \in I : j <= i => j <= k
      BY <1>5, <2>0, <3>1
    <3> QED BY <3>2
  <2>2. k \in B(k) /\ k \notin B(i)
    <3>1. k <= k /\ ~(k <= i)
      BY <1>5, <2>0
    <3> QED BY <3>1
  <2>3. B(i) # B(k)
    BY <2>2
  <2> HIDE DEF B
  <2>4. Cardinality(B(i)) # Cardinality(B(k))
    BY <1>2, <2>1, <2>3, FS_Subset
  <2> QED BY <2>4
<1>6. \A i, k \in I : g[i] = g[k] => i = k
  <2> SUFFICES ASSUME NEW i \in I, NEW k \in I, g[i] = g[k] PROVE i = k
    OBVIOUS
  <2> HIDE DEF g
  <2>1. i \in Nat /\ k \in Nat
    OBVIOUS
  <2> QED BY <1>5, <2>1
<1>7. g \in [I -> 1..m] /\ DOMAIN g = I
  BY <1>4
<1> HIDE DEF g, m
<1>8. g \in Injection(I, 1..m)
  BY <1>6, <1>7 DEF Injection, IsInjective
<1>9. IsFiniteSet(1..m) /\ Cardinality(1..m) = m
  <2>1. 1 \in Int /\ m \in Int
    BY <1>1
  <2>2. IsFiniteSet(1..m) /\ Cardinality(1..m) = IF 1 > m THEN 0 ELSE m - 1 + 1
    BY <2>1, FS_Interval
  <2> QED BY <1>1, <2>2
<1>10. Cardinality(I) = Cardinality(1..m)
  BY <1>9 DEF m
<1>11. g \in Surjection(I, 1..m)
  BY <1>8, <1>9, <1>10, FS_Injection
<1>12. \A n \in 1..m : \E i \in I : g[i] = n
  BY <1>11 DEF Surjection
<1> QED BY <1>12 DEF g, m

-----------------------------------------------------------------------------
(* One window                                                              *)

\* A set of numbers in ascending order.
Nth(I, n) == CHOOSE d \in I : Cardinality({e \in I : e <= d}) = n

LEMMA Ascending ==
  ASSUME NEW I, IsFiniteSet(I), I \subseteq Nat
  PROVE  /\ \A n \in 1..Cardinality(I) : Nth(I, n) \in I
         /\ \A m, n \in 1..Cardinality(I) : m < n => Nth(I, m) < Nth(I, n)
         /\ \A d \in I : \E n \in 1..Cardinality(I) : Nth(I, n) = d
<1> DEFINE B(d) == {e \in I : e <= d}
           C == Cardinality(I)
<1>1. C \in Nat
  BY FS_CardinalityType
<1>2. \A n \in 1..C : \E d \in I : Cardinality(B(d)) = n
  BY Numbered
<1>3. \A n \in 1..C : Nth(I, n) \in I /\ Cardinality(B(Nth(I, n))) = n
  <2> SUFFICES ASSUME NEW n \in 1..C PROVE Nth(I, n) \in I /\ Cardinality(B(Nth(I, n))) = n
    OBVIOUS
  <2>1. \E d \in I : Cardinality({e \in I : e <= d}) = n
    BY <1>2
  <2> HIDE DEF C
  <2> QED BY <2>1 DEF Nth
<1>4. \A d \in I : IsFiniteSet(B(d)) /\ Cardinality(B(d)) \in 1..C
  <2> SUFFICES ASSUME NEW d \in I PROVE IsFiniteSet(B(d)) /\ Cardinality(B(d)) \in 1..C
    OBVIOUS
  <2>1. B(d) \in SUBSET I /\ d \in B(d)
    OBVIOUS
  <2> DEFINE X == B(d)
  <2> HIDE DEF X
  <2>2. X \in SUBSET I /\ X # {}
    BY <2>1 DEF X
  <2>3. IsFiniteSet(X) /\ Cardinality(X) <= C
    BY <2>2, FS_Subset
  <2>4. Cardinality(X) \in Nat /\ Cardinality(X) # 0
    BY <2>2, <2>3, FS_CardinalityType, FS_EmptySet
  <2>5. Cardinality(X) \in 1..C
    BY <1>1, <2>3, <2>4
  <2> QED BY <2>3, <2>5 DEF X
<1>5. ASSUME NEW d \in I, NEW k \in I, d < k PROVE Cardinality(B(d)) < Cardinality(B(k))
  <2>1. d \in Nat /\ k \in Nat /\ \A j \in I : j \in Nat
    OBVIOUS
  <2>2. B(d) \in SUBSET B(k)
    <3>1. \A j \in I : j <= d => j <= k
      BY <1>5, <2>1
    <3> QED BY <3>1
  <2>3. k \in B(k) /\ k \notin B(d)
    BY <1>5, <2>1
  <2> DEFINE X == B(d)
             Y == B(k)
  <2>4. X \in SUBSET Y /\ X # Y /\ IsFiniteSet(Y) /\ IsFiniteSet(X)
    BY <1>4, <2>2, <2>3
  <2> HIDE DEF X, Y
  <2>5. Cardinality(X) <= Cardinality(Y) /\ Cardinality(X) # Cardinality(Y)
    BY <2>4, FS_Subset
  <2>6. Cardinality(X) \in Nat /\ Cardinality(Y) \in Nat
    BY <2>4, FS_CardinalityType
  <2>7. Cardinality(X) < Cardinality(Y)
    BY <2>5, <2>6
  <2> QED BY <2>7 DEF X, Y
<1> DEFINE c == [d \in I |-> Cardinality(B(d))]
<1>6. \A d \in I : c[d] \in 1..C
  BY <1>4
<1>7. \A d, k \in I : d < k => c[d] < c[k]
  BY <1>5
<1>8. \A n \in 1..C : Nth(I, n) \in I /\ c[Nth(I, n)] = n
  BY <1>3
<1> HIDE DEF c, C
<1>9. ASSUME NEW m \in 1..C, NEW n \in 1..C, m < n PROVE Nth(I, m) < Nth(I, n)
  <2>1. Nth(I, m) \in I /\ Nth(I, n) \in I /\ c[Nth(I, m)] = m /\ c[Nth(I, n)] = n
    BY <1>8
  <2>2. Nth(I, m) \in Nat /\ Nth(I, n) \in Nat /\ m \in Nat /\ n \in Nat
    <3>1. \A d \in I : d \in Nat
      OBVIOUS
    <3>2. m \in Nat /\ n \in Nat
      BY <1>1
    <3> QED BY <2>1, <3>1, <3>2
  <2>3. Nth(I, m) # Nth(I, n)
    BY <1>9, <2>1, <2>2
  <2>4. ~(Nth(I, n) < Nth(I, m))
    BY <1>7, <1>9, <2>1, <2>2
  <2> QED BY <2>2, <2>3, <2>4
<1>10. ASSUME NEW d \in I PROVE \E n \in 1..C : Nth(I, n) = d
  <2>1. c[d] \in 1..C
    BY <1>6
  <2>2. Nth(I, c[d]) \in I /\ c[Nth(I, c[d])] = c[d]
    BY <1>8, <2>1
  <2>3. d \in Nat /\ Nth(I, c[d]) \in Nat
    BY <2>2
  <2>4. Nth(I, c[d]) = d
    BY <1>1, <1>6, <1>7, <2>2, <2>3
  <2> QED BY <2>1, <2>4
<1> QED BY <1>8, <1>9, <1>10 DEF C

LEMMA TriesAre ==
  ASSUME NEW f \in GenFrames, Len(f.blocks) <= MaxDepth
  PROVE  /\ TriesOf(f) \subseteq 1..Len(f.blocks) /\ Len(f.blocks) \in Nat
         /\ TriesOf(f) \subseteq Depths /\ TriesOf(f) \subseteq Nat
         /\ IsFiniteSet(TriesOf(f)) /\ Cardinality(TriesOf(f)) \in Nat
<1>1. f.blocks \in Seq(Blocks) /\ Len(f.blocks) \in Nat /\ DOMAIN f.blocks = 1..Len(f.blocks)
  BY FrameFields, LenNat
<1>2. TriesOf(f) \subseteq 1..Len(f.blocks)
  BY <1>1 DEF TriesOf
<1>3. IsFiniteSet(TriesOf(f)) /\ Cardinality(TriesOf(f)) \in 0..Len(f.blocks)
  BY <1>1, <1>2, Within
<1>4. 1..Len(f.blocks) \subseteq Depths
  BY <1>1, DepthsFinite DEF Depths
<1> QED BY <1>1, <1>2, <1>3, <1>4

\* A window is as long as there are tries open.
LEMMA WindowLength ==
  ASSUME NEW a, NEW ts \in Seq(TryFrames), NEW b \in Nat, NEW e \in Nat, b <= e, e <= Len(ts),
         NEW lv, Window(a, ts, b, e, lv)
  PROVE  IsFiniteSet(lv) /\ Cardinality(lv) = e - b
<1> DEFINE I == (b + 1)..e
           f == [k \in I |-> ts[k].level]
<1>1. IsFiniteSet(I) /\ Cardinality(I) = e - b
  <2>1. b + 1 \in Int /\ e \in Int
    OBVIOUS
  <2>2. IsFiniteSet(I) /\ Cardinality(I) = IF b + 1 > e THEN 0 ELSE e - (b + 1) + 1
    BY <2>1, FS_Interval
  <2> QED BY <2>2
<1>2. \A k \in I : ts[k].level \in Nat
  <2>1. Len(ts) \in Nat
    BY LenNat
  <2>2. \A k \in I : ts[k] \in TryFrames
    BY <2>1
  <2> QED BY <2>2 DEF TryFrames
<1>3. f \in [I -> lv] /\ \A l \in lv : \E k \in I : f[k] = l
  BY DEF Window
<1>4. \A k, l \in I : f[k] = f[l] => k = l
  <2>1. \A k, l \in I : k < l => ts[k].level < ts[l].level
    BY DEF Window
  <2> QED BY <1>2, <2>1
<1> HIDE DEF I, f
<1>5. f \in Bijection(I, lv)
  BY <1>3, <1>4 DEF Bijection, Injection, Surjection, IsInjective
<1>6. ExistsBijection(I, lv)
  BY <1>5 DEF ExistsBijection
<1> QED BY <1>1, <1>6, FS_Bijection

\* A try is entered.
LEMMA WindowPush ==
  ASSUME NEW a, NEW ts \in Seq(TryFrames), NEW b \in Nat, b <= Len(ts), NEW lv, NEW t \in TryFrames,
         Window(a, ts, b, Len(ts), lv), t.id = a.id, \A l \in lv : l < t.level
  PROVE  Window(a, Append(ts, t), b, Len(ts) + 1, lv \cup {t.level})
<1> DEFINE n == Len(ts)
           us == Append(ts, t)
<1>1. n \in Nat
  BY LenNat
<1>2. (\A k \in 1..n : us[k] = ts[k]) /\ us[n + 1] = t
  BY PushSeq
<1> HIDE DEF us
<1>3. \A k \in (b + 1)..n : us[k] = ts[k] /\ k \in (b + 1)..(n + 1)
  BY <1>1, <1>2
<1>4. n + 1 \in (b + 1)..(n + 1) /\ \A k \in (b + 1)..(n + 1) : k = n + 1 \/ k \in (b + 1)..n
  BY <1>1
<1>5. {ts[k].level : k \in (b + 1)..n} = lv
  BY DEF Window
<1>6. {us[k].level : k \in (b + 1)..(n + 1)} = lv \cup {t.level}
  BY <1>2, <1>3, <1>4, <1>5
<1>7. ASSUME NEW k \in (b + 1)..(n + 1)
      PROVE  /\ us[k].id = a.id
             /\ \A l \in (b + 1)..(n + 1) : k < l => us[k].level < us[l].level
  <2>1. CASE k = n + 1
    BY <1>1, <1>2, <2>1
  <2>2. CASE k \in (b + 1)..n
    <3>1. ts[k].level < t.level
      BY <1>5, <2>2
    <3>2. us[k].id = a.id
      BY <1>3, <2>2 DEF Window
    <3>3. \A l \in (b + 1)..n : k < l => us[k].level < us[l].level
      BY <1>3, <2>2 DEF Window
    <3>4. us[k].level < us[n + 1].level
      BY <1>2, <1>3, <2>2, <3>1
    <3> QED BY <1>4, <3>2, <3>3, <3>4
  <2> QED BY <1>4, <2>1, <2>2
<1> QED BY <1>6, <1>7 DEF Window, us

\* The innermost try is left.
LEMMA WindowPop ==
  ASSUME NEW a, NEW ts \in Seq(TryFrames), NEW b \in Nat, b < Len(ts), NEW lv,
         Window(a, ts, b, Len(ts), lv)
  PROVE  /\ ts # <<>> /\ Front(ts) \in Seq(TryFrames) /\ Len(Front(ts)) = Len(ts) - 1
         /\ \A k \in 1..(Len(ts) - 1) : Front(ts)[k] = ts[k]
         /\ Last(ts) = ts[Len(ts)] /\ Last(ts).level \in lv /\ Last(ts).id = a.id
         /\ \A l \in lv : l <= Last(ts).level
         /\ Window(a, Front(ts), b, Len(ts) - 1, lv \ {Last(ts).level})
<1> DEFINE n == Len(ts)
           us == Front(ts)
           t == Last(ts)
<1>1. n \in Nat /\ n > 0 /\ ts # <<>>
  BY LenNat, EmptySeq
<1>2. us = SubSeq(ts, 1, n - 1) /\ n - 1 \in 0..n /\ t = ts[n]
  BY <1>1, FrontSeq
<1>3. us \in Seq(TryFrames) /\ Len(us) = n - 1 /\ \A k \in 1..(n - 1) : us[k] = ts[k]
  BY <1>2, CutSeq
<1>4. n \in (b + 1)..n
  BY <1>1
<1>5. {ts[k].level : k \in (b + 1)..n} = lv
  BY DEF Window
<1>6. t.level \in lv /\ t.id = a.id
  BY <1>2, <1>4, <1>5 DEF Window
<1>7. \A k \in (b + 1)..n : ts[k].level \in Nat
  <2>1. \A k \in (b + 1)..n : ts[k] \in TryFrames
    BY <1>1
  <2> QED BY <2>1 DEF TryFrames
<1>8. \A k \in (b + 1)..(n - 1) : k \in (b + 1)..n /\ k \in 1..(n - 1) /\ k < n /\ us[k] = ts[k]
  BY <1>1, <1>3
<1>9. \A k \in (b + 1)..(n - 1) : ts[k].level < ts[n].level
  BY <1>4, <1>8 DEF Window
<1>10. \A l \in lv : l <= t.level
  <2> SUFFICES ASSUME NEW k \in (b + 1)..n PROVE ts[k].level <= ts[n].level
    BY <1>2, <1>5
  <2>1. k = n \/ k \in (b + 1)..(n - 1)
    BY <1>1
  <2>2. ts[k].level \in Nat /\ ts[n].level \in Nat
    BY <1>4, <1>7
  <2> QED BY <1>9, <2>1, <2>2
<1> HIDE DEF us, t
<1>11. {us[k].level : k \in (b + 1)..(n - 1)} = lv \ {t.level}
  <2>1. ASSUME NEW k \in (b + 1)..(n - 1) PROVE us[k].level \in lv \ {t.level}
    <3>1. ts[k].level \in lv /\ ts[k].level \in Nat /\ ts[n].level \in Nat
      BY <1>4, <1>5, <1>7, <1>8
    <3> QED BY <1>2, <1>8, <1>9, <3>1
  <2>2. ASSUME NEW l \in lv, l # t.level PROVE \E k \in (b + 1)..(n - 1) : us[k].level = l
    <3>1. PICK k \in (b + 1)..n : ts[k].level = l
      BY <1>5
    <3>2. k # n
      BY <1>2, <2>2, <3>1
    <3>3. k \in (b + 1)..(n - 1)
      BY <1>1, <3>2
    <3> QED BY <1>8, <3>1, <3>3
  <2> QED BY <2>1, <2>2
<1>12. \A k \in (b + 1)..(n - 1) :
         /\ us[k].id = a.id
         /\ \A l \in (b + 1)..(n - 1) : k < l => us[k].level < us[l].level
  BY <1>8 DEF Window
<1>13. Window(a, us, b, n - 1, lv \ {t.level})
  BY <1>11, <1>12 DEF Window
<1> QED BY <1>1, <1>2, <1>3, <1>6, <1>10, <1>13 DEF us, t

\* The native frame that the next jump goes to is there, once.
LEMMA LastWindow ==
  ASSUME NEW ns, NEW gs, Stacks(ns), NEW ts \in Seq(TryFrames), Windows(ns, ts, gs), ts # <<>>
  PROVE  \E n \in 1..Len(ns) :
           /\ ns[n].depth < Len(ts) /\ EndOf(ns, ts, n) = Len(ts)
           /\ {i \in DOMAIN ns : ns[i].id = Last(ts).id} = {n}
           /\ Last(ts).level \in LevelsOf(ns[n], gs)
           /\ ns[n].kind = "fn" => Last(ts).unwind = n - 1
           /\ ns[n].kind = "resume" => \A j \in 1..Len(ns) : ns[j].kind = "fn" => j <= Last(ts).unwind
<1> DEFINE L == Len(ts)
           T == {i \in 1..Len(ns) : ns[i].depth < L}
<1>1. L \in Nat /\ L > 0 /\ Last(ts) = ts[L]
  BY LenNat, EmptySeq, FrontSeq
<1>2. /\ Len(ns) \in Nat /\ Len(ns) > 0 /\ Shape(ns) /\ ns \in Seq(Activations)
      /\ \A i \in 1..Len(ns) : ns[i].depth \in Nat
  BY StackIs DEF Stacks
<1>3. 1 \in T /\ T \subseteq 0..Len(ns)
  BY <1>1, <1>2 DEF Windows
<1>4. PICK n \in T : \A i \in T : i <= n
  <2> HIDE DEF T
  <2> QED BY <1>2, <1>3, Greatest
<1>5. n \in 1..Len(ns) /\ ns[n].depth < L
  OBVIOUS
<1>6. EndOf(ns, ts, n) = L
  <2>1. CASE n = Len(ns)
    BY <2>1 DEF EndOf
  <2>2. CASE n # Len(ns)
    <3>1. n + 1 \in 1..Len(ns) /\ ~(n + 1 <= n)
      BY <1>2, <1>5, <2>2
    <3>2. n + 1 \notin T
      BY <1>4, <3>1
    <3>3. ~(ns[n + 1].depth < L) /\ ns[n + 1].depth <= L
      BY <3>1, <3>2 DEF Windows
    <3>4. ns[n + 1].depth = L
      BY <1>1, <1>2, <3>1, <3>3
    <3> QED BY <2>2, <3>4 DEF EndOf
  <2> QED BY <2>1, <2>2
<1>7. L \in (ns[n].depth + 1)..L
  BY <1>1, <1>2, <1>5
<1>8. /\ Window(ns[n], ts, ns[n].depth, L, LevelsOf(ns[n], gs))
      /\ Unwinding(ns, ts, n, ns[n].depth, L)
  BY <1>5, <1>6 DEF Windows
<1>9. Last(ts).level \in LevelsOf(ns[n], gs) /\ Last(ts).id = ns[n].id
  BY <1>1, <1>7, <1>8 DEF Window
<1>10. {i \in DOMAIN ns : ns[i].id = Last(ts).id} = {n}
  <2>1. DOMAIN ns = 1..Len(ns)
    BY <1>2
  <2> QED BY <1>2, <1>5, <1>9, <2>1 DEF Shape
<1>11. ns[n].kind = "fn" => Last(ts).unwind = n - 1
  BY <1>1, <1>7, <1>8 DEF Unwinding
<1>12. ns[n].kind = "resume" => \A j \in 1..Len(ns) : ns[j].kind = "fn" => j <= Last(ts).unwind
  BY <1>1, <1>7, <1>8 DEF Unwinding
<1> QED BY <1>5, <1>6, <1>9, <1>10, <1>11, <1>12

\* The functions of the native stack are numbered from below.
LEMMA RankIs ==
  ASSUME NEW ns, Stacks(ns)
  PROVE  /\ \A i \in 1..Len(ns) : Rank(ns, i) \in Nat
         /\ \A i \in 1..Len(ns) : ns[i].kind = "fn" => Rank(ns, i) = i
         /\ \A i, j \in 1..Len(ns) : i <= j => Rank(ns, i) <= Rank(ns, j)
<1> DEFINE F(i) == {j \in 1..i : ns[j].kind = "fn"}
<1>1. Len(ns) \in Nat
  BY StackIs
<1>2. \A i \in 1..Len(ns) : IsFiniteSet(F(i)) /\ Cardinality(F(i)) \in Nat
  <2> SUFFICES ASSUME NEW i \in 1..Len(ns) PROVE IsFiniteSet(F(i)) /\ Cardinality(F(i)) \in Nat
    OBVIOUS
  <2>1. i \in Nat /\ F(i) \subseteq 1..i
    BY <1>1
  <2> HIDE DEF F
  <2>2. IsFiniteSet(F(i)) /\ Cardinality(F(i)) \in 0..i
    BY <2>1, Within
  <2> QED BY <2>1, <2>2
<1>3. \A i \in 1..Len(ns) : Rank(ns, i) = Cardinality(F(i))
  BY DEF Rank
<1>4. ASSUME NEW i \in 1..Len(ns), ns[i].kind = "fn" PROVE Rank(ns, i) = i
  <2>1. i \in Nat
    BY <1>1
  <2>2. F(i) = 1..i
    BY <1>1, <1>4 DEF Stacks, Shape
  <2>3. Cardinality(1..i) = i
    BY <2>1, UpTo
  <2> QED BY <1>3, <2>2, <2>3
<1>5. ASSUME NEW i \in 1..Len(ns), NEW j \in 1..Len(ns), i <= j PROVE Rank(ns, i) <= Rank(ns, j)
  <2>1. F(i) \in SUBSET F(j)
    BY <1>1, <1>5
  <2> HIDE DEF F
  <2>2. Cardinality(F(i)) <= Cardinality(F(j))
    BY <1>2, <2>1, FS_Subset
  <2> QED BY <1>3, <2>2
<1> QED BY <1>2, <1>3, <1>4, <1>5

LEMMA UnwindsIs ==
  ASSUME Stacks(native)
  PROVE  /\ Unwinds \in Nat
         /\ \A j \in 1..Here : native[j].kind = "fn" => j <= Unwinds
         /\ native[Here].kind = "fn" => Unwinds = Here
<1>1. Here \in Nat /\ Here \in 1..Here
  BY StackIs DEF Here
<1>2. Unwinds = Rank(native, Here)
  BY DEF Unwinds, Rank
<1>3. \A j \in 1..Here : native[j].kind = "fn" => Rank(native, j) = j /\ Rank(native, j) <= Rank(native, Here)
  <2>1. \A j \in 1..Here : j <= Here
    BY <1>1
  <2> QED BY <1>1, <2>1, RankIs DEF Here
<1>4. Rank(native, Here) \in Nat
  BY <1>1, RankIs DEF Here
<1> QED BY <1>1, <1>2, <1>3, <1>4

LEMMA FreshIs ==
  ASSUME Stacks(native), tries \in Seq(TryFrames), Windows(native, tries, gens)
  PROVE  Fresh \in Nat /\ \A i \in 1..Here : native[i].id # Fresh
<1> DEFINE n == Here
           m == Len(tries)
           f == [i \in 1..(n + m) |-> IF i <= n THEN native[i].id ELSE tries[i - n].id]
<1>1. n \in Nat /\ m \in Nat /\ n + m \in Nat
  BY StackIs, LenNat DEF Here
<1>2. \A i \in 1..n : native[i].id \in Nat
  BY StackIs, ActivationFields DEF Here
<1>3. \A i \in 1..m : tries[i].id \in Nat
  <2>1. \A i \in 1..m : tries[i] \in TryFrames
    OBVIOUS
  <2> QED BY <2>1 DEF TryFrames
<1>4. f \in [1..(n + m) -> Nat]
  <2>1. ASSUME NEW i \in 1..(n + m) PROVE (IF i <= n THEN native[i].id ELSE tries[i - n].id) \in Nat
    <3>1. CASE i <= n
      <4>1. i \in 1..n
        BY <1>1, <3>1
      <4> QED BY <1>2, <3>1, <4>1
    <3>2. CASE ~(i <= n)
      <4>1. i - n \in 1..m
        BY <1>1, <3>2
      <4> QED BY <1>3, <3>2, <4>1
    <3> QED BY <3>1, <3>2
  <2> QED BY <2>1
<1>5. PICK k \in 1..(n + m + 1) : \A i \in 1..(n + m) : f[i] # k
  <2> HIDE DEF f, n, m
  <2> QED BY <1>1, <1>4, Unused
<1>6. \A i \in 1..n : native[i].id # k
  <2> SUFFICES ASSUME NEW i \in 1..n PROVE native[i].id # k
    OBVIOUS
  <2>1. i \in 1..(n + m) /\ i <= n
    BY <1>1
  <2>2. f[i] = native[i].id
    BY <2>1
  <2> QED BY <1>5, <2>1, <2>2
<1>7. \A i \in DOMAIN tries : tries[i].id # k
  <2> SUFFICES ASSUME NEW i \in 1..m PROVE tries[i].id # k
    OBVIOUS
  <2>1. i + n \in 1..(n + m) /\ ~(i + n <= n) /\ (i + n) - n = i
    BY <1>1
  <2>2. f[i + n] = tries[i].id
    BY <2>1
  <2> QED BY <1>5, <2>1, <2>2
<1> HIDE DEF f, n, m
<1>8. /\ Fresh \in 1..(n + m + 1)
      /\ \A i \in 1..n : native[i].id # Fresh
  BY <1>6, <1>7 DEF Fresh, n, m
<1> QED BY <1>1, <1>8 DEF n

\* The tries that are open where a generator goes on are entered again.
LEMMA WindowReenter ==
  ASSUME Stacks(native), NEW f \in GenFrames, Len(f.blocks) <= MaxDepth,
         NEW a \in Activations, NEW ts \in Seq(TryFrames)
  PROVE  /\ ts \o Reentered(f, a.id) \in Seq(TryFrames)
         /\ Len(ts \o Reentered(f, a.id)) = Len(ts) + Cardinality(TriesOf(f))
         /\ \A k \in 1..Len(ts) : (ts \o Reentered(f, a.id))[k] = ts[k]
         /\ Window(a, ts \o Reentered(f, a.id), Len(ts), Len(ts) + Cardinality(TriesOf(f)), TriesOf(f))
         /\ \A k \in (Len(ts) + 1)..(Len(ts) + Cardinality(TriesOf(f))) :
              (ts \o Reentered(f, a.id))[k].unwind = Unwinds
<1> DEFINE I == TriesOf(f)
           C == Cardinality(I)
           n == Len(ts)
           r == Reentered(f, a.id)
           us == ts \o r
<1>1. I \subseteq Nat /\ IsFiniteSet(I) /\ C \in Nat /\ n \in Nat
  BY TriesAre, LenNat
<1>2. Unwinds \in Nat /\ a.id \in Nat
  BY UnwindsIs, ActivationFields
<1>3. r = [i \in 1..C |-> Entry(a.id, Nth(I, i))]
  BY DEF Reentered, Nth
<1> HIDE DEF I, r
<1>4. /\ \A i \in 1..C : Nth(I, i) \in I
      /\ \A i, j \in 1..C : i < j => Nth(I, i) < Nth(I, j)
      /\ \A d \in I : \E i \in 1..C : Nth(I, i) = d
  BY <1>1, Ascending
<1> HIDE DEF C
<1>5. \A i \in 1..C : Nth(I, i) \in Nat /\ r[i] = Entry(a.id, Nth(I, i)) /\ r[i] \in TryFrames
  BY <1>1, <1>2, <1>3, <1>4 DEF Entry, TryFrames
<1>6. r \in Seq(TryFrames) /\ Len(r) = C
  <2>1. r \in [1..C -> TryFrames]
    BY <1>3, <1>5
  <2> QED BY <1>1, <2>1, SeqDef
<1>7. /\ us \in Seq(TryFrames) /\ Len(us) = n + C
      /\ \A k \in 1..n : us[k] = ts[k]
      /\ \A k \in (n + 1)..(n + C) : us[k] = r[k - n]
  BY <1>1, <1>6
<1> HIDE DEF us, n
<1>8. \A k \in (n + 1)..(n + C) :
        /\ k - n \in 1..C /\ us[k].level = Nth(I, k - n) /\ us[k].id = a.id /\ us[k].unwind = Unwinds
  <2> SUFFICES ASSUME NEW k \in (n + 1)..(n + C)
               PROVE  /\ k - n \in 1..C /\ us[k].level = Nth(I, k - n)
                      /\ us[k].id = a.id /\ us[k].unwind = Unwinds
    OBVIOUS
  <2>1. k - n \in 1..C
    BY <1>1
  <2>2. us[k] = Entry(a.id, Nth(I, k - n))
    BY <1>5, <1>7, <2>1
  <2> QED BY <2>1, <2>2 DEF Entry
<1>9. {us[k].level : k \in (n + 1)..(n + C)} = I
  <2>1. \A k \in (n + 1)..(n + C) : us[k].level \in I
    BY <1>4, <1>8
  <2>2. ASSUME NEW d \in I PROVE \E k \in (n + 1)..(n + C) : us[k].level = d
    <3>1. PICK i \in 1..C : Nth(I, i) = d
      BY <1>4
    <3>2. n + i \in (n + 1)..(n + C) /\ (n + i) - n = i
      BY <1>1
    <3> QED BY <1>8, <3>1, <3>2
  <2> QED BY <2>1, <2>2
<1>10. \A k, l \in (n + 1)..(n + C) : k < l => us[k].level < us[l].level
  <2> SUFFICES ASSUME NEW k \in (n + 1)..(n + C), NEW l \in (n + 1)..(n + C), k < l
               PROVE  us[k].level < us[l].level
    OBVIOUS
  <2>1. k - n \in 1..C /\ l - n \in 1..C /\ k - n < l - n
    BY <1>1, <1>8
  <2> QED BY <1>4, <1>8, <2>1
<1>11. Window(a, us, n, n + C, I)
  BY <1>8, <1>9, <1>10 DEF Window
<1> QED BY <1>7, <1>8, <1>11 DEF us, n, C, I, r

-----------------------------------------------------------------------------
(* Releasing frames                                                        *)

LEMMA NoFramed == Framed(NoFrame)
<1>1. Len(NoFrame.blocks) = 0
  BY NoFrameType
<1> QED BY <1>1, NoFrameType, NoUseType, DepthsFinite DEF Framed

There(gs) == {g \in Gens : gs[g].stage # "none"}

\* S are the frames whose places were just emptied.
LEMMA Release ==
  ASSUME NEW ms, Stacks(ms), NEW gs, Frames(gs), Runs(ms, gs),
         NEW os, os \subseteq There(gs),
         NEW S \in SUBSET Gens, S \cap os = {}, \A g \in S : gs[g].stage # "running",
         Owned(ms, gs, Live(gs, os) \ S)
  PROVE  /\ Frames(AfterDrop(gs, S)) /\ Runs(ms, AfterDrop(gs, S))
         /\ Owned(ms, AfterDrop(gs, S), Live(AfterDrop(gs, S), os))
         /\ os \subseteq There(AfterDrop(gs, S))
         /\ \A g \in Gens : AfterDrop(gs, S)[g].stage = "running" <=> gs[g].stage = "running"
         /\ \A g \in Gens : gs[g].stage = "running" => AfterDrop(gs, S)[g] = gs[g] /\ g \notin Tree(gs, S)
<1> DEFINE D == Tree(gs, S)
           hs == AfterDrop(gs, S)
           K == Live(gs, os) \ S
<1>0. gs \in [Gens -> GenFrames] /\ \A h \in Gens : gs[h] \in GenFrames /\ Framed(gs[h])
  BY DEF Frames
<1>1. D \in SUBSET Gens /\ S \subseteq D
  BY <1>0, TreeIs
<1>2. \A g \in D \ S : \E h \in D : g \in Inner(gs[h])
  BY <1>0, TreeFrom
<1>3. \A h \in Gens : hs[h] = IF h \in D THEN NoFrame ELSE gs[h]
  BY DEF AfterDrop
<1>4. hs \in [Gens -> GenFrames]
  BY <1>0, NoFrameType DEF AfterDrop
<1>5. K \subseteq Gens /\ S \cap K = {}
  BY DEF Live
<1>6. \A g \in D : gs[g].stage # "running"
  <2> HIDE DEF K
  <2> QED BY TreeIdle DEF K
<1>7. Owned(ms, hs, K \ D)
  <2>1. Owned(ms, gs, K)
    OBVIOUS
  <2> HIDE DEF K
  <2> QED BY <1>5, <1>6, <2>1, OwnedDrop
<1>8. Live(hs, os) = K \ D
  <2>1. Live(hs, os) = Live(gs, os) \ D
    BY LiveDrop
  <2> HIDE DEF D, hs
  <2> QED BY <1>1, <2>1
<1> HIDE DEF hs, D
<1>9. Frames(hs)
  BY <1>0, <1>3, <1>4, NoFramed DEF Frames
<1>10. /\ \A g \in Gens : hs[g].stage = "running" <=> gs[g].stage = "running"
       /\ \A g \in Gens : gs[g].stage = "running" => hs[g] = gs[g] /\ g \notin D
  BY <1>1, <1>3, <1>6, NoFrameType
<1>11. Runs(ms, hs)
  <2>1. \A i \in 1..(Len(ms) - 1) : ms[i].kind = "resume" => hs[ms[i].gen] = gs[ms[i].gen]
    <3> SUFFICES ASSUME NEW i \in 1..(Len(ms) - 1), ms[i].kind = "resume"
                 PROVE  hs[ms[i].gen] = gs[ms[i].gen]
      OBVIOUS
    <3>1. i \in 1..Len(ms)
      BY StackIs
    <3>2. ms[i].gen \in Gens /\ gs[ms[i].gen].stage = "running"
      BY <3>1 DEF Stacks, Shape, Runs
    <3> QED BY <1>10, <3>2
  <2>2. Steady(ms, gs, hs)
    BY <1>10, <2>1 DEF Steady
  <2>3. Same(ms, ms)
    BY SameIs
  <2> QED BY <2>2, <2>3, RunsSame
<1>12. os \subseteq There(hs)
  <2> SUFFICES ASSUME NEW g \in os, g \in D PROVE FALSE
    BY <1>3 DEF There
  <2>1. PICK h \in D : g \in Inner(gs[h])
    BY <1>2
  <2>2. h \in Gens /\ gs[h] \in GenFrames
    BY <1>0, <1>1
  <2>3. g # Null /\ \E d \in Depths : gs[h].use[d].gen = g
    BY <2>1, <2>2, InnerFrom
  <2>4. g \in K
    BY <2>2, <2>3 DEF Owned
  <2> QED BY <2>4 DEF Live
<1>13. Owned(ms, hs, Live(hs, os))
  BY <1>7, <1>8
<1> QED BY <1>9, <1>10, <1>11, <1>12, <1>13 DEF hs, D

-----------------------------------------------------------------------------
(* The activation on top                                                   *)

LEMMA TopIs ==
  ASSUME Stacks(native)
  PROVE  /\ Here \in Nat /\ Here > 0 /\ Here \in 1..Here /\ Here = Len(native)
         /\ Top = native[Here] /\ Top \in Activations /\ Top.kind \in {"fn", "resume"}
         /\ Top.kind = "resume" => G \in Gens /\ G = native[Here].gen /\ Top.use = NoUse
         /\ native \in Seq(Activations)
         /\ \A i \in 1..Here : native[i] \in Activations
BY StackIs DEF Here, Top, G, Stacks, Shape

LEMMA WorkIs ==
  ASSUME Stacks(native), Frames(gens), Runs(native, gens), Bodied(native, gens), Top.kind = "resume"
  PROVE  /\ gens \in [Gens -> GenFrames] /\ G \in Gens
         /\ gens[G] \in GenFrames /\ Framed(gens[G]) /\ gens[G].stage = "running"
         /\ gens[G].blocks \in Seq(Blocks) /\ Depth = Len(gens[G].blocks)
         /\ Depth \in Nat /\ Depth > 0 /\ Depth \in Depths
         /\ gens[G].blocks # <<>>
         /\ Innermost = gens[G].blocks[Depth] /\ Innermost \in Blocks
         /\ gens[G].blocks[1].kind = "body"
         /\ \A d \in 1..Depth : d \in Depths /\ gens[G].blocks[d] \in Blocks
<1>1. G \in Gens /\ G = native[Here].gen /\ native[Here].kind = "resume" /\ Here \in 1..Len(native)
  BY TopIs
<1>2. gens \in [Gens -> GenFrames] /\ gens[G] \in GenFrames /\ Framed(gens[G])
  BY <1>1 DEF Frames
<1>3. gens[G].stage = "running" /\ gens[G].blocks # <<>>
  BY <1>1 DEF Runs, Bodied
<1>4. gens[G].blocks \in Seq(Blocks) /\ Depth = Len(gens[G].blocks) /\ Depth <= MaxDepth
  BY <1>2, FrameFields DEF Framed, Depth
<1>5. Depth \in Nat /\ Depth > 0
  BY <1>3, <1>4, LenNat, EmptySeq
<1>6. \A d \in 1..Depth : d \in Depths /\ gens[G].blocks[d] \in Blocks
  BY <1>4, <1>5, DepthsFinite DEF Depths
<1>7. Innermost = gens[G].blocks[Depth]
  BY <1>4 DEF Innermost, Last
<1>8. Depth \in 1..Depth
  BY <1>5
<1>9. gens[G].blocks[1].kind = "body"
  BY <1>2, <1>3 DEF Framed
<1>10. Depth \in Depths /\ Innermost \in Blocks
  BY <1>6, <1>7, <1>8
<1> QED BY <1>1, <1>2, <1>3, <1>4, <1>5, <1>6, <1>7, <1>9, <1>10

LEMMA BlockFields ==
  ASSUME NEW b \in Blocks
  PROVE  b.kind \in Kinds /\ b.declared \in BOOLEAN /\ b.raised \in Values \cup {Null}
BY DEF Blocks

\* UseOf of the top is Use.
LEMMA UseIs ==
  ASSUME Stacks(native), Frames(gens), Runs(native, gens), Bodied(native, gens)
  PROVE  /\ Use = UseOf(native, gens, Here) /\ Use \in Uses
         /\ Top.kind = "fn" => Use = native[Here].use
         /\ Top.kind = "resume" => Use = IF Consumes(Innermost) THEN gens[G].use[Depth] ELSE NoUse
<1>1. CASE Top.kind = "fn"
  BY <1>1, TopIs, ActivationFields DEF Use, UseOf
<1>2. CASE Top.kind = "resume"
  <2>1. /\ gens[G] \in GenFrames /\ gens[G].blocks # <<>> /\ Depth \in Depths
        /\ Innermost = gens[G].blocks[Depth] /\ Depth = Len(gens[G].blocks)
    BY <1>2, WorkIs
  <2>2. Top = native[Here] /\ G = native[Here].gen
    BY <1>2, TopIs
  <2>3. Use = IF Consumes(Innermost) THEN gens[G].use[Depth] ELSE NoUse
    BY <1>2 DEF Use
  <2>4. UseOf(native, gens, Here) = IF Consumes(Innermost) THEN gens[G].use[Depth] ELSE NoUse
    BY <1>2, <2>1, <2>2 DEF UseOf, Innermost
  <2>5. gens[G].use[Depth] \in Uses
    BY <2>1, FrameFields
  <2> QED BY <1>2, <2>3, <2>4, <2>5, NoUseType
<1> QED BY <1>1, <1>2, TopIs

\* What the activation on top holds, at any depth, does not run.
LEMMA TopHoldsIdle ==
  ASSUME Stacks(native), Frames(gens), Runs(native, gens), NEW L, Owned(native, gens, L),
         NEW g \in Gens,
         \/ native[Here].use.gen = g
         \/ Top.kind = "resume" /\ \E d \in Depths : gens[G].use[d].gen = g
  PROVE  gens[g].stage # "running"
<1> SUFFICES ASSUME gens[g].stage = "running" PROVE FALSE
  OBVIOUS
<1>1. PICK j \in 1..Here : native[j].kind = "resume" /\ native[j].gen = g
  BY DEF Runs, Here
<1>2. Here \in Nat /\ Here = Len(native) /\ native[1].kind = "fn" /\ Shape(native)
  BY TopIs DEF Stacks, Shape
<1> DEFINE i == j - 1
<1>3. j # 1 /\ i \in 1..(Here - 1) /\ i \in 1..Here /\ i + 1 = j /\ i # Here
  BY <1>1, <1>2
<1> HIDE DEF i
<1>4. UseOf(native, gens, i).gen = g /\ g # Null
  BY <1>1, <1>2, <1>3, NullAssumption DEF Runs
<1>5. native[i].kind \in {"fn", "resume"}
  BY <1>2, <1>3, StackIs
<1>6. CASE native[i].kind = "fn"
  <2>1. native[i].use.gen = g
    BY <1>4, <1>6 DEF UseOf
  <2>2. CASE native[Here].use.gen = g
    BY <1>2, <1>3, <1>4, <2>1, <2>2 DEF Owned
  <2>3. CASE Top.kind = "resume" /\ \E d \in Depths : gens[G].use[d].gen = g
    <3>1. G \in Gens
      BY <2>3, TopIs
    <3> QED BY <1>2, <1>3, <1>4, <2>1, <2>3, <3>1 DEF Owned
  <2> QED BY <2>2, <2>3
<1>7. CASE native[i].kind = "resume"
  <2> DEFINE r == native[i].gen
             n == Len(gens[r].blocks)
  <2>1. r \in Gens
    BY <1>2, <1>3, <1>7 DEF Shape
  <2>2. gens[r].blocks # <<>> /\ gens[r].use[n].gen = g
    BY <1>4, <1>7, NoUseType DEF UseOf
  <2>3. n \in Depths
    <3>1. gens[r].blocks \in Seq(Blocks) /\ n <= MaxDepth
      BY <2>1, FrameFields DEF Frames, Framed
    <3> HIDE DEF r
    <3>2. n \in Nat /\ n # 0
      BY <2>2, <3>1, LenNat, EmptySeq
    <3> QED BY <3>1, <3>2, DepthsFinite DEF Depths
  <2> HIDE DEF n
  <2>4. CASE native[Here].use.gen = g
    <3>1. Here \in 1..Len(native)
      BY TopIs
    <3> QED BY <1>4, <2>1, <2>2, <2>3, <2>4, <3>1 DEF Owned
  <2>5. CASE Top.kind = "resume" /\ \E d \in Depths : gens[G].use[d].gen = g
    <3>1. G \in Gens /\ G = native[Here].gen /\ native[Here].kind = "resume" /\ Here \in 1..Here
      BY <2>5, TopIs
    <3>2. r = G
      BY <1>4, <2>1, <2>2, <2>3, <2>5, <3>1 DEF Owned
    <3> QED BY <1>2, <1>3, <1>7, <3>1, <3>2 DEF Shape
  <2> QED BY <2>4, <2>5
<1> QED BY <1>5, <1>6, <1>7

\* What is left of a frame when its blocks above k are left.
LEMMA LeaveIs ==
  ASSUME NEW f \in GenFrames, Framed(f), NEW k \in 0..Len(f.blocks)
  PROVE  /\ LeaveBlocks(f, k) \in GenFrames
         /\ LeaveBlocks(f, k).stage = f.stage /\ LeaveBlocks(f, k).param = f.param
         /\ LeaveBlocks(f, k).value = f.value /\ LeaveBlocks(f, k).err = f.err
         /\ Len(LeaveBlocks(f, k).blocks) = k
         /\ \A e \in 1..k : LeaveBlocks(f, k).blocks[e] = f.blocks[e]
         /\ \A d \in Depths : LeaveBlocks(f, k).local[d] =
              IF d > k /\ d <= Len(f.blocks) /\ f.blocks[d].declared THEN Null ELSE f.local[d]
         /\ \A d \in Depths : LeaveBlocks(f, k).use[d] =
              IF d > k /\ d <= Len(f.blocks) /\ Consumes(f.blocks[d]) THEN NoUse ELSE f.use[d]
         /\ TriesOf(LeaveBlocks(f, k)) = {d \in TriesOf(f) : d <= k}
<1> DEFINE h == LeaveBlocks(f, k)
           n == Len(f.blocks)
           lo == [d \in Depths |-> IF d > k /\ d <= n /\ f.blocks[d].declared THEN Null ELSE f.local[d]]
           us == [d \in Depths |-> IF d > k /\ d <= n /\ Consumes(f.blocks[d]) THEN NoUse ELSE f.use[d]]
           bs == SubSeq(f.blocks, 1, k)
<1>1. /\ f.blocks \in Seq(Blocks) /\ f.local \in [Depths -> Values \cup {Null}]
      /\ f.use \in [Depths -> Uses] /\ n \in Nat /\ DOMAIN f.blocks = 1..n
  BY FrameFields, LenNat
<1>2. bs \in Seq(Blocks) /\ Len(bs) = k /\ \A e \in 1..k : bs[e] = f.blocks[e]
  BY <1>1, CutSeq
<1>3. h = [f EXCEPT !.blocks = bs, !.local = lo, !.use = us]
  BY DEF LeaveBlocks
<1>4. lo \in [Depths -> Values \cup {Null}]
  BY <1>1
<1>5. us \in [Depths -> Uses]
  BY <1>1, NoUseType
<1>6. /\ \A d \in Depths : lo[d] = IF d > k /\ d <= n /\ f.blocks[d].declared THEN Null ELSE f.local[d]
      /\ \A d \in Depths : us[d] = IF d > k /\ d <= n /\ Consumes(f.blocks[d]) THEN NoUse ELSE f.use[d]
  OBVIOUS
<1> HIDE DEF h, lo, us, bs
<1>7. /\ h.blocks = bs /\ h.local = lo /\ h.use = us
      /\ h.stage = f.stage /\ h.param = f.param /\ h.value = f.value /\ h.err = f.err
  BY <1>3 DEF GenFrames
<1>8. h \in GenFrames
  BY <1>2, <1>3, <1>4, <1>5 DEF GenFrames
<1>9. TriesOf(h) = {d \in TriesOf(f) : d <= k}
  <2>1. DOMAIN h.blocks = 1..k /\ k \in Nat /\ k <= n
    BY <1>1, <1>2, <1>7
  <2>2. \A d \in 1..k : h.blocks[d] = f.blocks[d]
    BY <1>2, <1>7
  <2>3. TriesOf(h) = {d \in 1..k : h.blocks[d].kind = "try"}
    BY <2>1 DEF TriesOf
  <2>4. TriesOf(f) = {d \in 1..n : f.blocks[d].kind = "try"}
    BY <1>1 DEF TriesOf
  <2> QED BY <1>1, <2>1, <2>2, <2>3, <2>4
<1> QED BY <1>2, <1>6, <1>7, <1>8, <1>9 DEF h, n

\* No statement is left that another block would stand on.
LEMMA LeaveFramed ==
  ASSUME NEW f \in GenFrames, Framed(f), NEW k \in 0..Len(f.blocks), f.stage # "none",
         NEW st \in {"running", "done"}, st = f.stage \/ k < Len(f.blocks)
  PROVE  /\ [LeaveBlocks(f, k) EXCEPT !.stage = st] \in GenFrames
         /\ Framed([LeaveBlocks(f, k) EXCEPT !.stage = st])
         /\ [LeaveBlocks(f, k) EXCEPT !.stage = st].stage = st
         /\ [LeaveBlocks(f, k) EXCEPT !.stage = st].blocks = LeaveBlocks(f, k).blocks
         /\ [LeaveBlocks(f, k) EXCEPT !.stage = st].use = LeaveBlocks(f, k).use
         /\ TriesOf([LeaveBlocks(f, k) EXCEPT !.stage = st]) = {d \in TriesOf(f) : d <= k}
<1> DEFINE h == LeaveBlocks(f, k)
           j == [h EXCEPT !.stage = st]
           n == Len(f.blocks)
<1>1. /\ h \in GenFrames /\ h.stage = f.stage /\ Len(h.blocks) = k
      /\ \A e \in 1..k : h.blocks[e] = f.blocks[e]
      /\ \A d \in Depths : h.use[d] =
           IF d > k /\ d <= n /\ Consumes(f.blocks[d]) THEN NoUse ELSE f.use[d]
      /\ TriesOf(h) = {d \in TriesOf(f) : d <= k}
  BY LeaveIs
<1>2. n \in Nat /\ n <= MaxDepth
  BY FrameFields, LenNat DEF Framed
<1> HIDE DEF h
<1>3. j \in GenFrames /\ j.stage = st /\ j.blocks = h.blocks /\ j.use = h.use
  BY <1>1 DEF GenFrames
<1>4. TriesOf(j) = TriesOf(h)
  BY <1>3 DEF TriesOf
<1> HIDE DEF j
<1>5. ASSUME NEW d \in Depths, j.use[d].gen # Null, j.use[d].mode # "for"
      PROVE  j.stage = "running" /\ d = Len(j.blocks) /\ j.blocks[d].kind = "stmt"
  <2>1. h.use[d] = f.use[d] /\ ~(d > k /\ d <= n /\ Consumes(f.blocks[d]))
    BY <1>1, <1>3, <1>5, NoUseType
  <2>2. f.stage = "running" /\ d = n /\ f.blocks[d].kind = "stmt"
    BY <1>3, <1>5, <2>1 DEF Framed
  <2>3. k = n
    BY <1>2, <2>1, <2>2 DEF Consumes
  <2>4. d \in 1..k
    <3>1. d \in Nat /\ d > 0
      BY DepthsFinite DEF Depths
    <3> QED BY <2>2, <2>3, <3>1
  <2> QED BY <1>1, <1>3, <2>2, <2>3, <2>4
<1>6. j.blocks # <<>> => j.blocks[1].kind = "body"
  <2> SUFFICES ASSUME j.blocks # <<>> PROVE j.blocks[1].kind = "body"
    OBVIOUS
  <2>0. j.blocks \in Seq(Blocks) /\ f.blocks \in Seq(Blocks)
    BY <1>3, FrameFields
  <2>1. k # 0
    BY <1>1, <1>3, <2>0, EmptySeq
  <2>2. 1 \in 1..k /\ n # 0
    BY <1>2, <2>1
  <2>3. f.blocks # <<>>
    BY <2>2
  <2>4. f.blocks[1].kind = "body"
    BY <2>3 DEF Framed
  <2> QED BY <1>1, <1>3, <2>2, <2>4
<1>7. Framed(j)
  <2>1. j.stage # "none" /\ Len(j.blocks) <= MaxDepth
    <3>1. k <= n /\ k \in Nat /\ MaxDepth \in Nat /\ Len(j.blocks) = k
      BY <1>1, <1>2, <1>3, DepthsFinite
    <3>2. k <= MaxDepth
      BY <1>2, <3>1
    <3> QED BY <1>3, <3>1, <3>2
  <2> QED BY <1>3, <1>5, <1>6, <2>1 DEF Framed
<1> QED BY <1>1, <1>3, <1>4, <1>7 DEF h, j

\* A frame that becomes h gives up the frames of S.
Passes(f, h, S) ==
  /\ \A d \in Depths : h.use[d].gen # Null =>
       h.use[d].gen = f.use[d].gen /\ h.use[d].gen \notin S
  /\ \A d \in Depths : f.use[d].gen # Null =>
       h.use[d].gen = f.use[d].gen \/ f.use[d].gen \in S
  /\ \A g \in S : \E d \in Depths : f.use[d].gen = g

\* The frame of the generator that runs becomes h; S are the frames that it
\* does not hold any more.
LEMMA TopOwned ==
  ASSUME Stacks(native), Frames(gens), Runs(native, gens), Bodied(native, gens), Top.kind = "resume",
         Owned(native, gens, Live(gens, orphans)),
         NEW h \in GenFrames, h.stage # "none", NEW S \in SUBSET Gens,
         Passes(gens[G], h, S)
  PROVE  /\ Owned(native, [gens EXCEPT ![G] = h], Live([gens EXCEPT ![G] = h], orphans) \ S)
         /\ S \cap orphans = {} /\ G \notin S /\ \A g \in S : gens[g].stage # "running"
<1> DEFINE gs == [gens EXCEPT ![G] = h]
           L == Live(gens, orphans)
           K == L \ S
<1>0. /\ \A d \in Depths : h.use[d].gen # Null =>
           h.use[d].gen = gens[G].use[d].gen /\ h.use[d].gen \notin S
      /\ \A d \in Depths : gens[G].use[d].gen # Null =>
           h.use[d].gen = gens[G].use[d].gen \/ gens[G].use[d].gen \in S
      /\ \A g \in S : g \in Gens /\ \E d \in Depths : gens[G].use[d].gen = g
  BY DEF Passes
<1>1. /\ gens \in [Gens -> GenFrames] /\ G \in Gens /\ gens[G].stage = "running"
  BY WorkIs
<1>2. gs[G] = h /\ \A g \in Gens : g # G => gs[g] = gens[g]
  BY <1>1
<1> HIDE DEF gs
<1>3. Live(gs, orphans) = L
  BY <1>1, <1>2 DEF Live
<1>4. \A g \in S : gens[g].stage # "running"
  <2> SUFFICES ASSUME NEW g \in S PROVE gens[g].stage # "running"
    OBVIOUS
  <2>1. g \in Gens /\ \E d \in Depths : gens[G].use[d].gen = g
    BY <1>0
  <2> QED BY <2>1, TopHoldsIdle
<1>5. G \notin S
  BY <1>1, <1>4
<1>6. S \subseteq L
  <2> SUFFICES ASSUME NEW g \in S PROVE g \in L
    OBVIOUS
  <2>1. PICK d \in Depths : gens[G].use[d].gen = g
    BY <1>0
  <2>2. g # Null
    BY NullAssumption
  <2> QED BY <1>1, <2>1, <2>2 DEF Owned
<1>7. S \cap orphans = {}
  BY <1>6 DEF Live
<1>8. Null \notin L
  BY NullAssumption DEF Live
<1> HIDE DEF L
<1>9. \A i \in 1..Len(native) : native[i].use.gen # Null => native[i].use.gen \in K
  <2> SUFFICES ASSUME NEW i \in 1..Len(native), native[i].use.gen # Null, native[i].use.gen \in S
               PROVE  FALSE
    BY DEF Owned, L
  <2> QED BY <1>0, <1>1 DEF Owned
<1>10. \A k \in Gens : \A d \in Depths : gs[k].use[d].gen # Null =>
           gs[k].use[d].gen = gens[k].use[d].gen /\ gs[k].use[d].gen \in K
  <2> SUFFICES ASSUME NEW k \in Gens, NEW d \in Depths, gs[k].use[d].gen # Null
               PROVE  gs[k].use[d].gen = gens[k].use[d].gen /\ gs[k].use[d].gen \in K
    OBVIOUS
  <2>1. gs[k].use[d].gen = gens[k].use[d].gen
    BY <1>0, <1>2
  <2>2. gs[k].use[d].gen \in L
    BY <2>1 DEF Owned, L
  <2>3. gs[k].use[d].gen \notin S
    <3>1. CASE k = G
      BY <1>0, <1>2, <3>1
    <3>2. CASE k # G
      BY <1>0, <1>1, <2>1, <3>2 DEF Owned
    <3> QED BY <3>1, <3>2
  <2> QED BY <2>1, <2>2, <2>3
<1>11. \A k \in Gens : \A d \in Depths : gens[k].use[d].gen \in K =>
           gs[k].use[d].gen = gens[k].use[d].gen
  <2> SUFFICES ASSUME NEW k \in Gens, NEW d \in Depths, gens[k].use[d].gen \in K
               PROVE  gs[k].use[d].gen = gens[k].use[d].gen
    OBVIOUS
  <2>1. gens[k].use[d].gen # Null /\ gens[k].use[d].gen \notin S
    BY <1>8
  <2> QED BY <1>0, <1>2, <2>1
<1>12. Owned(native, gens, L)
  BY DEF L
<1>13. K \in SUBSET L
  OBVIOUS
<1> HIDE DEF K
<1>14. Owned(native, gs, K)
  BY <1>9, <1>10, <1>11, <1>12, <1>13, OwnedLess
<1> QED BY <1>3, <1>4, <1>5, <1>7, <1>14 DEF gs, K

\* ...and goes on.
LEMMA TopChange ==
  ASSUME Stacks(native), Frames(gens), Runs(native, gens), Bodied(native, gens), Top.kind = "resume",
         Owned(native, gens, Live(gens, orphans)), orphans \subseteq There(gens),
         NEW h \in GenFrames, Framed(h), h.stage = "running", NEW S \in SUBSET Gens,
         Passes(gens[G], h, S),
         NEW hs, hs = AfterDrop([gens EXCEPT ![G] = h], S)
  PROVE  /\ Frames(hs) /\ Runs(native, hs)
         /\ Owned(native, hs, Live(hs, orphans)) /\ orphans \subseteq There(hs)
         /\ Steady(native, gens, hs) /\ hs[G] = h
         /\ h.blocks # <<>> => Bodied(native, hs)
<1> DEFINE gs == [gens EXCEPT ![G] = h]
<1>1. gens \in [Gens -> GenFrames] /\ G \in Gens /\ gens[G].stage = "running"
  BY WorkIs
<1>2. gs[G] = h /\ gs \in [Gens -> GenFrames] /\ \A g \in Gens : g # G => gs[g] = gens[g]
  BY <1>1
<1>3. /\ Owned(native, gs, Live(gs, orphans) \ S)
      /\ S \cap orphans = {} /\ G \notin S /\ \A g \in S : gens[g].stage # "running"
  <2>1. h.stage # "none"
    OBVIOUS
  <2> QED BY <2>1, TopOwned
<1>4. hs = AfterDrop(gs, S)
  OBVIOUS
<1> HIDE DEF gs
<1>5. Frames(gs)
  BY <1>1, <1>2 DEF Frames
<1>6. /\ Here = Len(native) /\ Shape(native) /\ Here \in Nat /\ Here \in 1..Here
      /\ native[Here].kind = "resume" /\ G = native[Here].gen
  BY TopIs DEF Stacks
<1>7. \A i \in 1..(Here - 1) : native[i].kind = "resume" => native[i].gen \in Gens /\ native[i].gen # G
  <2>1. \A i \in 1..(Here - 1) : i \in 1..Here /\ i # Here
    BY <1>6
  <2> QED BY <1>6, <2>1 DEF Shape
<1>8. \A g \in Gens : gs[g].stage = "running" <=> gens[g].stage = "running"
  BY <1>1, <1>2
<1>9. Steady(native, gens, gs)
  BY <1>2, <1>6, <1>7, <1>8 DEF Steady
<1>10. Runs(native, gs)
  <2>1. Same(native, native)
    BY SameIs
  <2> QED BY <1>9, <2>1, RunsSame
<1>11. orphans \subseteq There(gs)
  BY <1>1, <1>2 DEF There
<1>12. \A g \in S : gs[g].stage # "running"
  BY <1>2, <1>3
<1>13. /\ Frames(hs) /\ Runs(native, hs)
       /\ Owned(native, hs, Live(hs, orphans)) /\ orphans \subseteq There(hs)
       /\ \A g \in Gens : hs[g].stage = "running" <=> gs[g].stage = "running"
       /\ \A g \in Gens : gs[g].stage = "running" => hs[g] = gs[g]
  <2> DEFINE A == AfterDrop(gs, S)
  <2>1. /\ Frames(A) /\ Runs(native, A)
        /\ Owned(native, A, Live(A, orphans)) /\ orphans \subseteq There(A)
        /\ \A g \in Gens : A[g].stage = "running" <=> gs[g].stage = "running"
        /\ \A g \in Gens : gs[g].stage = "running" => A[g] = gs[g] /\ g \notin Tree(gs, S)
    BY <1>3, <1>5, <1>10, <1>11, <1>12, Release
  <2>2. hs = A
    BY <1>4
  <2> HIDE DEF A
  <2> QED BY <2>1, <2>2
<1>14. hs[G] = h
  BY <1>1, <1>2, <1>13
<1>15. \A i \in 1..(Here - 1) : native[i].kind = "resume" =>
         gens[native[i].gen].stage = "running" /\ hs[native[i].gen] = gens[native[i].gen]
  <2> SUFFICES ASSUME NEW i \in 1..(Here - 1), native[i].kind = "resume"
               PROVE  gens[native[i].gen].stage = "running" /\ hs[native[i].gen] = gens[native[i].gen]
    OBVIOUS
  <2>1. i \in 1..Len(native)
    BY <1>6
  <2>2. gens[native[i].gen].stage = "running" /\ native[i].gen \in Gens /\ native[i].gen # G
    BY <1>7, <2>1 DEF Runs
  <2> QED BY <1>2, <1>13, <2>2
<1>16. Steady(native, gens, hs)
  BY <1>6, <1>8, <1>13, <1>15 DEF Steady
<1>17. h.blocks # <<>> => Bodied(native, hs)
  <2> SUFFICES ASSUME h.blocks # <<>>, NEW i \in 1..Len(native), native[i].kind = "resume"
               PROVE  hs[native[i].gen].blocks # <<>>
    BY DEF Bodied
  <2>1. i = Here \/ i \in 1..(Here - 1)
    BY <1>6
  <2> QED BY <1>6, <1>14, <1>15, <2>1 DEF Bodied
<1> QED BY <1>13, <1>14, <1>16, <1>17

\* ...or returns.
LEMMA TopLeaves ==
  ASSUME Stacks(native), Frames(gens), Runs(native, gens), Bodied(native, gens), Top.kind = "resume",
         Owned(native, gens, Live(gens, orphans)), orphans \subseteq There(gens),
         NEW h \in GenFrames, Framed(h), h.stage \in {"done", "suspended"}, NEW S \in SUBSET Gens,
         Passes(gens[G], h, S),
         NEW hs, hs = AfterDrop([gens EXCEPT ![G] = h], S)
  PROVE  /\ Front(native) = SubSeq(native, 1, Here - 1) /\ Here - 1 \in 1..Here
         /\ Stacks(Front(native)) /\ Frames(hs) /\ Runs(Front(native), hs)
         /\ Owned(Front(native), hs, Live(hs, orphans)) /\ orphans \subseteq There(hs)
         /\ \A i \in 1..(Here - 1) : LevelsOf(native[i], hs) = LevelsOf(native[i], gens)
         /\ UseOf(Front(native), hs, Here - 1).gen = G
         /\ Bodied(Front(native), hs)
         /\ G \in Tree([gens EXCEPT ![G] = h], S) \/ hs[G] = h
<1> DEFINE gs == [gens EXCEPT ![G] = h]
           n == Here - 1
           ms == SubSeq(native, 1, n)
<1>1. gens \in [Gens -> GenFrames] /\ G \in Gens /\ gens[G].stage = "running"
  BY WorkIs
<1>2. gs[G] = h /\ gs \in [Gens -> GenFrames] /\ \A g \in Gens : g # G => gs[g] = gens[g]
  BY <1>1
<1>3. /\ Owned(native, gs, Live(gs, orphans) \ S)
      /\ S \cap orphans = {} /\ G \notin S /\ \A g \in S : gens[g].stage # "running"
  <2>1. h.stage # "none"
    OBVIOUS
  <2> QED BY <2>1, TopOwned
<1>4. hs = AfterDrop(gs, S)
  OBVIOUS
<1> HIDE DEF gs
<1>5. Frames(gs)
  BY <1>1, <1>2 DEF Frames
<1>6. /\ Here = Len(native) /\ Shape(native) /\ Here \in Nat /\ Here \in 1..Here /\ Here > 0
      /\ native[Here].kind = "resume" /\ G = native[Here].gen /\ native[Here].use = NoUse
      /\ native \in Seq(Activations) /\ native # <<>>
  BY TopIs, StackIs DEF Stacks
<1>7. Here # 1
  BY <1>6 DEF Shape
<1>8. n \in 1..Len(native) /\ n \in 0..Len(native) /\ n \in Nat /\ n > 0 /\ n + 1 = Here
  BY <1>6, <1>7
<1>9. Front(native) = ms
  BY <1>6 DEF Front
<1>10. ms \in Seq(Activations) /\ Len(ms) = n /\ \A i \in 1..n : ms[i] = native[i]
  BY <1>6, <1>8, CutSeq
<1>11. Stacks(ms)
  BY <1>8, StacksCut
<1>12. \A i \in 1..n : i \in 1..Len(native) /\ i # Here
  BY <1>6, <1>8
<1>13. \A i \in 1..n : native[i].kind = "resume" =>
         /\ native[i].gen \in Gens /\ native[i].gen # G /\ gens[native[i].gen].stage = "running"
         /\ gs[native[i].gen] = gens[native[i].gen]
  BY <1>2, <1>6, <1>12 DEF Shape, Runs
<1>14. \A g \in Gens : gs[g].stage = "running" <=>
           \E i \in 1..n : native[i].kind = "resume" /\ native[i].gen = g
  <2> SUFFICES ASSUME NEW g \in Gens
               PROVE  gs[g].stage = "running" <=>
                        \E i \in 1..n : native[i].kind = "resume" /\ native[i].gen = g
    OBVIOUS
  <2>1. ASSUME NEW i \in 1..n, native[i].kind = "resume", native[i].gen = g PROVE gs[g].stage = "running"
    BY <1>13, <2>1
  <2>2. ASSUME gs[g].stage = "running" PROVE \E i \in 1..n : native[i].kind = "resume" /\ native[i].gen = g
    <3>1. g # G /\ gens[g].stage = "running"
      BY <1>2, <2>2
    <3>2. PICK i \in 1..Len(native) : native[i].kind = "resume" /\ native[i].gen = g
      BY <3>1 DEF Runs
    <3>3. i # Here
      BY <1>6, <3>1, <3>2
    <3>4. i \in 1..n
      BY <1>6, <1>8, <3>3
    <3> QED BY <3>2, <3>4
  <2> QED BY <2>1, <2>2
<1>15. \A i \in 1..(n - 1) : native[i].kind = "resume" => gs[native[i].gen] = gens[native[i].gen]
  <2>1. \A i \in 1..(n - 1) : i \in 1..n
    BY <1>8
  <2> QED BY <1>13, <2>1
<1> HIDE DEF n
<1>16. Runs(ms, gs)
  <2>1. n \in 1..Len(native)
    BY <1>8
  <2> HIDE DEF gs
  <2>2. Runs(SubSeq(native, 1, n), gs)
    BY <1>14, <1>15, <2>1, RunsCut DEF Remains
  <2> QED BY <2>2
<1> HIDE DEF ms
<1> DEFINE K == Live(gs, orphans) \ S
<1>17. Owned(ms, gs, K)
  <2>1. \A i \in 1..Len(ms) : ms[i].use.gen # Null =>
           i \in 1..Len(native) /\ ms[i].use.gen = native[i].use.gen /\ ms[i].use.gen \in K
    BY <1>3, <1>10, <1>12 DEF Owned
  <2>2. \A k \in Gens : \A d \in Depths : gs[k].use[d].gen # Null =>
           gs[k].use[d].gen = gs[k].use[d].gen /\ gs[k].use[d].gen \in K
    BY <1>3 DEF Owned
  <2>3. Null \notin K
    BY NullAssumption DEF Live
  <2>4. \A i \in 1..Len(native) : native[i].use.gen \in K =>
           i \in 1..Len(ms) /\ ms[i].use.gen = native[i].use.gen
    <3> SUFFICES ASSUME NEW i \in 1..Len(native), native[i].use.gen \in K
                 PROVE  i \in 1..Len(ms) /\ ms[i].use.gen = native[i].use.gen
      OBVIOUS
    <3>1. i # Here
      BY <1>6, <2>3, NoUseType
    <3>2. i \in 1..n
      BY <1>6, <1>8, <3>1
    <3> QED BY <1>10, <3>2
  <2>5. Owned(native, gs, K) /\ K \in SUBSET K
    BY <1>3
  <2> HIDE DEF K
  <2>6. \A k \in Gens : \A d \in Depths : gs[k].use[d].gen \in K => gs[k].use[d].gen = gs[k].use[d].gen
    OBVIOUS
  <2> QED BY <2>1, <2>2, <2>4, <2>5, <2>6, OwnedLess
<1>18. orphans \subseteq There(gs)
  <2>1. h.stage # "none"
    OBVIOUS
  <2> QED BY <1>1, <1>2, <2>1 DEF There
<1>19. \A g \in S : gs[g].stage # "running"
  BY <1>2, <1>3
<1>20. /\ Frames(hs) /\ Runs(ms, hs)
       /\ Owned(ms, hs, Live(hs, orphans)) /\ orphans \subseteq There(hs)
       /\ \A g \in Gens : gs[g].stage = "running" => hs[g] = gs[g]
  <2> DEFINE A == AfterDrop(gs, S)
  <2>1. /\ Frames(A) /\ Runs(ms, A)
        /\ Owned(ms, A, Live(A, orphans)) /\ orphans \subseteq There(A)
        /\ \A g \in Gens : A[g].stage = "running" <=> gs[g].stage = "running"
        /\ \A g \in Gens : gs[g].stage = "running" => A[g] = gs[g] /\ g \notin Tree(gs, S)
    BY <1>3, <1>5, <1>11, <1>16, <1>17, <1>18, <1>19, Release
  <2>2. hs = A
    BY <1>4
  <2> HIDE DEF A
  <2> QED BY <2>1, <2>2
<1>21. \A i \in 1..n : native[i].kind = "resume" => hs[native[i].gen] = gens[native[i].gen]
  BY <1>13, <1>20
<1>22. \A i \in 1..n : LevelsOf(native[i], hs) = LevelsOf(native[i], gens)
  <2> SUFFICES ASSUME NEW i \in 1..n PROVE LevelsOf(native[i], hs) = LevelsOf(native[i], gens)
    OBVIOUS
  <2>1. native[i].kind \in {"fn", "resume"}
    BY <1>12, StackIs
  <2> QED BY <1>21, <2>1 DEF LevelsOf
<1>23. UseOf(ms, hs, n).gen = G
  <2>1. n \in 1..n /\ n \in 1..(Len(native) - 1)
    BY <1>6, <1>8
  <2>2. native[n].kind \in {"fn", "resume"} /\ ms[n] = native[n]
    BY <1>10, <1>12, <2>1, StackIs
  <2>3. UseOf(ms, hs, n) = UseOf(native, gens, n)
    BY <1>21, <2>1, <2>2 DEF UseOf
  <2>4. UseOf(native, gens, n).gen = native[n + 1].gen
    BY <1>6, <1>8, <2>1 DEF Runs
  <2> QED BY <1>6, <1>8, <2>3, <2>4
<1>24. Bodied(ms, hs)
  <2> SUFFICES ASSUME NEW i \in 1..n, native[i].kind = "resume" PROVE hs[native[i].gen].blocks # <<>>
    BY <1>10 DEF Bodied
  <2>1. i \in 1..Len(native)
    BY <1>12
  <2>2. gens[native[i].gen].blocks # <<>>
    BY <2>1 DEF Bodied
  <2> QED BY <1>21, <2>2
<1>25. G \in Tree(gs, S) \/ hs[G] = h
  BY <1>1, <1>2, <1>4 DEF AfterDrop
<1>26. n \in 1..Here
  BY <1>6, <1>8
<1> QED BY <1>9, <1>11, <1>20, <1>22, <1>23, <1>24, <1>25, <1>26 DEF ms, n, gs

\* The function on top lets the frames of S go, and goes on or returns.
LEMMA FunctionChange ==
  ASSUME Stacks(native), Frames(gens), Runs(native, gens), Bodied(native, gens), Top.kind = "fn",
         Owned(native, gens, Live(gens, orphans)), orphans \subseteq There(gens),
         NEW ms, Stacks(ms), Same(native, ms) \/ ms = SubSeq(native, 1, Here - 1),
         NEW S \in SUBSET Gens, S \subseteq {native[Here].use.gen},
         Len(ms) = Here => /\ ms[Here].use.gen = native[Here].use.gen => S = {}
                           /\ ms[Here].use.gen # native[Here].use.gen => ms[Here].use.gen = Null,
         ~(Len(ms) = Here /\ ms[Here].use.gen = native[Here].use.gen) =>
           S = {native[Here].use.gen} \ {Null}
  PROVE  /\ Owned(ms, gens, Live(gens, orphans) \ S) /\ Runs(ms, gens)
         /\ S \cap orphans = {} /\ \A g \in S : gens[g].stage # "running"
         /\ \A i \in 1..Len(ms) : ms[i].kind = "fn"
<1> DEFINE L == Live(gens, orphans)
           K == L \ S
           u == native[Here].use.gen
<1>1. /\ Here = Len(native) /\ Shape(native) /\ Here \in Nat /\ Here \in 1..Here /\ Here > 0
      /\ native[Here].kind = "fn" /\ native \in Seq(Activations)
  BY TopIs DEF Stacks
<1>2. gens \in [Gens -> GenFrames]
  BY DEF Frames
<1>3. \A g \in S : gens[g].stage # "running"
  <2> SUFFICES ASSUME NEW g \in S PROVE gens[g].stage # "running"
    OBVIOUS
  <2>1. g \in Gens /\ native[Here].use.gen = g
    OBVIOUS
  <2> QED BY <2>1, TopHoldsIdle
<1>4. Null \notin L
  BY NullAssumption DEF Live
<1>5. S \subseteq L /\ Null \notin S
  <2>1. Null \notin S
    BY NullAssumption
  <2> QED BY <1>1, <2>1 DEF Owned
<1>6. S \cap orphans = {}
  BY <1>5 DEF Live
<1>7. \A i \in 1..Len(ms) : /\ i \in 1..Here /\ ms[i].kind = native[i].kind
                            /\ i # Here => ms[i] = native[i]
  <2>1. CASE Same(native, ms)
    <3>1. Len(ms) = Here /\ \A i \in 1..Here : i # Here => i \in 1..(Len(native) - 1)
      BY <1>1, <2>1 DEF Same
    <3> QED BY <1>1, <2>1, <3>1 DEF Same
  <2>2. CASE ms = SubSeq(native, 1, Here - 1)
    <3>1. Here - 1 \in 0..Len(native)
      BY <1>1
    <3>2. Len(ms) = Here - 1 /\ \A i \in 1..(Here - 1) : ms[i] = native[i]
      BY <1>1, <2>2, <3>1, CutSeq
    <3> QED BY <1>1, <3>2
  <2> QED BY <2>1, <2>2
<1>8. Len(ms) = Here \/ Len(ms) = Here - 1
  <2>1. ms = SubSeq(native, 1, Here - 1) => Len(ms) = Here - 1
    <3>1. Here - 1 \in 0..Len(native)
      BY <1>1
    <3> QED BY <1>1, <3>1, CutSeq
  <2> QED BY <1>1, <2>1 DEF Same
<1>9. \A i \in 1..Here : native[i].kind = "fn"
  BY <1>1 DEF Shape
<1>10. \A i \in 1..Len(ms) : ms[i].kind = "fn"
  BY <1>7, <1>9
<1>11. \A g \in Gens : gens[g].stage # "running"
  BY <1>1, <1>9 DEF Runs
<1>12. Runs(ms, gens)
  <2>1. Len(ms) \in Nat /\ \A i \in 1..(Len(ms) - 1) : i + 1 \in 1..Len(ms)
    BY <1>1, <1>8
  <2>2. \A i \in 1..Len(ms) : ms[i].kind # "resume"
    BY <1>10
  <2> QED BY <1>11, <2>1, <2>2 DEF Runs
<1> HIDE DEF L
<1>13. Owned(native, gens, L)
  BY DEF L
<1>14. \A i \in 1..Len(ms) : ms[i].use.gen # Null =>
         i \in 1..Len(native) /\ ms[i].use.gen = native[i].use.gen /\ ms[i].use.gen \in K
  <2> SUFFICES ASSUME NEW i \in 1..Len(ms), ms[i].use.gen # Null
               PROVE  i \in 1..Len(native) /\ ms[i].use.gen = native[i].use.gen /\ ms[i].use.gen \in K
    OBVIOUS
  <2>1. i \in 1..Here
    BY <1>7
  <2>2. CASE i = Here
    <3>1. Len(ms) = Here
      BY <1>1, <1>8, <2>2
    <3>2. ms[i].use.gen = u
      BY <2>2, <3>1
    <3>3. S = {}
      BY <2>2, <3>1, <3>2
    <3> QED BY <1>1, <1>13, <2>1, <2>2, <3>2, <3>3 DEF Owned
  <2>3. CASE i # Here
    <3>1. ms[i] = native[i] /\ native[i].use.gen \in L
      BY <1>1, <1>7, <1>13, <2>1, <2>3 DEF Owned
    <3>2. native[i].use.gen # u
      BY <1>1, <1>7, <1>13, <2>1, <2>3, <3>1 DEF Owned
    <3> QED BY <1>1, <2>1, <3>1, <3>2
  <2> QED BY <2>2, <2>3
<1>15. \A h \in Gens : \A d \in Depths : gens[h].use[d].gen # Null =>
         gens[h].use[d].gen = gens[h].use[d].gen /\ gens[h].use[d].gen \in K
  <2> SUFFICES ASSUME NEW h \in Gens, NEW d \in Depths, gens[h].use[d].gen # Null
               PROVE  gens[h].use[d].gen \in L /\ gens[h].use[d].gen \notin S
    OBVIOUS
  <2>1. gens[h].use[d].gen \in L
    BY <1>13 DEF Owned
  <2>2. gens[h].use[d].gen # u
    BY <1>1, <1>13 DEF Owned
  <2> QED BY <2>1, <2>2
<1>16. \A i \in 1..Len(native) : native[i].use.gen \in K =>
         i \in 1..Len(ms) /\ ms[i].use.gen = native[i].use.gen
  <2> SUFFICES ASSUME NEW i \in 1..Len(native), native[i].use.gen \in K
               PROVE  i \in 1..Len(ms) /\ ms[i].use.gen = native[i].use.gen
    OBVIOUS
  <2>1. CASE i = Here
    <3>1. u # Null /\ S # {u}
      BY <1>4, <2>1
    <3>2. Len(ms) = Here /\ ms[Here].use.gen = u
      BY <3>1
    <3> QED BY <1>1, <2>1, <3>2
  <2>2. CASE i # Here
    <3>1. i \in 1..Len(ms)
      BY <1>1, <1>8, <2>2
    <3> QED BY <1>7, <2>2, <3>1
  <2> QED BY <2>1, <2>2
<1>17. K \in SUBSET L
  OBVIOUS
<1>18. \A h \in Gens : \A d \in Depths : gens[h].use[d].gen \in K => gens[h].use[d].gen = gens[h].use[d].gen
  OBVIOUS
<1> HIDE DEF K, u
<1>19. Owned(ms, gens, K)
  BY <1>13, <1>14, <1>15, <1>16, <1>17, <1>18, OwnedLess
<1> QED BY <1>3, <1>6, <1>10, <1>12, <1>19 DEF K, L

-----------------------------------------------------------------------------
(* The steps of a generator                                                *)

LEMMA Relabel ==
  ASSUME NEW f \in GenFrames, Framed(f), NEW h \in GenFrames, h.stage = f.stage, f.stage # "none",
         Len(h.blocks) = Len(f.blocks),
         \A e \in 1..Len(f.blocks) :
           \/ h.blocks[e].kind = f.blocks[e].kind
           \/ f.blocks[e].kind = "caught" /\ h.blocks[e].kind = "handler",
         \A d \in Depths : h.use[d].gen # Null =>
           h.use[d].gen = f.use[d].gen /\ h.use[d].mode = f.use[d].mode
  PROVE  Framed(h) /\ TriesOf(h) = TriesOf(f) /\ (f.blocks # <<>> => h.blocks # <<>>)
<1> DEFINE n == Len(f.blocks)
<1>1. /\ f.blocks \in Seq(Blocks) /\ h.blocks \in Seq(Blocks) /\ n \in Nat /\ n <= MaxDepth
      /\ DOMAIN f.blocks = 1..n /\ DOMAIN h.blocks = 1..n
  BY FrameFields, LenNat DEF Framed
<1>2. TriesOf(h) = TriesOf(f)
  BY <1>1 DEF TriesOf
<1>3. (f.blocks # <<>> <=> n # 0) /\ (h.blocks # <<>> <=> n # 0)
  BY <1>1, EmptySeq
<1>4. h.blocks # <<>> => h.blocks[1].kind = "body"
  <2> SUFFICES ASSUME h.blocks # <<>> PROVE h.blocks[1].kind = "body"
    OBVIOUS
  <2>1. 1 \in 1..n /\ f.blocks # <<>>
    BY <1>1, <1>3
  <2>2. f.blocks[1].kind = "body"
    BY <2>1 DEF Framed
  <2> QED BY <2>1, <2>2
<1>5. ASSUME NEW d \in Depths, h.use[d].gen # Null, h.use[d].mode # "for"
      PROVE  h.stage = "running" /\ d = Len(h.blocks) /\ h.blocks[d].kind = "stmt"
  <2>1. f.stage = "running" /\ d = n /\ f.blocks[d].kind = "stmt"
    BY <1>5 DEF Framed
  <2>2. d \in 1..n
    <3>1. d \in Nat /\ d > 0
      BY DepthsFinite DEF Depths
    <3> QED BY <2>1, <3>1
  <2> QED BY <2>1, <2>2
<1> QED BY <1>1, <1>2, <1>3, <1>4, <1>5 DEF Framed

LEMMA Parts ==
  ASSUME IInv
  PROVE  /\ Stacks(native) /\ Frames(gens) /\ Runs(native, gens) /\ Bodied(native, gens)
         /\ Owned(native, gens, Live(gens, orphans)) /\ orphans \subseteq There(gens)
         /\ Windows(native, tries, gens) /\ tries \in Seq(TryFrames)
         /\ count \in [Values -> Int] /\ lost \in [Values -> Nat]
         /\ pc \in {"run", "exit"} /\ ret \in {"none", "value", "end"}
         /\ Returned
BY DEF IInv, Counters, There

LEMMA Whole ==
  ASSUME Stacks(native'), Frames(gens'), Runs(native', gens'), Bodied(native', gens'),
         Owned(native', gens', Live(gens', orphans')), orphans' \subseteq There(gens'),
         Windows(native', tries', gens'), tries' \in Seq(TryFrames),
         count' \in [Values -> Int], lost' \in [Values -> Nat],
         pc' \in {"run", "exit"}, ret' \in {"none", "value", "end"},
         ret' # "none" => /\ pc' = "run" /\ UseOf(native', gens', Len(native')).gen # Null
                          /\ ret' = "value" =>
                               gens'[UseOf(native', gens', Len(native')).gen].value \in Values
  PROVE  IInv'
<1>1. Returned'
  BY DEF Returned, Here
<1> QED BY <1>1 DEF IInv, Counters, There

\* The tries of the generator that runs, and its window.
LEMMA TopWindow ==
  ASSUME Stacks(native), Frames(gens), tries \in Seq(TryFrames), Windows(native, tries, gens),
         Top.kind = "resume"
  PROVE  /\ Top.depth \in Nat /\ Len(tries) \in Nat /\ Top.depth <= Len(tries)
         /\ Top.depth = native[Len(native)].depth
         /\ Window(native[Len(native)], tries, Top.depth, Len(tries), TriesOf(gens[G]))
         /\ Unwinding(native, tries, Len(native), Top.depth, Len(tries))
         /\ LevelsOf(native[Len(native)], gens) = TriesOf(gens[G])
<1> DEFINE n == Len(native)
<1>1. /\ n \in Nat /\ n > 0 /\ n \in 1..n /\ native[n] \in Activations
      /\ Top = native[n] /\ G = native[n].gen /\ native[n].kind = "resume"
  BY TopIs
<1>2. EndOf(native, tries, n) = Len(tries)
  BY DEF EndOf
<1>3. LevelsOf(native[n], gens) = TriesOf(gens[G])
  BY <1>1 DEF LevelsOf
<1>4. native[n].depth \in Nat /\ Len(tries) \in Nat
  BY <1>1, ActivationFields, LenNat
<1>5. /\ Window(native[n], tries, native[n].depth, EndOf(native, tries, n), LevelsOf(native[n], gens))
      /\ Unwinding(native, tries, n, native[n].depth, EndOf(native, tries, n))
      /\ native[n].depth <= Len(tries)
  BY <1>1 DEF Windows
<1> QED BY <1>1, <1>2, <1>3, <1>4, <1>5

\* TRY_STACK follows the frame of the generator that runs.
Follows(h) ==
  \/ tries' = tries /\ TriesOf(h) = TriesOf(gens[G])
  \/ /\ tries' \in Seq(TryFrames) /\ Top.depth <= Len(tries')
     /\ \A k \in 1..Top.depth : tries'[k] = tries[k]
     /\ Window(Top, tries', Top.depth, Len(tries'), TriesOf(h))
     /\ Unwinding(native, tries', Here, Top.depth, Len(tries'))

\* A step of the generator that runs, after which it goes on.
LEMMA GoesOn ==
  ASSUME IInv, Top.kind = "resume", pc' = pc, ret' = "none", native' = native, orphans' = orphans,
         count' \in [Values -> Int], lost' \in [Values -> Nat],
         NEW h \in GenFrames, Framed(h), h.stage = "running", h.blocks # <<>>, NEW S \in SUBSET Gens,
         Passes(gens[G], h, S), gens' = AfterDrop([gens EXCEPT ![G] = h], S), Follows(h)
  PROVE  IInv'
<1> DEFINE n == Len(native)
<1>1. /\ Stacks(native) /\ Frames(gens) /\ Runs(native, gens) /\ Bodied(native, gens)
      /\ Owned(native, gens, Live(gens, orphans)) /\ orphans \subseteq There(gens)
      /\ Windows(native, tries, gens) /\ tries \in Seq(TryFrames)
      /\ pc \in {"run", "exit"}
  BY Parts
<1>2. /\ Frames(gens') /\ Runs(native, gens') /\ Bodied(native, gens')
      /\ Owned(native, gens', Live(gens', orphans)) /\ orphans \subseteq There(gens')
      /\ Steady(native, gens, gens') /\ gens'[G] = h
  <2> DEFINE hs == AfterDrop([gens EXCEPT ![G] = h], S)
  <2>1. hs = AfterDrop([gens EXCEPT ![G] = h], S)
    OBVIOUS
  <2> HIDE DEF hs
  <2>2. /\ Frames(hs) /\ Runs(native, hs) /\ Bodied(native, hs)
        /\ Owned(native, hs, Live(hs, orphans)) /\ orphans \subseteq There(hs)
        /\ Steady(native, gens, hs) /\ hs[G] = h
    <3>1. Frames(hs) /\ Runs(native, hs)
      BY <1>1, <2>1, TopChange
    <3>2. Owned(native, hs, Live(hs, orphans)) /\ orphans \subseteq There(hs)
      BY <1>1, <2>1, TopChange
    <3>3. Steady(native, gens, hs) /\ hs[G] = h /\ Bodied(native, hs)
      BY <1>1, <2>1, TopChange
    <3> QED BY <3>1, <3>2, <3>3
  <2>3. gens' = hs
    BY <2>1
  <2> QED BY <2>2, <2>3
<1>3. /\ Here = n /\ n \in 1..n /\ Top = native[n] /\ native[n].kind = "resume" /\ G = native[n].gen
  BY <1>1, TopIs
<1>4. Same(native, native)
  BY <1>1, SameIs
<1>5. Windows(native, tries', gens') /\ tries' \in Seq(TryFrames)
  <2>1. CASE tries' = tries /\ TriesOf(h) = TriesOf(gens[G])
    <3>1. TriesOf(gens'[native[n].gen]) = TriesOf(gens[native[n].gen])
      BY <1>2, <1>3, <2>1
    <3>2. Windows(native, tries, gens')
      BY <1>1, <1>2, <1>4, <3>1, WindowsSame
    <3> QED BY <1>1, <2>1, <3>2
  <2>2. CASE /\ tries' \in Seq(TryFrames) /\ Top.depth <= Len(tries')
             /\ \A k \in 1..Top.depth : tries'[k] = tries[k]
             /\ Window(Top, tries', Top.depth, Len(tries'), TriesOf(h))
             /\ Unwinding(native, tries', Here, Top.depth, Len(tries'))
    <3>1. LevelsOf(native[n], gens') = TriesOf(h)
      BY <1>2, <1>3 DEF LevelsOf
    <3>2. PICK us \in Seq(TryFrames) : us = tries'
      BY <2>2
    <3>3. PICK hs : hs = gens'
      OBVIOUS
    <3>4. /\ native[n].depth <= Len(us)
          /\ \A k \in 1..native[n].depth : us[k] = tries[k]
          /\ Window(native[n], us, native[n].depth, Len(us), LevelsOf(native[n], hs))
          /\ Unwinding(native, us, n, native[n].depth, Len(us))
      BY <1>3, <2>2, <3>1, <3>2, <3>3
    <3>5. Steady(native, gens, hs)
      BY <1>2, <3>3
    <3>6. Windows(native, us, hs)
      BY <1>1, <1>4, <3>4, <3>5, WindowsTop
    <3> QED BY <2>2, <3>2, <3>3, <3>6
  <2> QED BY <2>1, <2>2 DEF Follows
<1>6. pc' \in {"run", "exit"} /\ ret' \in {"none", "value", "end"}
  BY <1>1
<1> QED BY <1>1, <1>2, <1>5, <1>6, Whole

\* Nothing is released.
LEMMA NoDrop ==
  ASSUME Frames(gens), NEW h \in GenFrames
  PROVE  AfterDrop([gens EXCEPT ![G] = h], {}) = [gens EXCEPT ![G] = h]
<1>1. [gens EXCEPT ![G] = h] \in [Gens -> GenFrames]
  BY DEF Frames
<1> QED BY <1>1, TreeNone

LEMMA PutSeq ==
  ASSUME NEW S, NEW s \in Seq(S), NEW k \in 1..Len(s), NEW x \in S
  PROVE  /\ [s EXCEPT ![k] = x] \in Seq(S) /\ Len([s EXCEPT ![k] = x]) = Len(s)
         /\ [s EXCEPT ![k] = x][k] = x
         /\ \A i \in 1..Len(s) : i # k => [s EXCEPT ![k] = x][i] = s[i]
<1>1. Len(s) \in Nat /\ DOMAIN s = 1..Len(s)
  BY LenNat
<1>2. [s EXCEPT ![k] = x] \in Seq(S) /\ Len([s EXCEPT ![k] = x]) = Len(s)
  BY ExceptSeq
<1> QED BY <1>1, <1>2

\* The generator that runs, in a state of the invariant.
LEMMA Working ==
  ASSUME IInv, Top.kind = "resume"
  PROVE  /\ gens \in [Gens -> GenFrames] /\ G \in Gens
         /\ gens[G] \in GenFrames /\ Framed(gens[G]) /\ gens[G].stage = "running"
         /\ gens[G].blocks \in Seq(Blocks) /\ Depth = Len(gens[G].blocks)
         /\ Depth \in Nat /\ Depth > 0 /\ Depth \in Depths /\ Depth \in 1..Depth
         /\ gens[G].blocks # <<>> /\ DOMAIN gens[G].blocks = 1..Depth
         /\ Innermost = gens[G].blocks[Depth] /\ Innermost \in Blocks
         /\ gens[G].blocks[1].kind = "body"
         /\ \A d \in 1..Depth : d \in Depths /\ gens[G].blocks[d] \in Blocks
         /\ Frames(gens) /\ Stacks(native)
<1>1. /\ Stacks(native) /\ Frames(gens) /\ Runs(native, gens) /\ Bodied(native, gens)
  BY Parts
<1>2. /\ gens \in [Gens -> GenFrames] /\ G \in Gens
      /\ gens[G] \in GenFrames /\ Framed(gens[G]) /\ gens[G].stage = "running"
      /\ gens[G].blocks \in Seq(Blocks) /\ Depth = Len(gens[G].blocks)
      /\ Depth \in Nat /\ Depth > 0 /\ Depth \in Depths
      /\ gens[G].blocks # <<>>
      /\ Innermost = gens[G].blocks[Depth] /\ Innermost \in Blocks
      /\ gens[G].blocks[1].kind = "body"
      /\ \A d \in 1..Depth : d \in Depths /\ gens[G].blocks[d] \in Blocks
  BY <1>1, WorkIs
<1>3. Depth \in 1..Depth
  BY <1>2
<1>4. DOMAIN gens[G].blocks = 1..Depth
  BY <1>2
<1> QED BY <1>1, <1>2, <1>3, <1>4

\* A step that opens and leaves no block.
LEMMA StaysOpen ==
  ASSUME IInv, Top.kind = "resume", pc' = pc, ret' = "none", native' = native, orphans' = orphans,
         count' \in [Values -> Int], lost' \in [Values -> Nat],
         NEW h \in GenFrames, h.stage = gens[G].stage, Len(h.blocks) = Depth,
         \A e \in 1..Depth :
           \/ h.blocks[e].kind = gens[G].blocks[e].kind
           \/ gens[G].blocks[e].kind = "caught" /\ h.blocks[e].kind = "handler",
         \A d \in Depths : h.use[d].gen = gens[G].use[d].gen /\ h.use[d].mode = gens[G].use[d].mode,
         gens' = [gens EXCEPT ![G] = h], tries' = tries
  PROVE  IInv'
<1>1. /\ gens[G] \in GenFrames /\ Framed(gens[G]) /\ gens[G].stage = "running"
      /\ Depth = Len(gens[G].blocks) /\ gens[G].blocks # <<>> /\ Frames(gens)
  BY Working
<1>2. Framed(h) /\ TriesOf(h) = TriesOf(gens[G]) /\ (gens[G].blocks # <<>> => h.blocks # <<>>)
  <2>1. gens[G].stage # "none"
    BY <1>1
  <2>2. \A d \in Depths : h.use[d].gen # Null =>
          h.use[d].gen = gens[G].use[d].gen /\ h.use[d].mode = gens[G].use[d].mode
    OBVIOUS
  <2>3. PICK f \in GenFrames : f = gens[G]
    BY <1>1
  <2>4. /\ Framed(f) /\ h.stage = f.stage /\ f.stage # "none" /\ Len(h.blocks) = Len(f.blocks)
        /\ \A e \in 1..Len(f.blocks) :
             \/ h.blocks[e].kind = f.blocks[e].kind
             \/ f.blocks[e].kind = "caught" /\ h.blocks[e].kind = "handler"
        /\ \A d \in Depths : h.use[d].gen # Null =>
             h.use[d].gen = f.use[d].gen /\ h.use[d].mode = f.use[d].mode
    BY <1>1, <2>1, <2>2, <2>3
  <2>5. Framed(h) /\ TriesOf(h) = TriesOf(f) /\ (f.blocks # <<>> => h.blocks # <<>>)
    BY <2>4, Relabel
  <2> QED BY <2>3, <2>5
<1>3. gens' = AfterDrop([gens EXCEPT ![G] = h], {})
  BY <1>1, NoDrop
<1>4. h.stage = "running" /\ h.blocks # <<>>
  BY <1>1, <1>2
<1>5. PICK S \in SUBSET Gens : S = {}
  OBVIOUS
<1>6. Passes(gens[G], h, S) /\ gens' = AfterDrop([gens EXCEPT ![G] = h], S)
  BY <1>3, <1>5 DEF Passes
<1>7. Follows(h)
  BY <1>2 DEF Follows
<1> QED BY <1>2, <1>4, <1>6, <1>7, GoesOn

\* Declare
LEMMA DeclareStep == ASSUME IInv, Declare PROVE IInv'
<1>1. PICK v \in Values :
        /\ AtWork /\ ~Innermost.declared /\ Room(v)
        /\ gens' = [gens EXCEPT ![G].blocks[Depth].declared = TRUE, ![G].local[Depth] = v]
        /\ count' = Taken(count, v)
        /\ Forget(<<gens[G].local[Depth]>>)
        /\ UNCHANGED <<pc, native, tries, ret, orphans>>
  BY DEF Declare
<1>2. Top.kind = "resume" /\ pc = "run" /\ ret = "none"
  BY <1>1 DEF AtWork
<1>3. /\ gens \in [Gens -> GenFrames] /\ G \in Gens /\ gens[G] \in GenFrames
      /\ gens[G].blocks \in Seq(Blocks) /\ Depth = Len(gens[G].blocks)
      /\ Depth \in Depths /\ Depth \in 1..Depth
      /\ Innermost = gens[G].blocks[Depth] /\ Innermost \in Blocks
  BY <1>2, Working
<1> DEFINE f  == gens[G]
           b  == [f.blocks[Depth] EXCEPT !.declared = TRUE]
           bs == [f.blocks EXCEPT ![Depth] = b]
           ls == [f.local EXCEPT ![Depth] = v]
           h  == [f EXCEPT !.blocks = bs, !.local = ls]
<1>4. b \in Blocks /\ b.kind = f.blocks[Depth].kind
  BY <1>3 DEF Blocks
<1>5. /\ bs \in Seq(Blocks) /\ Len(bs) = Depth /\ bs[Depth] = b
      /\ \A e \in 1..Depth : e # Depth => bs[e] = f.blocks[e]
  BY <1>3, <1>4, PutSeq
<1>6. ls \in [Depths -> Values \cup {Null}]
  BY <1>3, FrameFields
<1>7. gens' = [gens EXCEPT ![G] = h]
  BY <1>1, <1>3
<1> HIDE DEF b, bs, ls
<1>8. h \in GenFrames /\ h.stage = f.stage /\ h.blocks = bs /\ h.use = f.use
  BY <1>3, <1>5, <1>6 DEF GenFrames
<1>9. \A e \in 1..Depth : h.blocks[e].kind = f.blocks[e].kind
  BY <1>4, <1>5, <1>8
<1>10. count' \in [Values -> Int] /\ lost' \in [Values -> Nat]
  <2>1. count \in [Values -> Int] /\ lost \in [Values -> Nat]
    BY Parts
  <2> QED BY <1>1, <2>1, TakenType, SingletonFinite, Forgetting
<1> HIDE DEF h
<1>11. Len(h.blocks) = Depth /\ ret' = "none" /\ pc' = pc /\ native' = native /\ orphans' = orphans /\ tries' = tries
  BY <1>1, <1>2, <1>5, <1>8
<1> QED BY <1>2, <1>7, <1>8, <1>9, <1>10, <1>11, StaysOpen
\* A generator that consumes keeps what it holds in its frame.
LEMMA PutInside ==
  ASSUME Stacks(native), Top.kind = "resume", NEW gs, NEW u, Put(gs, u)
  PROVE  native' = native /\ gens' = [gs EXCEPT ![G].use[Depth] = u]
<1>1. Top = native[Here] /\ Top.kind # "fn" /\ Here \in 1..Here /\ native \in Seq(Activations)
      /\ native[Here] \in Activations /\ Here = Len(native)
  BY TopIs
<1>2. native' = [native EXCEPT ![Here].use = IF Top.kind = "fn" THEN u ELSE @]
  BY DEF Put
<1> DEFINE a == native[Here]
           b == [a EXCEPT !.use = IF Top.kind = "fn" THEN u ELSE @]
<1>3. b = a
  BY <1>1 DEF Activations
<1>4. native' = [native EXCEPT ![Here] = b]
  BY <1>2
<1> HIDE DEF b
<1>5. native' = native
  BY <1>1, <1>3, <1>4
<1>6. gens' = [gs EXCEPT ![G].use[Depth] = u]
  BY <1>1 DEF Put
<1> QED BY <1>5, <1>6

\* What a resume has returned, its consumer takes next.
LEMMA Idle ==
  ASSUME IInv, Top.kind = "resume", ~Consumes(Innermost)
  PROVE  ret = "none"
<1>1. /\ Stacks(native) /\ Frames(gens) /\ Runs(native, gens) /\ Bodied(native, gens) /\ Returned
  BY Parts
<1>2. Use = UseOf(native, gens, Here) /\ Use = NoUse
  BY <1>1, UseIs
<1> QED BY <1>1, <1>2, NoUseType DEF Returned

LEMMA Consuming ==
  ASSUME IInv, ret # "none"
  PROVE  /\ Use.gen \in Gens /\ pc = "run"
         /\ ret = "value" => gens[Use.gen].value \in Values
         /\ Top.kind = "resume" => Consumes(Innermost) /\ Use = gens[G].use[Depth]
         /\ Top.kind = "fn" => Use = native[Here].use
<1>1. /\ Stacks(native) /\ Frames(gens) /\ Runs(native, gens) /\ Bodied(native, gens) /\ Returned
  BY Parts
<1>2. /\ Use = UseOf(native, gens, Here) /\ Use \in Uses
      /\ Top.kind = "fn" => Use = native[Here].use
      /\ Top.kind = "resume" => Use = IF Consumes(Innermost) THEN gens[G].use[Depth] ELSE NoUse
  BY <1>1, UseIs
<1>3. Use.gen # Null /\ pc = "run" /\ (ret = "value" => gens[Use.gen].value \in Values)
  BY <1>1, <1>2 DEF Returned
<1>4. Use.gen \in Gens
  BY <1>2, <1>3, UseFields
<1>5. NoUse.gen = Null
  BY NoUseType
<1> QED BY <1>2, <1>3, <1>4, <1>5

LEMMA MatchStep == ASSUME IInv, Match PROVE IInv'
<1>1. /\ Top.kind = "resume" /\ Innermost.kind = "caught"
      /\ gens' = [gens EXCEPT ![G].blocks[Depth] = Block("handler"), ![G].err[Depth] = Innermost.raised]
      /\ Forget(<<gens[G].err[Depth]>>)
      /\ pc' = pc /\ native' = native /\ tries' = tries /\ count' = count /\ ret' = ret
      /\ orphans' = orphans
  BY DEF Match
<1>2. /\ gens \in [Gens -> GenFrames] /\ G \in Gens /\ gens[G] \in GenFrames
      /\ gens[G].blocks \in Seq(Blocks) /\ Depth = Len(gens[G].blocks)
      /\ Depth \in Depths /\ Depth \in 1..Depth
      /\ Innermost = gens[G].blocks[Depth] /\ Innermost \in Blocks
  BY <1>1, Working
<1>3. ret' = "none"
  BY <1>1, Idle DEF Consumes
<1> DEFINE f  == gens[G]
           b  == Block("handler")
           bs == [f.blocks EXCEPT ![Depth] = b]
           es == [f.err EXCEPT ![Depth] = Innermost.raised]
           h  == [f EXCEPT !.blocks = bs, !.err = es]
<1>4. b \in Blocks /\ b.kind = "handler"
  BY DEF Block, Blocks, Kinds
<1>5. /\ bs \in Seq(Blocks) /\ Len(bs) = Depth /\ bs[Depth] = b
      /\ \A e \in 1..Depth : e # Depth => bs[e] = f.blocks[e]
  <2> HIDE DEF b
  <2> QED BY <1>2, <1>4, PutSeq
<1>6. es \in [Depths -> Values \cup {Null}]
  BY <1>2, FrameFields, BlockFields
<1>7. gens' = [gens EXCEPT ![G] = h]
  BY <1>1, <1>2
<1> HIDE DEF b, bs, es
<1>8. h \in GenFrames /\ h.stage = f.stage /\ h.blocks = bs /\ h.use = f.use
  BY <1>2, <1>5, <1>6 DEF GenFrames
<1>9. \A e \in 1..Depth : \/ h.blocks[e].kind = f.blocks[e].kind
                          \/ f.blocks[e].kind = "caught" /\ h.blocks[e].kind = "handler"
  BY <1>1, <1>2, <1>4, <1>5, <1>8
<1>10. count' \in [Values -> Int] /\ lost' \in [Values -> Nat]
  BY <1>1, Parts, SingletonFinite, Forgetting
<1> HIDE DEF h
<1>11. Len(h.blocks) = Depth
  BY <1>5, <1>8
<1> QED BY <1>1, <1>3, <1>7, <1>8, <1>9, <1>10, <1>11, StaysOpen

\* TakeValue, by a generator.
LEMMA TakeValueInside == ASSUME IInv, TakeValue, Top.kind = "resume" PROVE IInv'
<1> DEFINE v == gens[Use.gen].value
           u == [Use EXCEPT !.held = Append(@, v)]
<1>1. /\ ret = "value" /\ ret' = "none" /\ Put(gens, u) /\ count' = Taken(count, v)
      /\ pc' = pc /\ tries' = tries /\ lost' = lost /\ orphans' = orphans
  BY DEF TakeValue
<1>2. /\ gens \in [Gens -> GenFrames] /\ G \in Gens /\ gens[G] \in GenFrames
      /\ Depth = Len(gens[G].blocks) /\ Depth \in Depths
  BY Working
<1>3. Use.gen \in Gens /\ v \in Values /\ Use = gens[G].use[Depth]
  BY <1>1, Consuming
<1>4. Use \in Uses
  BY <1>2, <1>3, FrameFields
<1>5. native' = native
  BY <1>1, Parts, PutInside
<1>6. u \in Uses /\ u.gen = Use.gen /\ u.mode = Use.mode
  <2>1. Append(Use.held, v) \in Seq(Values)
    BY <1>3, <1>4, UseFields, PushSeq
  <2> QED BY <1>4, <2>1 DEF Uses
<1> DEFINE f == gens[G]
           w == [f.use EXCEPT ![Depth] = u]
           h == [f EXCEPT !.use = w]
<1>7. gens' = [gens EXCEPT ![G] = h]
  BY <1>1, <1>2 DEF Put
<1> HIDE DEF u, v
<1>8. w \in [Depths -> Uses]
  BY <1>2, <1>6, FrameFields
<1>9. \A d \in Depths : w[d].gen = f.use[d].gen /\ w[d].mode = f.use[d].mode
  BY <1>2, <1>3, <1>6, FrameFields
<1> HIDE DEF w
<1>10. h \in GenFrames /\ h.stage = f.stage /\ h.blocks = f.blocks /\ h.use = w
  BY <1>2, <1>8 DEF GenFrames
<1>11. count' \in [Values -> Int] /\ lost' \in [Values -> Nat]
  BY <1>1, Parts, TakenType
<1> HIDE DEF h
<1>12. /\ Len(h.blocks) = Depth /\ \A e \in 1..Depth : h.blocks[e].kind = f.blocks[e].kind
       /\ \A d \in Depths : h.use[d].gen = f.use[d].gen /\ h.use[d].mode = f.use[d].mode
  BY <1>2, <1>9, <1>10
<1> QED BY <1>1, <1>5, <1>7, <1>10, <1>11, <1>12, StaysOpen

\* The generator that runs leaves blocks.
LEMMA LeavePasses ==
  ASSUME IInv, Top.kind = "resume", NEW k \in 0..Depth, NEW h,
         \A d \in Depths : h.use[d].gen = LeaveBlocks(gens[G], k).use[d].gen
  PROVE  /\ FramesOfBlocks(gens[G], k) \in SUBSET Gens
         /\ Passes(gens[G], h, FramesOfBlocks(gens[G], k))
<1> DEFINE f == gens[G]
           S == FramesOfBlocks(f, k)
<1>1. /\ gens \in [Gens -> GenFrames] /\ G \in Gens /\ f \in GenFrames /\ Framed(f)
      /\ Depth = Len(f.blocks) /\ Depth \in Nat
      /\ \A d \in 1..Depth : d \in Depths
  BY Working
<1>2. \A d \in Depths : h.use[d].gen =
        IF d > k /\ d <= Depth /\ Consumes(f.blocks[d]) THEN Null ELSE f.use[d].gen
  BY <1>1, LeaveIs, NoUseType
<1>3. \A d \in Depths : f.use[d] \in Uses /\ f.use[d].gen \in Gens \cup {Null} /\ d \in Nat
  BY <1>1, FrameFields, UseFields, DepthsFinite DEF Depths
<1>4. \A d \in (k + 1)..Depth : d \in 1..Depth /\ d > k /\ d <= Depth
  BY <1>1
<1>5. \A g \in S : g \in Gens /\ \E d \in Depths : f.use[d].gen = g /\ d > k /\ d <= Depth /\ Consumes(f.blocks[d])
  BY <1>1, <1>3, <1>4 DEF FramesOfBlocks
<1>6. \A d, e \in Depths : f.use[d].gen # Null /\ f.use[d].gen = f.use[e].gen => d = e
  <2>1. Owned(native, gens, Live(gens, orphans))
    BY Parts
  <2> QED BY <1>1, <2>1 DEF Owned
<1>7. ASSUME NEW d \in Depths, d > k, d <= Depth, Consumes(f.blocks[d]), f.use[d].gen # Null
      PROVE  f.use[d].gen \in S
  <2>1. d \in (k + 1)..Len(f.blocks)
    BY <1>1, <1>3, <1>7
  <2> QED BY <1>7, <2>1 DEF FramesOfBlocks
<1> HIDE DEF S, f
<1>8. ASSUME NEW d \in Depths, h.use[d].gen # Null
      PROVE  h.use[d].gen = f.use[d].gen /\ h.use[d].gen \notin S
  <2>1. h.use[d].gen = f.use[d].gen /\ ~(d > k /\ d <= Depth /\ Consumes(f.blocks[d]))
    BY <1>2, <1>8
  <2> QED BY <1>5, <1>6, <1>8, <2>1
<1>9. \A d \in Depths : f.use[d].gen # Null => h.use[d].gen = f.use[d].gen \/ f.use[d].gen \in S
  BY <1>2, <1>7
<1>10. \A g \in S : \E d \in Depths : f.use[d].gen = g
  BY <1>5
<1>11. Passes(f, h, S)
  BY <1>8, <1>9, <1>10 DEF Passes
<1>12. S \in SUBSET Gens
  BY <1>5
<1> QED BY <1>11, <1>12 DEF S, f
\* The end of the body of a try; lower_try_in_generator.
LEMMA FollowsPop ==
  ASSUME IInv, Top.kind = "resume", NEW h, Depth \in TriesOf(gens[G]),
         TriesOf(h) = TriesOf(gens[G]) \ {Depth}, tries' = Front(tries)
  PROVE  Follows(h)
<1> DEFINE lv == TriesOf(gens[G])
           b  == Top.depth
           n  == Len(tries)
<1>1. /\ b \in Nat /\ n \in Nat /\ b <= n /\ b = native[Len(native)].depth /\ tries \in Seq(TryFrames)
      /\ Window(native[Len(native)], tries, b, n, lv)
      /\ Unwinding(native, tries, Len(native), b, n)
  BY Parts, TopWindow
<1>2. Here = Len(native) /\ Top = native[Here]
  BY Parts, TopIs
<1>3. lv \subseteq 1..Depth /\ Depth \in Nat
  BY Working, TriesAre DEF Framed
<1> HIDE DEF lv, b, n
<1>4. b < n
  <2>1. lv # {}
    BY DEF lv
  <2>2. {tries[k].level : k \in (b + 1)..n} = lv
    BY <1>1 DEF Window
  <2> QED BY <1>1, <2>1, <2>2
<1>5. /\ Front(tries) \in Seq(TryFrames) /\ Len(Front(tries)) = n - 1
      /\ \A k \in 1..(n - 1) : Front(tries)[k] = tries[k]
      /\ Last(tries).level \in lv /\ \A l \in lv : l <= Last(tries).level
      /\ Window(Top, Front(tries), b, n - 1, lv \ {Last(tries).level})
  <2>1. Window(Top, tries, b, Len(tries), lv) /\ b < Len(tries)
    BY <1>1, <1>2, <1>4 DEF n
  <2>2. b \in Nat /\ tries \in Seq(TryFrames)
    BY <1>1
  <2>3. /\ Front(tries) \in Seq(TryFrames) /\ Len(Front(tries)) = Len(tries) - 1
        /\ \A k \in 1..(Len(tries) - 1) : Front(tries)[k] = tries[k]
        /\ Last(tries).level \in lv /\ \A l \in lv : l <= Last(tries).level
        /\ Window(Top, Front(tries), b, Len(tries) - 1, lv \ {Last(tries).level})
    BY <2>1, <2>2, WindowPop
  <2> QED BY <2>3 DEF n
<1>6. Last(tries).level = Depth
  <2>1. Depth \in lv
    BY DEF lv
  <2>2. Last(tries).level \in 1..Depth /\ Depth <= Last(tries).level
    BY <1>3, <1>5, <2>1
  <2> QED BY <1>3, <2>2
<1>7. Unwinding(native, Front(tries), Here, b, n - 1)
  <2>1. \A k \in (b + 1)..(n - 1) : k \in (b + 1)..n /\ k \in 1..(n - 1)
    BY <1>1
  <2> QED BY <1>1, <1>2, <1>5, <2>1 DEF Unwinding
<1>8. b <= n - 1 /\ \A k \in 1..b : Front(tries)[k] = tries[k]
  <2>1. \A k \in 1..b : k \in 1..(n - 1)
    BY <1>1, <1>4
  <2> QED BY <1>1, <1>4, <1>5, <2>1
<1>9. TriesOf(h) = lv \ {Depth}
  BY DEF lv
<1>10. /\ tries' \in Seq(TryFrames) /\ Len(tries') = n - 1 /\ b <= Len(tries')
       /\ \A k \in 1..b : tries'[k] = tries[k]
       /\ Window(Top, tries', b, Len(tries'), TriesOf(h))
       /\ Unwinding(native, tries', Here, b, Len(tries'))
  BY <1>5, <1>6, <1>7, <1>8, <1>9
<1> QED BY <1>10 DEF Follows, b

LEMMA FollowsPush ==
  ASSUME IInv, Top.kind = "resume", NEW h, Depth + 1 \in Nat,
         TriesOf(h) = TriesOf(gens[G]) \cup {Depth + 1}, tries' = Append(tries, Entry(Top.id, Depth + 1))
  PROVE  Follows(h)
<1> DEFINE lv == TriesOf(gens[G])
           b  == Top.depth
           n  == Len(tries)
           t  == Entry(Top.id, Depth + 1)
<1>1. /\ b \in Nat /\ n \in Nat /\ b <= n /\ b = native[Len(native)].depth /\ tries \in Seq(TryFrames)
      /\ Window(native[Len(native)], tries, b, n, lv)
      /\ Unwinding(native, tries, Len(native), b, n)
  BY Parts, TopWindow
<1>2. Here = Len(native) /\ Top = native[Here] /\ Top \in Activations /\ native[Here].kind = "resume"
  BY Parts, TopIs
<1>3. lv \subseteq 1..Depth /\ Depth \in Nat
  BY Working, TriesAre DEF Framed
<1>4. Unwinds \in Nat /\ \A j \in 1..Here : native[j].kind = "fn" => j <= Unwinds
  BY Parts, UnwindsIs
<1>5. t \in TryFrames /\ t.id = Top.id /\ t.level = Depth + 1 /\ t.unwind = Unwinds
  BY <1>2, <1>4, ActivationFields DEF Entry, TryFrames
<1> HIDE DEF lv, b, t
<1>6. /\ Append(tries, t) \in Seq(TryFrames) /\ Len(Append(tries, t)) = n + 1
      /\ \A k \in 1..n : Append(tries, t)[k] = tries[k]
      /\ Append(tries, t)[n + 1] = t
  BY <1>1, <1>5, PushSeq
<1>7. Window(Top, Append(tries, t), b, n + 1, lv \cup {t.level})
  <2>1. \A l \in lv : l < t.level
    <3>1. \A l \in 1..Depth : l < Depth + 1
      BY <1>3
    <3> QED BY <1>3, <1>5, <3>1
  <2> QED BY <1>1, <1>2, <1>5, <2>1, WindowPush
<1> HIDE DEF n
<1>8. Unwinding(native, Append(tries, t), Here, b, n + 1)
  <2> SUFFICES ASSUME NEW k \in (b + 1)..(n + 1), NEW j \in 1..Len(native), native[j].kind = "fn"
               PROVE  j <= Append(tries, t)[k].unwind
    BY <1>2 DEF Unwinding
  <2>1. CASE k = n + 1
    BY <1>2, <1>4, <1>5, <1>6, <2>1
  <2>2. CASE k # n + 1
    <3>1. k \in (b + 1)..n /\ k \in 1..n
      BY <1>1, <2>2
    <3> QED BY <1>1, <1>2, <1>6, <3>1 DEF Unwinding
  <2> QED BY <2>1, <2>2
<1>9. \A k \in 1..b : k \in 1..n
  BY <1>1
<1>10. tries' = Append(tries, t) /\ TriesOf(h) = lv \cup {t.level}
  BY <1>5 DEF lv, t
<1>11. /\ tries' \in Seq(TryFrames) /\ Len(tries') = n + 1 /\ b <= Len(tries')
       /\ \A k \in 1..b : tries'[k] = tries[k]
       /\ Window(Top, tries', b, Len(tries'), TriesOf(h))
       /\ Unwinding(native, tries', Here, b, Len(tries'))
  <2>1. b <= n + 1 /\ \A k \in 1..b : Append(tries, t)[k] = tries[k]
    BY <1>1, <1>6, <1>9
  <2> QED BY <1>6, <1>7, <1>8, <1>10, <2>1
<1> QED BY <1>11 DEF Follows, b

\* What Leave gives back and forgets.
LEMMA LeaveCounts ==
  ASSUME IInv, Top.kind = "resume", NEW k \in 0..Depth, NEW st, Leave(k, st),
         st \in {"running", "done"}, st = "running" \/ k < Depth
  PROVE  count' \in [Values -> Int] /\ lost' \in [Values -> Nat]
<1> DEFINE S  == FramesOfBlocks(gens[G], k)
           f  == [LeaveBlocks(gens[G], k) EXCEPT !.stage = st]
           gs == [gens EXCEPT ![G] = f]
<1>1. /\ gens \in [Gens -> GenFrames] /\ G \in Gens /\ gens[G] \in GenFrames /\ Framed(gens[G])
      /\ gens[G].stage = "running" /\ Depth = Len(gens[G].blocks) /\ Depth \in Nat
      /\ Len(gens[G].blocks) <= MaxDepth
  BY Working DEF Framed
<1>2. f \in GenFrames
  BY <1>1, LeaveFramed
<1> HIDE DEF f
<1>3. gs \in [Gens -> GenFrames]
  BY <1>1, <1>2
<1>4. /\ count' = Released(count, Join(<<GivenByBlocks(gens[G], k), GivenByDrop(gs, S)>>))
      /\ Forget(LostByDrop(gs, S))
  BY DEF Leave, f
<1> HIDE DEF gs, S
<1>5. count \in [Values -> Int] /\ lost \in [Values -> Nat]
  BY Parts
<1>6. IsFiniteSet(DOMAIN GivenByDrop(gs, S)) /\ IsFiniteSet(DOMAIN LostByDrop(gs, S))
  BY <1>3, DropFinite
<1>7. k \in Nat
  BY <1>1
<1>8. IsFiniteSet(DOMAIN GivenByBlocks(gens[G], k))
  BY <1>1, <1>7, BlocksFinite
<1>9. lost' \in [Values -> Nat]
  BY <1>4, <1>5, <1>6, Forgetting
<1>10. IsFiniteSet(DOMAIN Join(<<GivenByBlocks(gens[G], k), GivenByDrop(gs, S)>>))
  BY <1>6, <1>8, PairFinite
<1> QED BY <1>4, <1>5, <1>9, <1>10, Counting

LEMMA LeaveStep ==
  ASSUME IInv, Top.kind = "resume", pc' = pc, ret' = "none", native' = native, orphans' = orphans,
         NEW k \in 1..(Depth - 1), Leave(k, gens[G].stage),
         \/ tries' = tries /\ \A d \in TriesOf(gens[G]) : d <= k
         \/ tries' = Front(tries) /\ Innermost.kind = "try" /\ k = Depth - 1
  PROVE  IInv'
<1> DEFINE S  == FramesOfBlocks(gens[G], k)
           h  == [LeaveBlocks(gens[G], k) EXCEPT !.stage = "running"]
<1>1. /\ gens \in [Gens -> GenFrames] /\ G \in Gens /\ gens[G] \in GenFrames /\ Framed(gens[G])
      /\ gens[G].stage = "running" /\ Depth = Len(gens[G].blocks) /\ Depth \in Nat
      /\ Depth \in 1..Depth /\ DOMAIN gens[G].blocks = 1..Depth
      /\ Innermost = gens[G].blocks[Depth]
  BY Working
<1>2. k \in 0..Depth /\ k \in 0..Len(gens[G].blocks) /\ k < Depth /\ k > 0 /\ k \in Nat
  BY <1>1
<1>3. /\ h \in GenFrames /\ Framed(h) /\ h.stage = "running"
      /\ h.blocks = LeaveBlocks(gens[G], k).blocks
      /\ h.use = LeaveBlocks(gens[G], k).use
      /\ TriesOf(h) = {d \in TriesOf(gens[G]) : d <= k}
  BY <1>1, <1>2, LeaveFramed
<1>4. gens' = AfterDrop([gens EXCEPT ![G] = h], S)
  BY <1>1 DEF Leave
<1>5. count' \in [Values -> Int] /\ lost' \in [Values -> Nat]
  BY <1>1, <1>2, LeaveCounts
<1> HIDE DEF h
<1>6. S \in SUBSET Gens /\ Passes(gens[G], h, S)
  BY <1>2, <1>3, LeavePasses
<1>7. h.blocks # <<>>
  <2>1. Len(h.blocks) = k
    BY <1>1, <1>2, <1>3, LeaveIs
  <2> QED BY <1>2, <2>1, EmptySeq
<1>8. Follows(h)
  <2>1. TriesOf(gens[G]) \subseteq 1..Depth
    BY <1>1, TriesAre DEF Framed
  <2>2. CASE tries' = tries /\ \A d \in TriesOf(gens[G]) : d <= k
    BY <1>3, <2>2 DEF Follows
  <2>3. CASE tries' = Front(tries) /\ Innermost.kind = "try" /\ k = Depth - 1
    <3>1. Depth \in TriesOf(gens[G])
      BY <1>1, <2>3 DEF TriesOf
    <3>2. \A d \in 1..Depth : d <= Depth - 1 <=> d # Depth
      BY <1>1
    <3>3. TriesOf(h) = TriesOf(gens[G]) \ {Depth}
      BY <1>3, <2>1, <2>3, <3>2
    <3> QED BY <2>3, <3>1, <3>3, FollowsPop
  <2> QED BY <2>2, <2>3
<1> HIDE DEF S
<1> QED BY <1>3, <1>4, <1>5, <1>6, <1>7, <1>8, GoesOn
\* Close, Break, EndStatement by a generator
LEMMA CloseStep == ASSUME IInv, Close PROVE IInv'
<1>1. /\ AtWork /\ Innermost.kind \in {"while", "try"} /\ Leave(Depth - 1, gens[G].stage)
      /\ tries' = IF Innermost.kind = "try" THEN Front(tries) ELSE tries
      /\ pc' = pc /\ native' = native /\ ret' = ret /\ orphans' = orphans
  BY DEF Close
<1>2. Top.kind = "resume" /\ ret' = "none"
  BY <1>1 DEF AtWork
<1>3. /\ Depth \in Nat /\ Depth > 0 /\ gens[G].blocks[1].kind = "body"
      /\ Innermost = gens[G].blocks[Depth] /\ gens[G] \in GenFrames
      /\ Depth = Len(gens[G].blocks) /\ Len(gens[G].blocks) <= MaxDepth
  BY <1>2, Working DEF Framed
<1>4. Depth - 1 \in 1..(Depth - 1)
  <2>1. Depth # 1
    BY <1>1, <1>3
  <2>2. Depth \in Nat /\ Depth > 0
    BY <1>3
  <2> QED BY <2>1, <2>2
<1>5. CASE Innermost.kind = "try"
  BY <1>1, <1>2, <1>4, <1>5, LeaveStep
<1>6. CASE Innermost.kind = "while"
  <2>1. TriesOf(gens[G]) \subseteq 1..Depth /\ Depth \notin TriesOf(gens[G])
    BY <1>3, <1>6, TriesAre DEF TriesOf
  <2>2. \A d \in 1..Depth : d # Depth => d <= Depth - 1
    BY <1>3
  <2>3. \A d \in TriesOf(gens[G]) : d <= Depth - 1
    BY <2>1, <2>2
  <2> QED BY <1>1, <1>2, <1>4, <1>6, <2>3, LeaveStep
<1> QED BY <1>1, <1>5, <1>6

\* The loop that is nearest, of a generator that leaves no try by a jump.
LEMMA LoopIs ==
  ASSUME IInv, Top.kind = "resume", NEW l, l = Deepest(LoopsOf(gens[G])), l > 0
  PROVE  l \in 1..Depth /\ l \in Depths /\ l - 1 \in 1..(Depth - 1) /\ gens[G].blocks[l].kind \in {"while", "for"}
<1>1. /\ Depth \in Nat /\ gens[G].blocks[1].kind = "body"
      /\ Depth = Len(gens[G].blocks) /\ DOMAIN gens[G].blocks = 1..Depth
      /\ \A d \in 1..Depth : d \in Depths
  BY Working
<1>2. LoopsOf(gens[G]) \subseteq 1..Depth
  BY <1>1 DEF LoopsOf
<1>3. l \in 0..Depth /\ (LoopsOf(gens[G]) # {} => l \in LoopsOf(gens[G])) /\ (LoopsOf(gens[G]) = {} => l = 0)
  BY <1>1, <1>2, DeepestIs
<1>4. l \in 1..Depth /\ l \in LoopsOf(gens[G])
  BY <1>1, <1>3
<1>5. gens[G].blocks[l].kind \in {"while", "for"}
  BY <1>4 DEF LoopsOf
<1>6. l # 1
  BY <1>1, <1>5
<1> QED BY <1>1, <1>4, <1>5, <1>6

LEMMA BreakStep == ASSUME IInv, JumpsOutOfTry = FALSE, Break PROVE IInv'
<1>1. PICK l : l = Deepest(LoopsOf(gens[G]))
  OBVIOUS
<1>2. /\ AtWork /\ l > 0 /\ \A d \in TriesOf(gens[G]) : d < l
      /\ Leave(l - 1, gens[G].stage)
      /\ pc' = pc /\ native' = native /\ tries' = tries /\ ret' = ret /\ orphans' = orphans
  BY <1>1 DEF Break
<1>3. Top.kind = "resume" /\ ret' = "none"
  BY <1>2 DEF AtWork
<1>4. l \in 1..Depth /\ l - 1 \in 1..(Depth - 1)
  BY <1>1, <1>2, <1>3, LoopIs
<1>5. \A d \in TriesOf(gens[G]) : d <= l - 1
  <2>1. TriesOf(gens[G]) \subseteq Nat
    BY <1>3, Working, TriesAre DEF Framed
  <2> QED BY <1>2, <1>4, <2>1
<1> QED BY <1>2, <1>3, <1>4, <1>5, LeaveStep

LEMMA EndStatementInside == ASSUME IInv, EndStatement, Top.kind = "resume" PROVE IInv'
<1>1. /\ Use # NoUse /\ Leave(Depth - 1, gens[G].stage)
      /\ pc' = pc /\ native' = native /\ tries' = tries /\ ret' = "none" /\ orphans' = orphans
  BY DEF EndStatement
<1>2. Consumes(Innermost)
  BY <1>1, Parts, UseIs
<1>3. /\ Depth \in Nat /\ Depth > 0 /\ gens[G].blocks[1].kind = "body"
      /\ Innermost = gens[G].blocks[Depth] /\ gens[G] \in GenFrames
      /\ Depth = Len(gens[G].blocks) /\ Len(gens[G].blocks) <= MaxDepth
  BY Working DEF Framed
<1>4. Depth - 1 \in 1..(Depth - 1)
  <2>1. Depth # 1
    BY <1>2, <1>3 DEF Consumes
  <2>2. Depth \in Nat /\ Depth > 0
    BY <1>3
  <2> QED BY <2>1, <2>2
<1>5. \A d \in TriesOf(gens[G]) : d <= Depth - 1
  <2>1. TriesOf(gens[G]) \subseteq 1..Depth /\ Depth \notin TriesOf(gens[G])
    BY <1>2, <1>3, TriesAre DEF TriesOf, Consumes
  <2>2. \A d \in 1..Depth : d # Depth => d <= Depth - 1
    BY <1>3
  <2> QED BY <2>1, <2>2
<1> QED BY <1>1, <1>4, <1>5, LeaveStep

\* Open
LEMMA OpenStep == ASSUME IInv, Open PROVE IInv'
<1>1. PICK kind \in {"while", "try"} :
        /\ AtWork /\ Depth < MaxDepth
        /\ gens' = [gens EXCEPT ![G].blocks = Append(@, Block(kind))]
        /\ tries' = IF kind = "try" THEN Append(tries, Entry(Top.id, Depth + 1)) ELSE tries
        /\ UNCHANGED <<pc, native, count, ret, lost, orphans>>
  BY DEF Open
<1>2. Top.kind = "resume" /\ ret' = "none" /\ Innermost.kind # "stmt"
  BY <1>1 DEF AtWork
<1>3. /\ gens \in [Gens -> GenFrames] /\ G \in Gens /\ gens[G] \in GenFrames /\ Framed(gens[G])
      /\ gens[G].stage = "running" /\ gens[G].blocks \in Seq(Blocks) /\ Depth = Len(gens[G].blocks)
      /\ Depth \in Nat /\ Depth > 0 /\ Frames(gens) /\ Depth \in 1..Depth
      /\ Innermost = gens[G].blocks[Depth] /\ gens[G].blocks[1].kind = "body"
      /\ DOMAIN gens[G].blocks = 1..Depth
  BY <1>2, Working
<1> DEFINE f  == gens[G]
           b  == Block(kind)
           bs == Append(f.blocks, b)
           h  == [f EXCEPT !.blocks = bs]
<1>4. b \in Blocks /\ b.kind = kind
  BY DEF Block, Blocks, Kinds
<1> HIDE DEF b
<1>5. /\ bs \in Seq(Blocks) /\ Len(bs) = Depth + 1 /\ bs[Depth + 1] = b
      /\ \A e \in 1..Depth : bs[e] = f.blocks[e]
  BY <1>3, <1>4, PushSeq
<1>6. gens' = [gens EXCEPT ![G] = h]
  BY <1>1, <1>3 DEF b
<1> HIDE DEF bs
<1>7. h \in GenFrames /\ h.stage = f.stage /\ h.blocks = bs /\ h.use = f.use
  BY <1>3, <1>5 DEF GenFrames
<1> HIDE DEF h
<1>8. MaxDepth \in Nat
  BY DepthsFinite
<1>9. Framed(h)
  <2>1. h.stage # "none" /\ Len(h.blocks) <= MaxDepth
    BY <1>1, <1>3, <1>5, <1>7, <1>8
  <2>2. h.blocks[1].kind = "body"
    <3>1. 1 \in 1..Depth
      BY <1>3
    <3> QED BY <1>3, <1>5, <1>7, <3>1
  <2>3. \A d \in Depths : f.use[d].gen # Null => f.use[d].mode = "for"
    BY <1>2, <1>3 DEF Framed
  <2> QED BY <1>7, <2>1, <2>2, <2>3 DEF Framed
<1>10. DOMAIN bs = 1..(Depth + 1)
  BY <1>3, <1>5
<1>11. TriesOf(h) = IF kind = "try" THEN TriesOf(f) \cup {Depth + 1} ELSE TriesOf(f)
  <2>1. \A d : d \in 1..(Depth + 1) <=> d \in 1..Depth \/ d = Depth + 1
    BY <1>3
  <2>2. \A d \in 1..Depth : d # Depth + 1
    BY <1>3
  <2> QED BY <1>3, <1>4, <1>5, <1>7, <1>10, <2>1, <2>2 DEF TriesOf
<1>12. Follows(h)
  <2>1. CASE kind = "try"
    BY <1>1, <1>2, <1>3, <1>11, <2>1, FollowsPush
  <2>2. CASE kind # "try"
    BY <1>1, <1>11, <2>2 DEF Follows
  <2> QED BY <2>1, <2>2
<1>13. PICK S \in SUBSET Gens : S = {}
  OBVIOUS
<1>14. Passes(f, h, S)
  BY <1>7, <1>13 DEF Passes
<1>15. gens' = AfterDrop([gens EXCEPT ![G] = h], S)
  BY <1>3, <1>6, <1>7, <1>13, NoDrop
<1>16. h.blocks # <<>> /\ h.stage = "running"
  <2>1. Len(h.blocks) # 0
    BY <1>3, <1>5, <1>7
  <2> QED BY <1>3, <1>5, <1>7, <2>1, EmptySeq
<1>17. /\ count' \in [Values -> Int] /\ lost' \in [Values -> Nat]
       /\ pc' = pc /\ native' = native /\ orphans' = orphans
  BY <1>1, Parts
<1> HIDE DEF f
<1> QED BY <1>2, <1>7, <1>9, <1>12, <1>14, <1>15, <1>16, <1>17, GoesOn DEF f
\* TakeOnce and Drained, by a generator: the frame that it consumes is freed.
LEMMA PutDrop ==
  ASSUME IInv, Top.kind = "resume", pc' = pc, ret' = "none", tries' = tries, orphans' = orphans,
         count' \in [Values -> Int], lost' \in [Values -> Nat],
         Use = gens[G].use[Depth], Use.gen \in Gens, Use.mode # "for",
         NEW u \in Uses, u.gen = Null, u.mode = Use.mode, Put(AfterDrop(gens, {Use.gen}), u)
  PROVE  IInv'
<1> DEFINE f == gens[G]
           w == [f.use EXCEPT ![Depth] = u]
           h == [f EXCEPT !.use = w]
           k == [gens EXCEPT ![G] = h]
<1>1. /\ gens \in [Gens -> GenFrames] /\ G \in Gens /\ f \in GenFrames /\ Framed(f)
      /\ f.stage = "running" /\ Depth = Len(f.blocks) /\ Depth \in Depths /\ f.blocks # <<>>
      /\ Frames(gens) /\ Stacks(native)
  BY Working
<1>2. PICK S \in SUBSET Gens : S = {Use.gen}
  OBVIOUS
<1>3. native' = native /\ gens' = [AfterDrop(gens, S) EXCEPT ![G].use[Depth] = u]
  BY <1>1, <1>2, PutInside
<1>4. /\ w \in [Depths -> Uses] /\ f.use \in [Depths -> Uses] /\ w[Depth] = u
      /\ \A d \in Depths : d # Depth => w[d] = f.use[d]
  BY <1>1, FrameFields
<1> HIDE DEF w
<1>5. h \in GenFrames /\ h.stage = f.stage /\ h.blocks = f.blocks /\ h.use = w
  BY <1>1, <1>4 DEF GenFrames
<1>6. \A d \in Depths : h.use[d].gen # Null => h.use[d].gen = f.use[d].gen /\ h.use[d].mode = f.use[d].mode
  BY <1>4, <1>5
<1>7. Framed(h) /\ TriesOf(h) = TriesOf(f) /\ h.blocks # <<>>
  <2>1. f.stage # "none" /\ Len(h.blocks) = Len(f.blocks) /\ \A e \in 1..Len(f.blocks) : h.blocks[e].kind = f.blocks[e].kind
    BY <1>1, <1>5
  <2> HIDE DEF f, h
  <2> QED BY <1>1, <1>5, <1>6, <2>1, Relabel
<1>8. \A d, e \in Depths : f.use[d].gen # Null /\ f.use[d].gen = f.use[e].gen => d = e
  <2>1. Owned(native, gens, Live(gens, orphans))
    BY Parts
  <2> QED BY <1>1, <2>1 DEF Owned
<1>9. Passes(f, h, S)
  <2>1. Use.gen # Null
    BY NullAssumption
  <2>2. \A g \in S : g = f.use[Depth].gen /\ g # Null
    BY <1>2, <2>1
  <2>3. f.use[Depth].gen \in S
    BY <1>2
  <2>4. \A d \in Depths : h.use[d].gen # Null => d # Depth
    BY <1>4, <1>5
  <2> HIDE DEF f, h
  <2>5. \A d \in Depths : h.use[d].gen # Null => h.use[d].gen = f.use[d].gen /\ h.use[d].gen \notin S
    BY <1>1, <1>6, <1>8, <2>2, <2>4
  <2>6. \A d \in Depths : f.use[d].gen # Null => h.use[d].gen = f.use[d].gen \/ f.use[d].gen \in S
    BY <1>4, <1>5, <2>3
  <2>7. \A g \in S : \E d \in Depths : f.use[d].gen = g
    BY <1>1, <2>2
  <2> QED BY <2>5, <2>6, <2>7 DEF Passes
<1>10. k \in [Gens -> GenFrames] /\ k[G] = h /\ \A g \in Gens : g # G => k[g] = gens[g]
  BY <1>1, <1>5
<1>11. Inner(h) = Inner(f)
  <2>1. \A d \in Depths : f.use[d].mode = "for" => h.use[d] = f.use[d] /\ h.use[d].mode = "for"
    BY <1>4, <1>5
  <2>2. \A d \in Depths : h.use[d].mode = "for" => h.use[d] = f.use[d] /\ f.use[d].mode = "for"
    BY <1>4, <1>5
  <2> HIDE DEF f, h
  <2>3. {e \in Depths : h.use[e].mode = "for"} = {e \in Depths : f.use[e].mode = "for"}
    BY <2>1, <2>2
  <2> QED BY <2>1, <2>3 DEF Inner
<1>12. Tree(gens, S) = Tree(k, S)
  <2>1. \A g \in Gens : Inner(gens[g]) = Inner(k[g])
    BY <1>10, <1>11
  <2> HIDE DEF k
  <2> QED BY <1>1, <1>10, <2>1, TreeSame
<1>13. G \notin Tree(gens, S)
  <2>1. Owned(native, gens, Live(gens, orphans)) /\ Runs(native, gens)
    BY Parts
  <2>2. gens[Use.gen].stage # "running"
    BY <1>1, <2>1, TopHoldsIdle
  <2>3. \A g \in S : gens[g].stage # "running"
    BY <1>2, <2>2
  <2> QED BY <1>1, <2>1, <2>3, TreeIdle
<1>14. gens' = AfterDrop(k, S)
  <2>1. AfterDrop(gens, S) = [g \in Gens |-> IF g \in Tree(gens, S) THEN NoFrame ELSE gens[g]]
    BY DEF AfterDrop
  <2>2. gens' = [g \in Gens |-> IF g = G THEN h ELSE IF g \in Tree(gens, S) THEN NoFrame ELSE gens[g]]
    BY <1>1, <1>3, <1>13, <2>1 DEF w
  <2> HIDE DEF k, h
  <2> QED BY <1>10, <1>12, <1>13, <2>2 DEF AfterDrop
<1>15. Follows(h)
  BY <1>7 DEF Follows
<1> HIDE DEF h
<1>16. h.stage = "running"
  BY <1>1, <1>5
<1> QED BY <1>3, <1>5, <1>7, <1>9, <1>14, <1>15, <1>16, GoesOn

LEMMA TakeOnceInside == ASSUME IInv, TakeOnce, Top.kind = "resume" PROVE IInv'
<1> DEFINE g == Use.gen
           v == gens[g].value
           u == [Use EXCEPT !.gen = Null, !.held = IF v = Null THEN <<>> ELSE <<v>>]
<1>1. /\ ret # "none" /\ ret' = "none" /\ Use.mode = "once" /\ Put(AfterDrop(gens, {g}), u)
      /\ count' = Released(IF v = Null THEN count ELSE Taken(count, v), GivenByDrop(gens, {g}))
      /\ Forget(LostByDrop(gens, {g}))
      /\ pc' = pc /\ tries' = tries /\ orphans' = orphans
  BY DEF TakeOnce
<1>2. g \in Gens /\ Use = gens[G].use[Depth]
  BY <1>1, Consuming
<1>3. gens \in [Gens -> GenFrames] /\ gens[G] \in GenFrames /\ gens[g] \in GenFrames /\ Depth \in Depths
  BY <1>2, Working
<1>4. v \in Values \cup {Null} /\ Use \in Uses
  BY <1>2, <1>3, FrameFields
<1>5. u \in Uses /\ u.gen = Null /\ u.mode = Use.mode
  <2>1. (IF v = Null THEN <<>> ELSE <<v>>) \in Seq(Values)
    BY <1>4
  <2> HIDE DEF v
  <2> QED BY <1>4, <2>1 DEF Uses
<1>6. count' \in [Values -> Int] /\ lost' \in [Values -> Nat]
  <2> DEFINE c == IF v = Null THEN count ELSE Taken(count, v)
  <2>1. count \in [Values -> Int] /\ lost \in [Values -> Nat]
    BY Parts
  <2>2. c \in [Values -> Int]
    BY <2>1, TakenType
  <2> HIDE DEF c
  <2>3. IsFiniteSet(DOMAIN GivenByDrop(gens, {g})) /\ IsFiniteSet(DOMAIN LostByDrop(gens, {g}))
    BY <1>3, DropFinite
  <2>4. count' = Released(c, GivenByDrop(gens, {g}))
    BY <1>1 DEF c
  <2>5. count' \in [Values -> Int]
    BY <2>2, <2>3, <2>4, Counting
  <2> QED BY <1>1, <2>1, <2>3, <2>5, Forgetting
<1>7. Use.mode # "for"
  BY <1>1
<1> HIDE DEF u, v
<1> QED BY <1>1, <1>2, <1>5, <1>6, <1>7, PutDrop

LEMMA DrainedInside == ASSUME IInv, Drained, Top.kind = "resume" PROVE IInv'
<1> DEFINE g == Use.gen
           u == [Use EXCEPT !.gen = Null]
<1>1. /\ ret = "end" /\ ret' = "none" /\ Use.mode = "drain" /\ Put(AfterDrop(gens, {g}), u)
      /\ count' = Released(count, GivenByDrop(gens, {g}))
      /\ Forget(LostByDrop(gens, {g}))
      /\ pc' = pc /\ tries' = tries /\ orphans' = orphans
  BY DEF Drained
<1>2. g \in Gens /\ Use = gens[G].use[Depth]
  BY <1>1, Consuming
<1>3. gens \in [Gens -> GenFrames] /\ gens[G] \in GenFrames /\ Depth \in Depths
  BY <1>2, Working
<1>4. Use \in Uses
  BY <1>2, <1>3, FrameFields
<1>5. u \in Uses /\ u.gen = Null /\ u.mode = Use.mode
  BY <1>4 DEF Uses
<1>6. count' \in [Values -> Int] /\ lost' \in [Values -> Nat]
  BY <1>1, <1>3, Parts, DropFinite, Counting, Forgetting
<1>7. Use.mode # "for"
  BY <1>1
<1> HIDE DEF u
<1> QED BY <1>1, <1>2, <1>5, <1>6, <1>7, PutDrop

\* CloseHandler
LEMMA CloseHandlerStep == ASSUME IInv, CloseHandler PROVE IInv'
<1> DEFINE k  == Depth - 1
           f  == gens[G]
           l  == LeaveBlocks(f, k)
           h  == [l EXCEPT !.err[Depth] = Null]
<1>1. /\ AtWork /\ Innermost.kind = "handler" /\ gens' = [gens EXCEPT ![G] = h]
      /\ count' = Released(count, Join(<<GivenByBlocks(f, k), <<f.err[Depth]>>>>))
      /\ pc' = pc /\ native' = native /\ tries' = tries /\ ret' = ret /\ lost' = lost /\ orphans' = orphans
  BY DEF CloseHandler
<1>2. Top.kind = "resume" /\ ret' = "none"
  BY <1>1 DEF AtWork
<1>3. /\ gens \in [Gens -> GenFrames] /\ G \in Gens /\ f \in GenFrames /\ Framed(f)
      /\ f.stage = "running" /\ Depth = Len(f.blocks) /\ Depth \in Nat /\ Depth > 0
      /\ Depth \in Depths /\ Innermost = f.blocks[Depth] /\ f.blocks[1].kind = "body"
      /\ Frames(gens) /\ Len(f.blocks) <= MaxDepth
  BY <1>2, Working DEF Framed
<1>4. k \in 0..Len(f.blocks) /\ k \in Nat /\ k # 0
  <2>1. Depth # 1
    BY <1>1, <1>3
  <2>2. Depth \in Nat /\ Depth > 0 /\ Depth = Len(f.blocks)
    BY <1>3
  <2> QED BY <2>1, <2>2
<1> HIDE DEF k
<1>5. /\ l \in GenFrames /\ l.stage = "running" /\ Len(l.blocks) = k
      /\ TriesOf(l) = {d \in TriesOf(f) : d <= k}
      /\ \A d \in Depths : l.use[d].gen = f.use[d].gen
      /\ Framed([l EXCEPT !.stage = "running"]) /\ [l EXCEPT !.stage = "running"] = l
  <2>1. \A d \in Depths : l.use[d] = IF d > k /\ d <= Len(f.blocks) /\ Consumes(f.blocks[d]) THEN NoUse ELSE f.use[d]
    BY <1>3, <1>4, LeaveIs
  <2>2. \A d \in Depths : d > k /\ d <= Len(f.blocks) => d = Depth
    BY <1>3, DepthsFinite DEF k, Depths
  <2>3. ~Consumes(f.blocks[Depth])
    BY <1>1, <1>3 DEF Consumes
  <2>4. \A d \in Depths : l.use[d].gen = f.use[d].gen
    BY <2>1, <2>2, <2>3
  <2>5. l \in GenFrames /\ l.stage = f.stage /\ Len(l.blocks) = k /\ TriesOf(l) = {d \in TriesOf(f) : d <= k}
    BY <1>3, <1>4, LeaveIs
  <2>6. Framed([l EXCEPT !.stage = "running"])
    BY <1>3, <1>4, LeaveFramed
  <2> HIDE DEF l
  <2>7. [l EXCEPT !.stage = "running"] = l
    BY <1>3, <2>5 DEF GenFrames
  <2> QED BY <1>3, <2>4, <2>5, <2>6, <2>7
<1> HIDE DEF l
<1>6. Framed(l)
  BY <1>5
<1>7. h \in GenFrames /\ h.stage = "running" /\ h.blocks = l.blocks /\ h.use = l.use
  BY <1>3, <1>5 DEF GenFrames
<1> HIDE DEF h
<1>8. Framed(h) /\ TriesOf(h) = TriesOf(l) /\ h.blocks # <<>>
  <2>1. Framed(h) /\ TriesOf(h) = TriesOf(l)
    BY <1>5, <1>6, <1>7 DEF Framed, TriesOf
  <2>2. l.blocks # <<>>
    BY <1>4, <1>5, EmptySeq
  <2> QED BY <1>7, <2>1, <2>2
<1>9. TriesOf(l) = TriesOf(f)
  <2>1. TriesOf(f) \subseteq 1..Depth /\ Depth \notin TriesOf(f)
    BY <1>1, <1>3, TriesAre DEF TriesOf
  <2>2. \A d \in 1..Depth : d # Depth => d <= k
    BY <1>3 DEF k
  <2> QED BY <1>5, <2>1, <2>2
<1>10. PICK S \in SUBSET Gens : S = {}
  OBVIOUS
<1>11. Passes(f, h, S)
  BY <1>5, <1>7, <1>10 DEF Passes
<1>12. gens' = AfterDrop([gens EXCEPT ![G] = h], S)
  BY <1>1, <1>3, <1>7, <1>10, NoDrop
<1>13. Follows(h)
  BY <1>1, <1>8, <1>9 DEF Follows
<1>14. count' \in [Values -> Int] /\ lost' \in [Values -> Nat]
  <2>1. IsFiniteSet(DOMAIN GivenByBlocks(f, k)) /\ IsFiniteSet(DOMAIN <<f.err[Depth]>>)
    BY <1>3, <1>4, BlocksFinite, SingletonFinite
  <2>2. IsFiniteSet(DOMAIN Join(<<GivenByBlocks(f, k), <<f.err[Depth]>>>>))
    BY <2>1, PairFinite
  <2> QED BY <1>1, <2>2, Parts, Counting
<1> HIDE DEF f
<1> QED BY <1>1, <1>2, <1>7, <1>8, <1>11, <1>12, <1>13, <1>14, GoesOn DEF f
\* Iterate
LEMMA IterateStep == ASSUME IInv, JumpsOutOfTry = FALSE, Iterate PROVE IInv'
<1>1. PICK l : l = Deepest(LoopsOf(gens[G]))
  OBVIOUS
<1> DEFINE f == gens[G]
           j == LeaveBlocks(f, l)
           h == [j EXCEPT !.blocks[l].declared = FALSE,
                          !.local[l] = IF f.blocks[l].declared THEN Null ELSE @,
                          !.use[l].held = IF Consumes(f.blocks[l]) THEN <<>> ELSE @]
           S == FramesOfBlocks(f, l)
           gs == [gens EXCEPT ![G] = h]
<1>2. /\ AtWork /\ l > 0 /\ \A d \in TriesOf(f) : d < l
      /\ gens' = AfterDrop(gs, S)
      /\ count' = Released(count, Join(<<GivenByBlocks(f, l - 1), GivenByDrop(gs, S)>>))
      /\ Forget(LostByDrop(gs, S))
      /\ pc' = pc /\ native' = native /\ tries' = tries /\ ret' = ret /\ orphans' = orphans
  BY <1>1 DEF Iterate
<1>3. Top.kind = "resume" /\ ret' = "none"
  BY <1>2 DEF AtWork
<1>4. /\ gens \in [Gens -> GenFrames] /\ G \in Gens /\ f \in GenFrames /\ Framed(f)
      /\ f.stage = "running" /\ f.blocks \in Seq(Blocks) /\ Depth = Len(f.blocks) /\ Depth \in Nat
      /\ Frames(gens) /\ Len(f.blocks) <= MaxDepth
      /\ \A d \in 1..Depth : d \in Depths /\ f.blocks[d] \in Blocks
  BY <1>3, Working DEF Framed
<1>5. l \in 1..Depth /\ l \in Depths /\ l - 1 \in 1..(Depth - 1)
  BY <1>1, <1>2, <1>3, LoopIs
<1>6. l \in 0..Len(f.blocks) /\ l \in 0..Depth /\ l \in Nat /\ l - 1 \in Nat /\ l \in 1..l
  BY <1>4, <1>5
<1>7. /\ j \in GenFrames /\ j.stage = f.stage /\ Len(j.blocks) = l
      /\ TriesOf(j) = {d \in TriesOf(f) : d <= l}
      /\ \A e \in 1..l : j.blocks[e] = f.blocks[e]
  BY <1>4, <1>6, LeaveIs
<1>8. Framed(j)
  <2>1. Framed([j EXCEPT !.stage = "running"])
    BY <1>4, <1>6, LeaveFramed
  <2> HIDE DEF j
  <2>2. [j EXCEPT !.stage = "running"] = j
    BY <1>4, <1>7 DEF GenFrames
  <2> QED BY <2>1, <2>2
<1>9. /\ S \in SUBSET Gens
      /\ \A g : (\A d \in Depths : g.use[d].gen = j.use[d].gen) => Passes(f, g, S)
  <2>1. \A g : (\A d \in Depths : g.use[d].gen = j.use[d].gen) => S \in SUBSET Gens /\ Passes(f, g, S)
    <3> HIDE DEF S
    <3> QED BY <1>3, <1>6, LeavePasses DEF S
  <2> HIDE DEF S, j
  <2> QED BY <2>1
<1> DEFINE b  == [j.blocks[l] EXCEPT !.declared = FALSE]
           bs == [j.blocks EXCEPT ![l] = b]
           ls == [j.local EXCEPT ![l] = IF f.blocks[l].declared THEN Null ELSE @]
           u  == [j.use[l] EXCEPT !.held = IF Consumes(f.blocks[l]) THEN <<>> ELSE @]
           us == [j.use EXCEPT ![l] = u]
<1>10. /\ j.blocks \in Seq(Blocks) /\ j.local \in [Depths -> Values \cup {Null}]
       /\ j.use \in [Depths -> Uses] /\ j.use[l] \in Uses /\ j.blocks[l] \in Blocks
  <2> HIDE DEF j
  <2> QED BY <1>4, <1>5, <1>6, <1>7, FrameFields
<1>11. h = [j EXCEPT !.blocks = bs, !.local = ls, !.use = us]
  <2> HIDE DEF j
  <2> QED BY <1>7, <1>10
<1> HIDE DEF j, h
<1>12. b \in Blocks /\ b.kind = j.blocks[l].kind
  BY <1>10 DEF Blocks
<1> HIDE DEF b
<1>13. /\ bs \in Seq(Blocks) /\ Len(bs) = l /\ bs[l] = b
       /\ \A e \in 1..l : e # l => bs[e] = j.blocks[e]
  BY <1>6, <1>7, <1>10, <1>12, PutSeq
<1>14. ls \in [Depths -> Values \cup {Null}]
  BY <1>10
<1>15. u \in Uses /\ u.gen = j.use[l].gen /\ u.mode = j.use[l].mode
  <2>1. (IF Consumes(f.blocks[l]) THEN <<>> ELSE j.use[l].held) \in Seq(Values)
    BY <1>10, UseFields
  <2> QED BY <1>10, <2>1 DEF Uses
<1> HIDE DEF u
<1>16. us \in [Depths -> Uses] /\ \A d \in Depths : us[d].gen = j.use[d].gen /\ us[d].mode = j.use[d].mode
  BY <1>5, <1>10, <1>15
<1> HIDE DEF bs, ls, us
<1>17. h \in GenFrames /\ h.stage = j.stage /\ h.blocks = bs /\ h.use = us
  BY <1>7, <1>11, <1>13, <1>14, <1>16 DEF GenFrames
<1>18. Framed(h) /\ TriesOf(h) = TriesOf(j) /\ h.blocks # <<>>
  <2>1. /\ Len(h.blocks) = Len(j.blocks) /\ \A e \in 1..Len(j.blocks) : h.blocks[e].kind = j.blocks[e].kind
        /\ \A d \in Depths : h.use[d].gen = j.use[d].gen /\ h.use[d].mode = j.use[d].mode
    BY <1>7, <1>12, <1>13, <1>16, <1>17
  <2>2. j.stage # "none"
    BY <1>4, <1>7
  <2>3. Framed(h) /\ TriesOf(h) = TriesOf(j)
    BY <1>7, <1>8, <1>17, <2>1, <2>2, Relabel
  <2>4. Len(h.blocks) = l /\ l # 0
    BY <1>5, <1>7, <2>1
  <2>5. h.blocks # <<>>
    BY <2>4, EmptySeq
  <2> QED BY <2>3, <2>5
<1>19. Follows(h)
  <2>1. \A d \in TriesOf(f) : d <= l
    <3>1. TriesOf(f) \subseteq Nat
      BY <1>4, TriesAre
    <3> QED BY <1>2, <1>6, <3>1
  <2> QED BY <1>2, <1>7, <1>18, <2>1 DEF Follows
<1>20. Passes(f, h, S)
  BY <1>9, <1>16, <1>17
<1>21. count' \in [Values -> Int] /\ lost' \in [Values -> Nat]
  <2>1. gs \in [Gens -> GenFrames]
    BY <1>4, <1>17
  <2> HIDE DEF gs, S
  <2>2. IsFiniteSet(DOMAIN GivenByDrop(gs, S)) /\ IsFiniteSet(DOMAIN LostByDrop(gs, S))
    BY <2>1, DropFinite
  <2>3. IsFiniteSet(DOMAIN GivenByBlocks(f, l - 1))
    BY <1>4, <1>6, BlocksFinite
  <2>4. IsFiniteSet(DOMAIN Join(<<GivenByBlocks(f, l - 1), GivenByDrop(gs, S)>>))
    BY <2>2, <2>3, PairFinite
  <2> QED BY <1>2, <2>2, <2>4, Parts, Counting, Forgetting
<1>22. h.stage = "running"
  BY <1>4, <1>7, <1>17
<1>23. gens' = AfterDrop([gens EXCEPT ![G] = h], S)
  BY <1>2
<1> HIDE DEF f, S
<1> QED BY <1>2, <1>3, <1>9, <1>17, <1>18, <1>19, <1>20, <1>21, <1>22, <1>23, GoesOn DEF f

-----------------------------------------------------------------------------
(* A resume returns                                                        *)

\* Finish, Emit: TRY_STACK is as deep as the resume found it.
LEMMA TopPops ==
  ASSUME IInv, Top.kind = "resume", pc = "run", pc' = pc, orphans' = orphans,
         count' \in [Values -> Int], lost' \in [Values -> Nat], native' = Front(native),
         NEW h \in GenFrames, Framed(h), h.stage \in {"done", "suspended"}, NEW S \in SUBSET Gens,
         Passes(gens[G], h, S), gens' = AfterDrop([gens EXCEPT ![G] = h], S),
         tries' = SubSeq(tries, 1, Top.depth), ret' \in {"value", "end"},
         ret' = "value" => S = {} /\ h.value \in Values
  PROVE  IInv' /\ Len(tries') = Top.depth
<1> DEFINE n  == Here - 1
           hs == AfterDrop([gens EXCEPT ![G] = h], S)
<1>1. /\ Stacks(native) /\ Frames(gens) /\ Runs(native, gens) /\ Bodied(native, gens)
      /\ Owned(native, gens, Live(gens, orphans)) /\ orphans \subseteq There(gens)
      /\ Windows(native, tries, gens) /\ tries \in Seq(TryFrames)
  BY Parts
<1>2. /\ Here = Len(native) /\ Here \in Nat /\ Top = native[Here] /\ native[Here] \in Activations
      /\ native \in Seq(Activations) /\ G \in Gens /\ \A i \in 1..Here : native[i] \in Activations
  BY <1>1, TopIs
<1>3. hs = AfterDrop([gens EXCEPT ![G] = h], S)
  OBVIOUS
<1> HIDE DEF hs
<1>4. /\ Front(native) = SubSeq(native, 1, n) /\ n \in 1..Here
      /\ Stacks(Front(native)) /\ Frames(hs) /\ Runs(Front(native), hs)
  BY <1>1, <1>3, TopLeaves
<1>5. /\ Owned(Front(native), hs, Live(hs, orphans)) /\ orphans \subseteq There(hs)
      /\ Bodied(Front(native), hs)
  BY <1>1, <1>3, TopLeaves
<1>6. /\ \A i \in 1..n : LevelsOf(native[i], hs) = LevelsOf(native[i], gens)
      /\ UseOf(Front(native), hs, n).gen = G
      /\ G \in Tree([gens EXCEPT ![G] = h], S) \/ hs[G] = h
  <2>1. \A i \in 1..(Here - 1) : LevelsOf(native[i], hs) = LevelsOf(native[i], gens)
    BY <1>1, <1>3, TopLeaves
  <2>2. UseOf(Front(native), hs, Here - 1).gen = G
    BY <1>1, <1>3, TopLeaves
  <2>3. G \in Tree([gens EXCEPT ![G] = h], S) \/ hs[G] = h
    BY <1>1, <1>3, TopLeaves
  <2> QED BY <2>1, <2>2, <2>3
<1>7. n \in 1..Len(native) /\ n # Len(native) /\ n + 1 = Len(native)
  BY <1>2, <1>4
<1>8. Len(Front(native)) = n
  <2>1. n \in 0..Len(native)
    BY <1>7
  <2> QED BY <1>2, <1>4, <2>1, CutSeq
<1> HIDE DEF n
<1>9. EndOf(native, tries, n) = Top.depth
  BY <1>2, <1>7 DEF EndOf
<1>10. /\ Windows(Front(native), SubSeq(tries, 1, Top.depth), hs)
       /\ SubSeq(tries, 1, Top.depth) \in Seq(TryFrames)
       /\ Len(SubSeq(tries, 1, Top.depth)) = Top.depth
  <2>1. /\ Windows(SubSeq(native, 1, n), SubSeq(tries, 1, EndOf(native, tries, n)), hs)
        /\ SubSeq(tries, 1, EndOf(native, tries, n)) \in Seq(TryFrames)
        /\ Len(SubSeq(tries, 1, EndOf(native, tries, n))) = EndOf(native, tries, n)
    BY <1>1, <1>6, <1>7, WindowsCut
  <2> QED BY <1>4, <1>9, <2>1
<1>11. gens' = hs
  BY <1>3
<1>12. ret' = "value" => gens'[G].value \in Values
  <2> SUFFICES ASSUME ret' = "value" PROVE gens'[G].value \in Values
    OBVIOUS
  <2>1. [gens EXCEPT ![G] = h] \in [Gens -> GenFrames]
    BY <1>1 DEF Frames
  <2>2. Tree([gens EXCEPT ![G] = h], S) = {}
    BY <2>1, TreeNone
  <2>3. hs[G] = h
    BY <1>6, <2>2
  <2> QED BY <1>11, <2>3
<1>13. G # Null
  BY <1>2, NullAssumption
<1>14. /\ UseOf(native', gens', Len(native')).gen = G
       /\ count' \in [Values -> Int] /\ lost' \in [Values -> Nat]
  BY <1>6, <1>8, <1>11
<1>15. /\ Stacks(native') /\ Frames(gens') /\ Runs(native', gens') /\ Bodied(native', gens')
       /\ Owned(native', gens', Live(gens', orphans')) /\ orphans' \subseteq There(gens')
       /\ Windows(native', tries', gens') /\ tries' \in Seq(TryFrames)
  BY <1>4, <1>5, <1>10, <1>11
<1>16. IInv'
  BY <1>12, <1>13, <1>14, <1>15, Whole
<1> QED BY <1>10, <1>16

LEMMA OwnTries ==
  ASSUME IInv, Top.kind = "resume"
  PROVE  Len(tries) - Cardinality(TriesOf(gens[G])) = Top.depth /\ Len(tries) \in Nat
<1>1. /\ Top.depth \in Nat /\ Len(tries) \in Nat /\ Top.depth <= Len(tries)
      /\ Window(native[Len(native)], tries, Top.depth, Len(tries), TriesOf(gens[G]))
      /\ tries \in Seq(TryFrames)
  BY Parts, TopWindow
<1>2. Cardinality(TriesOf(gens[G])) = Len(tries) - Top.depth
  BY <1>1, WindowLength
<1> QED BY <1>1, <1>2

LEMMA FinishStep ==
  ASSUME IInv, JumpsOutOfTry = FALSE, Finish
  PROVE  IInv' /\ Len(tries') = Top.depth
<1> DEFINE S  == FramesOfBlocks(gens[G], 0)
           h  == [LeaveBlocks(gens[G], 0) EXCEPT !.stage = "done"]
<1>1. /\ AtWork /\ TriesOf(gens[G]) = {} /\ Leave(0, "done")
      /\ native' = Front(native) /\ ret' = "end" /\ pc' = pc /\ tries' = tries /\ orphans' = orphans
  BY DEF Finish
<1>2. Top.kind = "resume" /\ pc = "run"
  BY <1>1 DEF AtWork
<1>3. /\ gens \in [Gens -> GenFrames] /\ G \in Gens /\ gens[G] \in GenFrames /\ Framed(gens[G])
      /\ gens[G].stage = "running" /\ Depth = Len(gens[G].blocks) /\ Depth \in Nat /\ Depth > 0
  BY <1>2, Working
<1>4. 0 \in 0..Depth /\ 0 \in 0..Len(gens[G].blocks) /\ 0 < Len(gens[G].blocks)
  BY <1>3
<1>5. /\ h \in GenFrames /\ Framed(h) /\ h.stage = "done"
      /\ h.use = LeaveBlocks(gens[G], 0).use
  BY <1>3, <1>4, LeaveFramed
<1>6. gens' = AfterDrop([gens EXCEPT ![G] = h], S)
  BY <1>1, <1>3 DEF Leave
<1>7. count' \in [Values -> Int] /\ lost' \in [Values -> Nat]
  BY <1>1, <1>2, <1>3, <1>4, LeaveCounts
<1> HIDE DEF h
<1>8. S \in SUBSET Gens /\ Passes(gens[G], h, S)
  BY <1>2, <1>4, <1>5, LeavePasses
<1>9. tries' = SubSeq(tries, 1, Top.depth)
  <2>1. Cardinality({}) = 0
    BY FS_EmptySet
  <2>2. Top.depth = Len(tries) /\ Len(tries) \in Nat /\ tries \in Seq(TryFrames)
    BY <1>1, <1>2, <2>1, OwnTries, Parts
  <2> QED BY <1>1, <2>2
<1> HIDE DEF S
<1> QED BY <1>1, <1>2, <1>5, <1>6, <1>7, <1>8, <1>9, TopPops

LEMMA EmitStep ==
  ASSUME IInv, Emit
  PROVE  IInv' /\ Len(tries') = Top.depth
<1>1. PICK v \in Values :
        /\ AtWork
        /\ gens' = [gens EXCEPT ![G].value = v, ![G].stage = "suspended"]
        /\ count' = Released(Taken(count, v), <<gens[G].value>>)
        /\ tries' = SubSeq(tries, 1, Len(tries) - Cardinality(TriesOf(gens[G])))
        /\ native' = Front(native) /\ ret' = "value"
        /\ UNCHANGED <<pc, lost, orphans>>
  BY DEF Emit
<1> DEFINE f == gens[G]
           h == [f EXCEPT !.value = v, !.stage = "suspended"]
<1>2. Top.kind = "resume" /\ pc = "run" /\ Innermost.kind # "stmt"
  BY <1>1 DEF AtWork
<1>3. /\ gens \in [Gens -> GenFrames] /\ G \in Gens /\ f \in GenFrames /\ Framed(f)
      /\ Frames(gens) /\ Depth = Len(f.blocks) /\ Innermost = f.blocks[Depth]
  BY <1>2, Working
<1>4. h \in GenFrames /\ h.stage = "suspended" /\ h.value = v /\ h.blocks = f.blocks /\ h.use = f.use
  BY <1>3 DEF GenFrames
<1>5. gens' = [gens EXCEPT ![G] = h]
  BY <1>1, <1>3
<1> HIDE DEF h
<1>6. Framed(h)
  <2>1. \A d \in Depths : f.use[d].gen # Null => f.use[d].mode = "for"
    BY <1>2, <1>3 DEF Framed
  <2> QED BY <1>3, <1>4, <2>1 DEF Framed
<1>7. PICK S \in SUBSET Gens : S = {}
  OBVIOUS
<1>8. Passes(f, h, S) /\ gens' = AfterDrop([gens EXCEPT ![G] = h], S)
  BY <1>3, <1>4, <1>5, <1>7, NoDrop DEF Passes
<1>9. tries' = SubSeq(tries, 1, Top.depth)
  BY <1>1, <1>2, OwnTries
<1>10. count' \in [Values -> Int] /\ lost' \in [Values -> Nat]
  BY <1>1, Parts, TakenType, SingletonFinite, Counting
<1> HIDE DEF f
<1> QED BY <1>1, <1>2, <1>4, <1>6, <1>7, <1>8, <1>9, <1>10, TopPops DEF f
-----------------------------------------------------------------------------
(* The steps of a function                                                 *)

LEMMA PutFunction ==
  ASSUME Stacks(native), NEW u \in Uses, NEW ms, ms = [native EXCEPT ![Here].use = u],
         Top.kind = "fn"
  PROVE  /\ Same(native, ms) /\ Stacks(ms) /\ Len(ms) = Here /\ ms[Here].use = u
         /\ \A i \in 1..Here : i # Here => ms[i] = native[i]
<1>1. Here \in 1..Here /\ Here = Len(native) /\ native \in Seq(Activations) /\ Top = native[Here]
      /\ native[Here] \in Activations /\ Here \in Nat
  BY TopIs
<1> DEFINE a == [native[Here] EXCEPT !.use = u]
<1>2. a \in Activations /\ a.use = u /\ a.kind = native[Here].kind /\ a.id = native[Here].id
      /\ a.tried = native[Here].tried /\ a.depth = native[Here].depth /\ a.gen = native[Here].gen
  BY <1>1 DEF Activations
<1>3. ms = [native EXCEPT ![Here] = a]
  BY <1>1
<1> HIDE DEF a
<1>4. /\ ms \in Seq(Activations) /\ Len(ms) = Here /\ ms[Here] = a
      /\ \A i \in 1..Here : i # Here => ms[i] = native[i]
  BY <1>1, <1>2, <1>3, PutSeq
<1>5. Same(native, ms)
  <2>1. \A i \in 1..(Len(native) - 1) : i \in 1..Here /\ i # Here
    BY <1>1
  <2>2. \A i \in 1..(Len(native) - 1) : ms[i] = native[i]
    BY <1>4, <2>1
  <2>3. ASSUME NEW i \in 1..Len(native)
        PROVE  /\ ms[i].kind = native[i].kind /\ ms[i].id = native[i].id /\ ms[i].tried = native[i].tried
               /\ ms[i].depth = native[i].depth /\ ms[i].gen = native[i].gen
               /\ native[i].kind = "resume" => ms[i].use = native[i].use
    <3>1. CASE i = Here
      BY <1>1, <1>2, <1>4, <3>1
    <3>2. CASE i # Here
      BY <1>1, <1>4, <3>2
    <3> QED BY <3>1, <3>2
  <2> QED BY <1>1, <1>4, <2>2, <2>3 DEF Same
<1>6. Stacks(ms)
  BY <1>5, StacksSame
<1> QED BY <1>2, <1>4, <1>5, <1>6

\* What it consumes changes, or ends and is given back.
LEMMA FunctionGoesOn ==
  ASSUME IInv, Top.kind = "fn", pc' = pc, ret' = "none", orphans' = orphans, tries' = tries,
         count' \in [Values -> Int], lost' \in [Values -> Nat],
         NEW u \in Uses, native' = [native EXCEPT ![Here].use = u],
         NEW S \in SUBSET Gens, gens' = AfterDrop(gens, S),
         \/ u.gen = native[Here].use.gen /\ S = {}
         \/ u.gen = Null /\ S = {native[Here].use.gen} \ {Null}
  PROVE  IInv'
<1>1. /\ Stacks(native) /\ Frames(gens) /\ Runs(native, gens) /\ Bodied(native, gens)
      /\ Owned(native, gens, Live(gens, orphans)) /\ orphans \subseteq There(gens)
      /\ Windows(native, tries, gens) /\ tries \in Seq(TryFrames) /\ pc \in {"run", "exit"}
  BY Parts
<1>2. /\ Here \in 1..Here /\ Here = Len(native) /\ Here \in Nat /\ Top = native[Here]
      /\ native[Here].kind = "fn"
  BY <1>1, TopIs
<1>3. PICK ms : ms = [native EXCEPT ![Here].use = u]
  OBVIOUS
<1>4. Same(native, ms) /\ Stacks(ms) /\ Len(ms) = Here /\ ms[Here].use = u
  BY <1>1, <1>3, PutFunction
<1>5. /\ Owned(ms, gens, Live(gens, orphans) \ S) /\ Runs(ms, gens)
      /\ S \cap orphans = {} /\ \A g \in S : gens[g].stage # "running"
      /\ \A i \in 1..Len(ms) : ms[i].kind = "fn"
  <2>1. S \subseteq {native[Here].use.gen}
    OBVIOUS
  <2>2. Same(native, ms) \/ ms = SubSeq(native, 1, Here - 1)
    BY <1>4
  <2>3. Len(ms) = Here => /\ ms[Here].use.gen = native[Here].use.gen => S = {}
                          /\ ms[Here].use.gen # native[Here].use.gen => ms[Here].use.gen = Null
    BY <1>4
  <2>4. ~(Len(ms) = Here /\ ms[Here].use.gen = native[Here].use.gen) => S = {native[Here].use.gen} \ {Null}
    BY <1>4
  <2> QED BY <1>1, <1>4, <2>1, <2>2, <2>3, <2>4, FunctionChange
<1>6. PICK hs : hs = AfterDrop(gens, S)
  OBVIOUS
<1>7. /\ Frames(hs) /\ Runs(ms, hs) /\ Owned(ms, hs, Live(hs, orphans)) /\ orphans \subseteq There(hs)
      /\ \A g \in Gens : hs[g].stage = "running" <=> gens[g].stage = "running"
  <2> DEFINE A == AfterDrop(gens, S)
  <2>1. /\ Frames(A) /\ Runs(ms, A) /\ Owned(ms, A, Live(A, orphans)) /\ orphans \subseteq There(A)
        /\ \A g \in Gens : A[g].stage = "running" <=> gens[g].stage = "running"
    <3>1. Stacks(ms) /\ Frames(gens) /\ Runs(ms, gens) /\ orphans \subseteq There(gens)
      BY <1>1, <1>4, <1>5
    <3>2. S \cap orphans = {} /\ Owned(ms, gens, Live(gens, orphans) \ S)
      BY <1>5
    <3>3. \A g \in S : gens[g].stage # "running"
      BY <1>5
    <3>4. Frames(A) /\ Runs(ms, A)
      BY <3>1, <3>2, <3>3, Release
    <3>5. Owned(ms, A, Live(A, orphans)) /\ orphans \subseteq There(A)
      BY <3>1, <3>2, <3>3, Release
    <3>6. \A g \in Gens : A[g].stage = "running" <=> gens[g].stage = "running"
      BY <3>1, <3>2, <3>3, Release
    <3> QED BY <3>4, <3>5, <3>6
  <2> HIDE DEF A
  <2> QED BY <1>6, <2>1 DEF A
<1>8. Bodied(ms, hs)
  BY <1>5 DEF Bodied
<1>9. Steady(native, gens, hs)
  <2>1. \A i \in 1..(Len(native) - 1) : native[i].kind # "resume"
    <3>1. \A i \in 1..(Len(native) - 1) : i \in 1..Len(ms)
      BY <1>2, <1>4
    <3>2. \A i \in 1..(Len(native) - 1) : ms[i] = native[i]
      BY <1>4 DEF Same
    <3> QED BY <1>5, <3>1, <3>2
  <2> QED BY <1>7, <2>1 DEF Steady
<1>10. Windows(ms, tries, hs)
  <2>1. native[Len(native)].kind # "resume"
    BY <1>2
  <2> QED BY <1>1, <1>4, <1>9, <2>1, WindowsSame
<1>11. native' = ms /\ gens' = hs
  BY <1>3, <1>6
<1> QED BY <1>1, <1>4, <1>7, <1>8, <1>10, <1>11, Whole

\* The use of a function, in a state of the invariant.
LEMMA FunctionUse ==
  ASSUME IInv, Top.kind = "fn"
  PROVE  /\ Use = native[Here].use /\ Use \in Uses /\ Stacks(native) /\ Frames(gens)
         /\ gens \in [Gens -> GenFrames]
         /\ count \in [Values -> Int] /\ lost \in [Values -> Nat]
<1>1. /\ Stacks(native) /\ Frames(gens) /\ Runs(native, gens) /\ Bodied(native, gens)
      /\ count \in [Values -> Int] /\ lost \in [Values -> Nat]
  BY Parts
<1>2. gens \in [Gens -> GenFrames]
  BY <1>1 DEF Frames
<1> QED BY <1>1, <1>2, UseIs

LEMMA PutOutside ==
  ASSUME Top.kind = "fn", NEW gs, NEW u, Put(gs, u)
  PROVE  native' = [native EXCEPT ![Here].use = u] /\ gens' = gs
BY DEF Put

LEMMA TakeValueOutside == ASSUME IInv, TakeValue, Top.kind = "fn" PROVE IInv'
<1> DEFINE v == gens[Use.gen].value
           u == [Use EXCEPT !.held = Append(@, v)]
<1>1. /\ ret = "value" /\ ret' = "none" /\ Put(gens, u) /\ count' = Taken(count, v)
      /\ pc' = pc /\ tries' = tries /\ lost' = lost /\ orphans' = orphans
  BY DEF TakeValue
<1>2. /\ Use = native[Here].use /\ Use \in Uses /\ gens \in [Gens -> GenFrames]
      /\ count \in [Values -> Int] /\ lost \in [Values -> Nat]
  BY FunctionUse
<1>3. v \in Values
  BY <1>1, Consuming
<1>4. u \in Uses /\ u.gen = Use.gen
  <2>1. Append(Use.held, v) \in Seq(Values)
    BY <1>2, <1>3, UseFields, PushSeq
  <2> QED BY <1>2, <2>1 DEF Uses
<1>5. native' = [native EXCEPT ![Here].use = u] /\ gens' = gens
  BY <1>1, PutOutside
<1>6. count' \in [Values -> Int] /\ lost' \in [Values -> Nat]
  BY <1>1, <1>2, TakenType
<1> HIDE DEF u, v
<1>7. PICK S \in SUBSET Gens : S = {}
  OBVIOUS
<1>8. gens' = AfterDrop(gens, S)
  BY <1>2, <1>5, <1>7, TreeNone
<1> QED BY <1>1, <1>2, <1>4, <1>5, <1>6, <1>7, <1>8, FunctionGoesOn

LEMMA TakeOnceOutside == ASSUME IInv, TakeOnce, Top.kind = "fn" PROVE IInv'
<1> DEFINE g == Use.gen
           v == gens[g].value
           u == [Use EXCEPT !.gen = Null, !.held = IF v = Null THEN <<>> ELSE <<v>>]
           c == IF v = Null THEN count ELSE Taken(count, v)
<1>1. /\ ret # "none" /\ ret' = "none" /\ Put(AfterDrop(gens, {g}), u)
      /\ count' = Released(c, GivenByDrop(gens, {g})) /\ Forget(LostByDrop(gens, {g}))
      /\ pc' = pc /\ tries' = tries /\ orphans' = orphans
  BY DEF TakeOnce
<1>2. /\ Use = native[Here].use /\ Use \in Uses /\ gens \in [Gens -> GenFrames]
      /\ count \in [Values -> Int] /\ lost \in [Values -> Nat]
  BY FunctionUse
<1>3. g \in Gens /\ gens[g] \in GenFrames
  BY <1>1, <1>2, Consuming
<1>4. v \in Values \cup {Null}
  BY <1>3, FrameFields
<1>5. u \in Uses /\ u.gen = Null
  <2>1. (IF v = Null THEN <<>> ELSE <<v>>) \in Seq(Values)
    BY <1>4
  <2> HIDE DEF v
  <2> QED BY <1>2, <2>1 DEF Uses
<1>6. native' = [native EXCEPT ![Here].use = u] /\ gens' = AfterDrop(gens, {g})
  BY <1>1, PutOutside
<1>7. count' \in [Values -> Int] /\ lost' \in [Values -> Nat]
  <2>1. c \in [Values -> Int]
    BY <1>2, TakenType
  <2> HIDE DEF c
  <2>2. IsFiniteSet(DOMAIN GivenByDrop(gens, {g})) /\ IsFiniteSet(DOMAIN LostByDrop(gens, {g}))
    BY <1>2, DropFinite
  <2> QED BY <1>1, <1>2, <2>1, <2>2, Counting, Forgetting
<1>8. PICK S \in SUBSET Gens : S = {native[Here].use.gen} \ {Null}
  BY <1>2, <1>3
<1>9. S = {g}
  BY <1>2, <1>3, <1>8, NullAssumption
<1> HIDE DEF u, v, c
<1> QED BY <1>1, <1>5, <1>6, <1>7, <1>8, <1>9, FunctionGoesOn

LEMMA DrainedOutside == ASSUME IInv, Drained, Top.kind = "fn" PROVE IInv'
<1> DEFINE g == Use.gen
           u == [Use EXCEPT !.gen = Null]
<1>1. /\ ret = "end" /\ ret' = "none" /\ Put(AfterDrop(gens, {g}), u)
      /\ count' = Released(count, GivenByDrop(gens, {g})) /\ Forget(LostByDrop(gens, {g}))
      /\ pc' = pc /\ tries' = tries /\ orphans' = orphans
  BY DEF Drained
<1>2. /\ Use = native[Here].use /\ Use \in Uses /\ gens \in [Gens -> GenFrames]
      /\ count \in [Values -> Int] /\ lost \in [Values -> Nat]
  BY FunctionUse
<1>3. g \in Gens
  BY <1>1, Consuming
<1>4. u \in Uses /\ u.gen = Null
  BY <1>2 DEF Uses
<1>5. native' = [native EXCEPT ![Here].use = u] /\ gens' = AfterDrop(gens, {g})
  BY <1>1, PutOutside
<1>6. count' \in [Values -> Int] /\ lost' \in [Values -> Nat]
  BY <1>1, <1>2, DropFinite, Counting, Forgetting
<1>7. PICK S \in SUBSET Gens : S = {native[Here].use.gen} \ {Null}
  BY <1>2, <1>3
<1>8. S = {g}
  BY <1>2, <1>3, <1>7, NullAssumption
<1> HIDE DEF u
<1> QED BY <1>1, <1>4, <1>5, <1>6, <1>7, <1>8, FunctionGoesOn

LEMMA NextStep == ASSUME IInv, NextInFunction PROVE IInv'
<1>1. /\ Top.kind = "fn" /\ ret' = "none"
      /\ native' = [native EXCEPT ![Here].use.held = <<>>]
      /\ count' = Released(count, Use.held)
      /\ pc' = pc /\ tries' = tries /\ gens' = gens /\ lost' = lost /\ orphans' = orphans
  BY DEF NextInFunction, InFunction
<1>2. /\ Use = native[Here].use /\ Use \in Uses /\ gens \in [Gens -> GenFrames]
      /\ count \in [Values -> Int] /\ lost \in [Values -> Nat] /\ Stacks(native)
  BY <1>1, FunctionUse
<1> DEFINE u == [Use EXCEPT !.held = <<>>]
<1>3. u \in Uses /\ u.gen = Use.gen
  <2>1. <<>> \in Seq(Values)
    BY EmptySeq
  <2> QED BY <1>2, <2>1 DEF Uses
<1>4. native' = [native EXCEPT ![Here].use = u]
  <2>1. Here \in 1..Here /\ Here = Len(native) /\ native \in Seq(Activations)
    BY <1>2, TopIs
  <2> QED BY <1>1, <1>2, <2>1
<1>5. count' \in [Values -> Int]
  <2>1. Use.held \in Seq(Values)
    BY <1>2, UseFields
  <2> QED BY <1>1, <1>2, <2>1, SeqFinite, Counting
<1>6. PICK S \in SUBSET Gens : S = {}
  OBVIOUS
<1>7. gens' = AfterDrop(gens, S)
  BY <1>1, <1>2, <1>6, TreeNone
<1> HIDE DEF u
<1> QED BY <1>1, <1>2, <1>3, <1>4, <1>5, <1>6, <1>7, FunctionGoesOn

\* EndUse, when what is consumed in another way than by a loop is over.
LEMMA EndUseCounts ==
  ASSUME IInv, Top.kind = "fn", NEW ns, EndUse(ns), Use.gen # Null => Use.mode = "for"
  PROVE  /\ native' = ns /\ gens' = AfterDrop(gens, {native[Here].use.gen} \ {Null})
         /\ {native[Here].use.gen} \ {Null} \in SUBSET Gens
         /\ count' \in [Values -> Int] /\ lost' \in [Values -> Nat]
<1>1. /\ Use = native[Here].use /\ Use \in Uses /\ gens \in [Gens -> GenFrames]
      /\ count \in [Values -> Int] /\ lost \in [Values -> Nat]
  BY FunctionUse
<1>2. Use.held \in Seq(Values) /\ Use.gen \in Gens \cup {Null}
  BY <1>1, UseFields
<1> DEFINE S == IF Use.mode = "for" THEN {Use.gen} \ {Null} ELSE {}
<1>3. /\ native' = ns /\ gens' = AfterDrop(gens, S)
      /\ count' = Released(count, Join(<<Use.held, GivenByDrop(gens, S)>>))
      /\ Forget(LostByDrop(gens, S))
  BY DEF EndUse
<1>4. S = {native[Here].use.gen} \ {Null}
  BY <1>1
<1> HIDE DEF S
<1>5. IsFiniteSet(DOMAIN GivenByDrop(gens, S)) /\ IsFiniteSet(DOMAIN LostByDrop(gens, S)) /\ IsFiniteSet(DOMAIN Use.held)
  BY <1>1, <1>2, DropFinite, SeqFinite
<1>6. IsFiniteSet(DOMAIN Join(<<Use.held, GivenByDrop(gens, S)>>))
  BY <1>5, PairFinite
<1>7. count' \in [Values -> Int] /\ lost' \in [Values -> Nat]
  BY <1>1, <1>3, <1>5, <1>6, Counting, Forgetting
<1> QED BY <1>1, <1>2, <1>3, <1>4, <1>7

LEMMA EndStatementOutside == ASSUME IInv, EndStatement, Top.kind = "fn" PROVE IInv'
<1>1. /\ EndUse([native EXCEPT ![Here].use = NoUse])
      /\ Use.gen # Null => Use.mode = "for"
      /\ ret' = "none" /\ pc' = pc /\ tries' = tries /\ orphans' = orphans
  BY DEF EndStatement
<1>2. PICK S : S = {native[Here].use.gen} \ {Null}
  OBVIOUS
<1>3. /\ native' = [native EXCEPT ![Here].use = NoUse] /\ gens' = AfterDrop(gens, S) /\ S \in SUBSET Gens
      /\ count' \in [Values -> Int] /\ lost' \in [Values -> Nat]
  BY <1>1, <1>2, EndUseCounts
<1> QED BY <1>1, <1>2, <1>3, NoUseType, FunctionGoesOn
LEMMA AllFunctions ==
  ASSUME Stacks(native), Top.kind = "fn"
  PROVE  \A i \in 1..Here : native[i].kind = "fn"
<1>1. Here \in 1..Here /\ Here = Len(native) /\ Here \in Nat /\ native[Here].kind = "fn" /\ Shape(native)
  BY TopIs DEF Stacks
<1> SUFFICES ASSUME NEW i \in 1..Here, i # Here PROVE native[i].kind = "fn"
  BY <1>1
<1>2. i < Here
  BY <1>1
<1> QED BY <1>1, <1>2 DEF Shape

LEMMA ReturnStep == ASSUME IInv, Return PROVE IInv'
<1>1. /\ Top.kind = "fn" /\ ret' = "none" /\ pc' = pc /\ orphans' = orphans /\ Here > 1
      /\ Use.gen # Null => Use.mode = "for"
      /\ EndUse(Front(native))
      /\ tries' = IF Top.tried THEN SubSeq(tries, 1, Top.depth) ELSE tries
  BY DEF Return, InCode, InFunction
<1>2. /\ Stacks(native) /\ Frames(gens) /\ Runs(native, gens) /\ Bodied(native, gens)
      /\ Owned(native, gens, Live(gens, orphans)) /\ orphans \subseteq There(gens)
      /\ Windows(native, tries, gens) /\ tries \in Seq(TryFrames) /\ pc \in {"run", "exit"}
  BY Parts
<1>3. /\ Here \in 1..Here /\ Here = Len(native) /\ Here \in Nat /\ Top = native[Here]
      /\ native[Here] \in Activations /\ native \in Seq(Activations)
  BY <1>2, TopIs
<1>4. \A i \in 1..Here : native[i].kind = "fn"
  BY <1>1, <1>2, AllFunctions
<1>5. PICK S : S = {native[Here].use.gen} \ {Null}
  OBVIOUS
<1>6. /\ native' = Front(native) /\ gens' = AfterDrop(gens, S) /\ S \in SUBSET Gens
      /\ count' \in [Values -> Int] /\ lost' \in [Values -> Nat]
  BY <1>1, <1>5, EndUseCounts
<1>7. PICK n : n = Here - 1
  OBVIOUS
<1>8. n \in 1..Len(native) /\ n \in 0..Len(native) /\ n # Len(native) /\ n + 1 = Len(native) /\ n \in Nat
  BY <1>1, <1>3, <1>7
<1>9. PICK ms : ms = SubSeq(native, 1, n)
  OBVIOUS
<1>10. native' = ms /\ Stacks(ms) /\ Len(ms) = n /\ \A i \in 1..n : ms[i] = native[i]
  <2>1. native # <<>>
    BY <1>3, EmptySeq
  <2>2. native' = ms
    BY <1>3, <1>6, <1>7, <1>9, <2>1, FrontSeq
  <2> QED BY <1>2, <1>3, <1>8, <1>9, <2>2, StacksCut, CutSeq
<1>11. /\ Owned(ms, gens, Live(gens, orphans) \ S) /\ Runs(ms, gens)
       /\ S \cap orphans = {} /\ \A g \in S : gens[g].stage # "running"
       /\ \A i \in 1..Len(ms) : ms[i].kind = "fn"
  <2>1. S \subseteq {native[Here].use.gen}
    BY <1>5
  <2>2. Same(native, ms) \/ ms = SubSeq(native, 1, Here - 1)
    BY <1>7, <1>9
  <2>3. Len(ms) # Here
    BY <1>3, <1>8, <1>10
  <2>4. S \in SUBSET Gens
    BY <1>6
  <2> QED BY <1>1, <1>2, <1>5, <1>10, <2>1, <2>2, <2>3, <2>4, FunctionChange
<1>12. PICK hs : hs = AfterDrop(gens, S)
  OBVIOUS
<1>13. /\ Frames(hs) /\ Runs(ms, hs) /\ Owned(ms, hs, Live(hs, orphans)) /\ orphans \subseteq There(hs)
  <2> DEFINE A == AfterDrop(gens, S)
  <2>1. Stacks(ms) /\ Frames(gens) /\ Runs(ms, gens) /\ orphans \subseteq There(gens) /\ S \in SUBSET Gens
    BY <1>2, <1>6, <1>10, <1>11
  <2>2. S \cap orphans = {} /\ Owned(ms, gens, Live(gens, orphans) \ S)
    BY <1>11
  <2>3. \A g \in S : gens[g].stage # "running"
    BY <1>11
  <2>4. Frames(A) /\ Runs(ms, A)
    BY <2>1, <2>2, <2>3, Release
  <2>5. Owned(ms, A, Live(A, orphans)) /\ orphans \subseteq There(A)
    BY <2>1, <2>2, <2>3, Release
  <2> HIDE DEF A
  <2> QED BY <1>12, <2>4, <2>5 DEF A
<1>14. Bodied(ms, hs)
  BY <1>11 DEF Bodied
<1>15. EndOf(native, tries, n) = Top.depth
  BY <1>3, <1>8 DEF EndOf
<1>16. Windows(ms, SubSeq(tries, 1, Top.depth), hs) /\ SubSeq(tries, 1, Top.depth) \in Seq(TryFrames)
  <2>1. \A i \in 1..n : LevelsOf(native[i], hs) = LevelsOf(native[i], gens)
    BY <1>4, <1>3, <1>8 DEF LevelsOf
  <2>2. /\ Windows(SubSeq(native, 1, n), SubSeq(tries, 1, EndOf(native, tries, n)), hs)
        /\ SubSeq(tries, 1, EndOf(native, tries, n)) \in Seq(TryFrames)
    BY <1>2, <1>8, <2>1, WindowsCut
  <2> QED BY <1>9, <1>15, <2>2
<1>17. tries' = SubSeq(tries, 1, Top.depth)
  <2>1. CASE Top.tried
    BY <1>1, <2>1
  <2>2. CASE ~Top.tried
    <3>1. EndOf(native, tries, Here) = Len(tries) /\ LevelsOf(native[Here], gens) = {}
      BY <1>1, <1>3, <2>2 DEF EndOf, LevelsOf
    <3>2. Window(native[Here], tries, Top.depth, Len(tries), {}) /\ Top.depth <= Len(tries)
      BY <1>2, <1>3, <3>1 DEF Windows
    <3>3. Top.depth \in Nat /\ Len(tries) \in Nat
      BY <1>2, <1>3, ActivationFields, LenNat
    <3>4. Cardinality({}) = Len(tries) - Top.depth
      BY <1>2, <3>2, <3>3, WindowLength
    <3>5. Cardinality({}) = 0
      BY FS_EmptySet
    <3>6. Top.depth = Len(tries)
      BY <3>3, <3>4, <3>5
    <3> QED BY <1>1, <1>2, <2>2, <3>6
  <2> QED BY <2>1, <2>2
<1>18. gens' = hs
  BY <1>6, <1>12
<1>19. Windows(native', tries', gens') /\ tries' \in Seq(TryFrames)
  BY <1>10, <1>16, <1>17, <1>18
<1>20. /\ Stacks(native') /\ Frames(gens') /\ Runs(native', gens') /\ Bodied(native', gens')
       /\ Owned(native', gens', Live(gens', orphans')) /\ orphans' \subseteq There(gens')
  BY <1>1, <1>10, <1>13, <1>14, <1>18
<1> QED BY <1>1, <1>2, <1>6, <1>19, <1>20, Whole

LEMMA CallStep == ASSUME IInv, Call PROVE IInv'
<1>1. PICK tried \in BOOLEAN :
        /\ Top.kind = "fn" /\ ret = "none" /\ Here < MaxCalls
        /\ native' = Append(native, Function(Fresh, tried))
        /\ tries' = IF tried THEN Append(tries, Entry(Fresh, 0)) ELSE tries
        /\ UNCHANGED <<pc, gens, count, ret, lost, orphans>>
  BY DEF Call, InCode, InFunction
<1>2. /\ Stacks(native) /\ Frames(gens) /\ Runs(native, gens) /\ Bodied(native, gens)
      /\ Owned(native, gens, Live(gens, orphans)) /\ orphans \subseteq There(gens)
      /\ Windows(native, tries, gens) /\ tries \in Seq(TryFrames) /\ pc \in {"run", "exit"}
  BY Parts
<1>3. /\ Here \in 1..Here /\ Here = Len(native) /\ Here \in Nat /\ Top = native[Here]
      /\ native[Here] \in Activations /\ native \in Seq(Activations) /\ native[Len(native)].kind = "fn"
  BY <1>1, <1>2, TopIs
<1>4. Fresh \in Nat /\ \A i \in 1..Len(native) : native[i].id # Fresh
  BY <1>2, <1>3, FreshIs
<1>5. \A i \in 1..Len(native) : native[i].kind = "fn"
  BY <1>1, <1>2, <1>3, AllFunctions
<1>6. PICK a : a = Function(Fresh, tried)
  OBVIOUS
<1>7. /\ a \in Activations /\ a.kind = "fn" /\ a.id = Fresh /\ a.tried = tried /\ a.depth = Len(tries)
      /\ a.use = NoUse /\ a.gen = Null
  BY <1>2, <1>4, <1>6, LenNat, NoUseType DEF Function, Activations
<1>8. PICK ms : ms = Append(native, a)
  OBVIOUS
<1>9. /\ ms \in Seq(Activations) /\ Len(ms) = Len(native) + 1 /\ ms[Len(native) + 1] = a
      /\ \A i \in 1..Len(native) : ms[i] = native[i]
  BY <1>3, <1>7, <1>8, PushSeq
<1>10. Stacks(ms)
  <2>1. \A i \in 1..Len(native) : native[i].id # a.id
    BY <1>4, <1>7
  <2>2. Len(native) < MaxCalls
    BY <1>1, <1>3
  <2> QED BY <1>2, <1>3, <1>7, <1>8, <2>1, <2>2, StacksPush
<1>11. Runs(ms, gens)
  <2>1. \A i \in 1..Len(native) : native[i].kind = "resume" => native[i].gen # a.gen
    BY <1>5
  <2> QED BY <1>2, <1>7, <1>8, <2>1, RunsPush
<1>12. Bodied(ms, gens)
  <2>1. \A i \in 1..Len(ms) : ms[i].kind = "fn"
    BY <1>3, <1>5, <1>7, <1>9
  <2> QED BY <2>1 DEF Bodied
<1>13. Owned(ms, gens, Live(gens, orphans))
  <2>1. \A i \in 1..Len(ms) : i \in 1..Len(native) \/ i = Len(native) + 1
    BY <1>3, <1>9
  <2>2. \A i \in 1..Len(native) : i \in 1..Len(ms)
    BY <1>3, <1>9
  <2>3. \A i \in 1..Len(ms) : ms[i].use.gen # Null => i \in 1..Len(native) /\ ms[i].use.gen = native[i].use.gen
    BY <1>7, <1>9, <2>1, NoUseType
  <2>4. \A i \in 1..Len(native) : native[i].use.gen \in Live(gens, orphans) =>
          i \in 1..Len(ms) /\ ms[i].use.gen = native[i].use.gen
    BY <1>9, <2>2
  <2>5. /\ \A i \in 1..Len(ms) : ms[i].use.gen # Null => ms[i].use.gen \in Live(gens, orphans)
        /\ \A h \in Gens : \A d \in Depths : gens[h].use[d].gen # Null => gens[h].use[d].gen \in Live(gens, orphans)
    BY <1>2, <2>3 DEF Owned
  <2> DEFINE L == Live(gens, orphans)
  <2>6. L \in SUBSET L /\ Owned(native, gens, L)
    BY <1>2
  <2>7. /\ \A i \in 1..Len(ms) : ms[i].use.gen # Null =>
             i \in 1..Len(native) /\ ms[i].use.gen = native[i].use.gen /\ ms[i].use.gen \in L
        /\ \A h \in Gens : \A d \in Depths : gens[h].use[d].gen # Null =>
             gens[h].use[d].gen = gens[h].use[d].gen /\ gens[h].use[d].gen \in L
        /\ \A i \in 1..Len(native) : native[i].use.gen \in L => i \in 1..Len(ms) /\ ms[i].use.gen = native[i].use.gen
        /\ \A h \in Gens : \A d \in Depths : gens[h].use[d].gen \in L => gens[h].use[d].gen = gens[h].use[d].gen
    BY <2>3, <2>4, <2>5
  <2> HIDE DEF L
  <2>8. Owned(ms, gens, L)
    BY <2>6, <2>7, OwnedLess
  <2> QED BY <2>8 DEF L
<1>14. PICK us : us = tries'
  OBVIOUS
<1> DEFINE m == Len(tries)
           t == Entry(Fresh, 0)
<1>15. t \in TryFrames /\ t.id = a.id /\ t.level = 0 /\ t.unwind = Here /\ m \in Nat
  BY <1>1, <1>2, <1>3, <1>4, <1>7, UnwindsIs, LenNat DEF Entry, TryFrames
<1>16. us = IF tried THEN Append(tries, t) ELSE tries
  BY <1>1, <1>14
<1> HIDE DEF t
<1>17. Append(tries, t) \in Seq(TryFrames) /\ Len(Append(tries, t)) = m + 1
       /\ \A k \in 1..m : Append(tries, t)[k] = tries[k]
       /\ Append(tries, t)[m + 1] = t
  BY <1>2, <1>15, PushSeq
<1>18. /\ us \in Seq(TryFrames) /\ Len(us) = (IF tried THEN m + 1 ELSE m) /\ m <= Len(us)
       /\ \A k \in 1..m : us[k] = tries[k]
  BY <1>2, <1>15, <1>16, <1>17
<1>19. Window(a, tries, m, Len(tries), {})
  <2>1. (m + 1)..Len(tries) = {}
    BY <1>15
  <2> QED BY <2>1 DEF Window
<1>20. Window(a, us, m, Len(us), LevelsOf(a, gens))
  <2>1. LevelsOf(a, gens) = IF tried THEN {0} ELSE {}
    BY <1>7 DEF LevelsOf
  <2>2. CASE tried
    <3>1. Window(a, Append(tries, t), m, Len(tries) + 1, {} \cup {t.level})
      <4>1. \A l \in {} : l < t.level
        OBVIOUS
      <4>2. m \in Nat /\ m <= Len(tries)
        BY <1>15
      <4> QED BY <1>2, <1>15, <1>19, <4>1, <4>2, WindowPush
    <3>2. {} \cup {t.level} = {0}
      BY <1>15
    <3> QED BY <1>16, <1>18, <2>1, <2>2, <3>1, <3>2
  <2>3. CASE ~tried
    BY <1>16, <1>19, <2>1, <2>3
  <2> QED BY <2>2, <2>3
<1>21. Unwinding(ms, us, Len(native) + 1, m, Len(us))
  <2> SUFFICES ASSUME NEW k \in (m + 1)..Len(us) PROVE us[k].unwind = Len(native)
    BY <1>3, <1>7, <1>9 DEF Unwinding
  <2>1. tried /\ k = m + 1
    BY <1>15, <1>18
  <2> QED BY <1>3, <1>15, <1>16, <1>17, <2>1
<1>22. Windows(ms, us, gens)
  <2>1. a.depth = Len(tries) /\ Len(tries) <= Len(us) /\ \A k \in 1..Len(tries) : us[k] = tries[k]
    BY <1>7, <1>18
  <2>2. \A i \in 1..Len(native) : LevelsOf(native[i], gens) = LevelsOf(native[i], gens)
    OBVIOUS
  <2>3. Window(a, us, Len(tries), Len(us), LevelsOf(a, gens))
    BY <1>20
  <2>4. Unwinding(Append(native, a), us, Len(native) + 1, Len(tries), Len(us))
    BY <1>8, <1>21
  <2> QED BY <1>2, <1>3, <1>7, <1>8, <1>18, <2>1, <2>2, <2>3, <2>4, WindowsPush
<1>23. native' = ms /\ gens' = gens /\ tries' = us /\ ret' = "none" /\ orphans' = orphans /\ pc' = pc
       /\ count' \in [Values -> Int] /\ lost' \in [Values -> Nat]
  BY <1>1, <1>6, <1>8, <1>14, Parts
<1> QED BY <1>2, <1>10, <1>11, <1>12, <1>13, <1>18, <1>22, <1>23, Whole
-----------------------------------------------------------------------------
(* A generator starts                                                      *)

LEMMA NewFrameIs ==
  ASSUME NEW v \in Values
  PROVE  /\ NewFrame(v) \in GenFrames /\ Framed(NewFrame(v)) /\ NewFrame(v).stage = "start"
         /\ \A d \in Depths : NewFrame(v).use[d] = NoUse
<1>1. NoFrame \in GenFrames /\ NoFrame.blocks = <<>> /\ \A d \in Depths : NoFrame.use[d] = NoUse
  BY NoFrameType
<1> DEFINE h == NewFrame(v)
<1>2. h = [NoFrame EXCEPT !.stage = "start", !.param = v]
  BY DEF NewFrame
<1> HIDE DEF h
<1>3. h \in GenFrames /\ h.stage = "start" /\ h.blocks = NoFrame.blocks /\ h.use = NoFrame.use
  BY <1>1, <1>2 DEF GenFrames
<1>4. Len(h.blocks) = 0
  BY <1>1, <1>3
<1>5. Framed(h)
  BY <1>1, <1>3, <1>4, NoUseType, DepthsFinite DEF Framed
<1> QED BY <1>1, <1>3, <1>5 DEF h

\* Nothing holds a frame that is not there.
LEMMA Unheld ==
  ASSUME NEW ns, NEW gs, NEW os, Frames(gs), Owned(ns, gs, Live(gs, os)),
         NEW g \in Gens, gs[g].stage = "none"
  PROVE  /\ \A i \in 1..Len(ns) : ns[i].use.gen # g
         /\ \A h \in Gens : \A d \in Depths : gs[h].use[d].gen # g
         /\ \A d \in Depths : gs[g].use[d].gen = Null
         /\ g \notin Live(gs, os) /\ g # Null
<1>1. g \notin Live(gs, os)
  BY DEF Live
<1>2. gs[g] = NoFrame
  BY DEF Frames, Framed
<1>3. \A d \in Depths : gs[g].use[d].gen = Null
  BY <1>2, NoFrameType, NoUseType
<1>4. g # Null
  BY NullAssumption
<1> QED BY <1>1, <1>3, <1>4 DEF Owned

LEMMA StartStep == ASSUME IInv, Start PROVE IInv'
<1>1. PICK g \in Gens, m \in Modes, v \in Values :
        /\ InFunction /\ Top.use = NoUse /\ gens[g].stage = "none" /\ Room(v)
        /\ native' = [native EXCEPT ![Here].use = [NoUse EXCEPT !.gen = g, !.mode = m]]
        /\ gens' = [gens EXCEPT ![g] = NewFrame(v)]
        /\ count' = Taken(count, v)
        /\ UNCHANGED <<pc, tries, ret, lost, orphans>>
  BY DEF Start
<1>2. Top.kind = "fn" /\ ret' = "none"
  BY <1>1 DEF InFunction
<1>3. /\ Stacks(native) /\ Frames(gens) /\ Runs(native, gens) /\ Bodied(native, gens)
      /\ Owned(native, gens, Live(gens, orphans)) /\ orphans \subseteq There(gens)
      /\ Windows(native, tries, gens) /\ tries \in Seq(TryFrames) /\ pc \in {"run", "exit"}
      /\ gens \in [Gens -> GenFrames]
  BY Parts DEF Frames
<1>4. /\ Here \in 1..Here /\ Here = Len(native) /\ Here \in Nat /\ Top = native[Here]
  BY <1>3, TopIs
<1>5. PICK u : u = [NoUse EXCEPT !.gen = g, !.mode = m]
  OBVIOUS
<1>6. u \in Uses /\ u.gen = g
  BY <1>5, NoUseType DEF Uses
<1>7. PICK ms : ms = [native EXCEPT ![Here].use = u]
  OBVIOUS
<1>8. /\ Same(native, ms) /\ Stacks(ms) /\ Len(ms) = Here /\ ms[Here].use = u
      /\ \A i \in 1..Here : i # Here => ms[i] = native[i]
  <2>1. Stacks(native) /\ u \in Uses /\ Top.kind = "fn"
    BY <1>2, <1>3, <1>6
  <2>2. Same(native, ms) /\ Stacks(ms)
    BY <2>1, <1>7, PutFunction
  <2>3. Len(ms) = Here /\ ms[Here].use = u
    BY <2>1, <1>7, PutFunction
  <2>4. \A i \in 1..Here : i # Here => ms[i] = native[i]
    BY <2>1, <1>7, PutFunction
  <2> QED BY <2>2, <2>3, <2>4
<1>9. /\ NewFrame(v) \in GenFrames /\ Framed(NewFrame(v)) /\ NewFrame(v).stage = "start"
      /\ \A d \in Depths : NewFrame(v).use[d] = NoUse
  BY NewFrameIs
<1>10. PICK hs : hs = [gens EXCEPT ![g] = NewFrame(v)]
  OBVIOUS
<1>11. /\ hs[g] = NewFrame(v) /\ \A h \in Gens : h # g => hs[h] = gens[h]
       /\ hs \in [Gens -> GenFrames]
  BY <1>3, <1>9, <1>10
<1>12. Frames(hs)
  BY <1>3, <1>9, <1>11 DEF Frames
<1>13. \A i \in 1..Here : native[i].kind = "fn"
  BY <1>2, <1>3, AllFunctions
<1>14. Steady(native, gens, hs)
  <2>1. \A i \in 1..(Len(native) - 1) : i \in 1..Here
    BY <1>4
  <2> QED BY <1>1, <1>9, <1>11, <1>13, <2>1 DEF Steady
<1>15. Runs(ms, hs)
  BY <1>3, <1>8, <1>14, RunsSame
<1>16. Bodied(ms, hs)
  <2>1. \A i \in 1..Len(ms) : ms[i].kind = "fn"
    BY <1>4, <1>8, <1>13 DEF Same
  <2> QED BY <2>1 DEF Bodied
<1>17. Windows(ms, tries, hs)
  <2>1. native[Len(native)].kind # "resume"
    BY <1>4, <1>13
  <2> QED BY <1>3, <1>8, <1>14, <2>1, WindowsSame
<1>18. /\ \A i \in 1..Len(native) : native[i].use.gen # g
       /\ \A h \in Gens : \A d \in Depths : gens[h].use[d].gen # g
       /\ \A d \in Depths : gens[g].use[d].gen = Null
       /\ g \notin Live(gens, orphans) /\ g # Null
  BY <1>1, <1>3, Unheld
<1> DEFINE L == Live(gens, orphans)
           K == L \cup {g}
<1>19. Live(hs, orphans) = K
  <2>1. g \notin orphans
    BY <1>1, <1>3 DEF There
  <2> QED BY <1>9, <1>11, <2>1 DEF Live
<1>20. native[Here].use.gen = Null
  BY <1>1, <1>4, NoUseType
<1>21. \A i \in 1..Here : ms[i].use.gen = IF i = Here THEN g ELSE native[i].use.gen
  BY <1>6, <1>8
<1>22. \A h \in Gens : \A d \in Depths : hs[h].use[d].gen = gens[h].use[d].gen
  BY <1>9, <1>11, <1>18, NoUseType
<1>23. Owned(ms, hs, K)
  <2> HIDE DEF L
  <2>1. Owned(native, gens, L)
    BY <1>3 DEF L
  <2>2. \A i, j \in 1..Len(ms) : ms[i].use.gen # Null /\ ms[i].use.gen = ms[j].use.gen => i = j
    BY <1>4, <1>8, <1>18, <1>21, <2>1 DEF Owned
  <2>3. \A h, k \in Gens : \A d, e \in Depths :
          hs[h].use[d].gen # Null /\ hs[h].use[d].gen = hs[k].use[e].gen => h = k /\ d = e
    BY <1>22, <2>1 DEF Owned
  <2>4. \A i \in 1..Len(ms), h \in Gens, d \in Depths : ms[i].use.gen # Null => ms[i].use.gen # hs[h].use[d].gen
    BY <1>4, <1>8, <1>18, <1>21, <1>22, <2>1 DEF Owned
  <2>5. \A i \in 1..Len(ms) : ms[i].use.gen # Null => ms[i].use.gen \in K
    BY <1>4, <1>8, <1>21, <2>1 DEF Owned
  <2>6. \A h \in Gens : \A d \in Depths : hs[h].use[d].gen # Null => hs[h].use[d].gen \in K
    BY <1>22, <2>1 DEF Owned
  <2>7. ASSUME NEW x \in K
        PROVE  (\E i \in 1..Len(ms) : ms[i].use.gen = x) \/ \E h \in Gens : \E d \in Depths : hs[h].use[d].gen = x
    <3>1. CASE x = g
      BY <1>4, <1>8, <1>21, <3>1
    <3>2. CASE x # g
      <4>1. x \in L /\ x # Null
        BY <3>2, NullAssumption DEF L, Live
      <4>2. CASE \E i \in 1..Len(native) : native[i].use.gen = x
        BY <1>4, <1>8, <1>20, <1>21, <4>1, <4>2
      <4>3. CASE \E h \in Gens : \E d \in Depths : gens[h].use[d].gen = x
        BY <1>22, <4>3
      <4> QED BY <2>1, <4>1, <4>2, <4>3 DEF Owned
    <3> QED BY <3>1, <3>2
  <2> QED BY <2>2, <2>3, <2>4, <2>5, <2>6, <2>7 DEF Owned
<1>24. orphans \subseteq There(hs)
  BY <1>3, <1>9, <1>11 DEF There
<1>25. /\ native' = ms /\ gens' = hs /\ pc' = pc /\ tries' = tries /\ orphans' = orphans
       /\ count' \in [Values -> Int] /\ lost' \in [Values -> Nat]
  BY <1>1, <1>5, <1>7, <1>10, Parts, TakenType
<1> HIDE DEF K
<1> QED BY <1>2, <1>3, <1>8, <1>12, <1>15, <1>16, <1>17, <1>19, <1>23, <1>24, <1>25, Whole

LEMMA StartInsideStep == ASSUME IInv, StartInside PROVE IInv'
<1>1. PICK g \in Gens \ {G}, m \in Modes, v \in Values :
        /\ AtWork /\ Depth < MaxDepth /\ gens[g].stage = "none" /\ Room(v)
        /\ gens' = [gens EXCEPT
             ![g] = NewFrame(v),
             ![G].blocks = Append(@, Block(IF m = "for" THEN "for" ELSE "stmt")),
             ![G].use[Depth + 1] = [NoUse EXCEPT !.gen = g, !.mode = m]]
        /\ count' = Taken(count, v)
        /\ Forget(gens[G].use[Depth + 1].held)
        /\ orphans' = orphans \cup ({gens[G].use[Depth + 1].gen} \ {Null})
        /\ UNCHANGED <<pc, native, tries, ret>>
  BY DEF StartInside
<1>2. Top.kind = "resume" /\ ret' = "none" /\ Innermost.kind # "stmt"
  BY <1>1 DEF AtWork
<1>3. /\ Stacks(native) /\ Frames(gens) /\ Runs(native, gens) /\ Bodied(native, gens)
      /\ Owned(native, gens, Live(gens, orphans)) /\ orphans \subseteq There(gens)
      /\ Windows(native, tries, gens) /\ tries \in Seq(TryFrames) /\ pc \in {"run", "exit"}
      /\ count \in [Values -> Int] /\ lost \in [Values -> Nat]
  BY Parts
<1> DEFINE f  == gens[G]
           e  == Depth + 1
           b  == Block(IF m = "for" THEN "for" ELSE "stmt")
           bs == Append(f.blocks, b)
           u  == [NoUse EXCEPT !.gen = g, !.mode = m]
           us == [f.use EXCEPT ![e] = u]
           h  == [f EXCEPT !.blocks = bs, !.use = us]
           o  == f.use[e].gen
<1>4. /\ gens \in [Gens -> GenFrames] /\ G \in Gens /\ f \in GenFrames /\ Framed(f)
      /\ f.stage = "running" /\ f.blocks \in Seq(Blocks) /\ Depth = Len(f.blocks)
      /\ Depth \in Nat /\ Depth > 0 /\ Depth \in 1..Depth /\ Innermost = f.blocks[Depth]
      /\ f.blocks[1].kind = "body" /\ DOMAIN f.blocks = 1..Depth
  BY <1>2, Working
<1>5. e \in Depths /\ e \in Nat /\ f.use \in [Depths -> Uses] /\ f.use[e] \in Uses
  <2>1. MaxDepth \in Nat
    BY DepthsFinite
  <2>2. e \in Depths
    BY <1>1, <1>4, <2>1 DEF Depths
  <2> QED BY <1>4, <2>2, FrameFields
<1>6. b \in Blocks /\ b.kind = (IF m = "for" THEN "for" ELSE "stmt")
  BY DEF Block, Blocks, Kinds
<1>7. u \in Uses /\ u.gen = g /\ u.mode = m
  BY NoUseType DEF Uses
<1> HIDE DEF b, u
<1>8. /\ bs \in Seq(Blocks) /\ Len(bs) = e /\ bs[e] = b
      /\ \A d \in 1..Depth : bs[d] = f.blocks[d]
  BY <1>4, <1>6, PushSeq
<1>9. us \in [Depths -> Uses] /\ us[e] = u /\ \A d \in Depths : d # e => us[d] = f.use[d]
  BY <1>5, <1>7
<1>10. PICK hs : hs = [gens EXCEPT ![g] = NewFrame(v), ![G] = h]
  OBVIOUS
<1>11. gens' = hs
  BY <1>1, <1>4, <1>10 DEF b, u
<1> HIDE DEF bs, us
<1>12. h \in GenFrames /\ h.stage = f.stage /\ h.blocks = bs /\ h.use = us
  BY <1>4, <1>8, <1>9 DEF GenFrames
<1> HIDE DEF h
<1>13. Framed(h)
  <2>1. h.stage = "running" /\ Len(h.blocks) <= MaxDepth
    <3>1. MaxDepth \in Nat
      BY DepthsFinite
    <3> QED BY <1>1, <1>4, <1>8, <1>12, <3>1
  <2>2. h.blocks[1].kind = "body"
    <3>1. 1 \in 1..Depth
      BY <1>4
    <3> QED BY <1>4, <1>8, <1>12, <3>1
  <2>3. \A d \in Depths : f.use[d].gen # Null => f.use[d].mode = "for"
    BY <1>2, <1>4 DEF Framed
  <2>4. ASSUME NEW d \in Depths, h.use[d].gen # Null, h.use[d].mode # "for"
        PROVE  d = Len(h.blocks) /\ h.blocks[d].kind = "stmt"
    <3>1. d = e
      BY <1>9, <1>12, <2>3, <2>4
    <3>2. m # "for"
      BY <1>7, <1>9, <1>12, <2>4, <3>1
    <3> QED BY <1>6, <1>8, <1>12, <3>1, <3>2
  <2> QED BY <1>12, <2>1, <2>2, <2>4 DEF Framed
<1>14. TriesOf(h) = TriesOf(f)
  <2>1. DOMAIN bs = 1..e
    BY <1>5, <1>8
  <2>2. \A d : d \in 1..e <=> d \in 1..Depth \/ d = e
    BY <1>4
  <2>3. bs[e].kind # "try"
    BY <1>6, <1>8
  <2> QED BY <1>4, <1>8, <1>12, <2>1, <2>2, <2>3 DEF TriesOf
<1>15. h.blocks # <<>>
  <2>1. Len(h.blocks) # 0
    BY <1>4, <1>8, <1>12
  <2> QED BY <1>12, <2>1, <1>8, EmptySeq
<1>16. /\ NewFrame(v) \in GenFrames /\ Framed(NewFrame(v)) /\ NewFrame(v).stage = "start"
       /\ \A d \in Depths : NewFrame(v).use[d] = NoUse
  BY NewFrameIs
<1>17. /\ hs \in [Gens -> GenFrames] /\ hs[g] = NewFrame(v) /\ hs[G] = h
       /\ \A x \in Gens : x # g /\ x # G => hs[x] = gens[x]
  BY <1>4, <1>10, <1>12, <1>16
<1>18. Frames(hs)
  <2>1. \A x \in Gens : Framed(hs[x])
    BY <1>3, <1>13, <1>16, <1>17 DEF Frames
  <2> QED BY <1>17, <2>1 DEF Frames
<1>19. /\ Here = Len(native) /\ Here \in Nat /\ Here \in 1..Here /\ native[Here].kind = "resume"
       /\ G = native[Here].gen /\ Shape(native)
  BY <1>2, <1>3, TopIs DEF Stacks
<1>20. \A i \in 1..(Len(native) - 1) : native[i].kind = "resume" => hs[native[i].gen] = gens[native[i].gen]
  <2> SUFFICES ASSUME NEW i \in 1..(Len(native) - 1), native[i].kind = "resume"
               PROVE  hs[native[i].gen] = gens[native[i].gen]
    OBVIOUS
  <2>1. i \in 1..Len(native) /\ i # Here
    BY <1>19
  <2>2. native[i].gen \in Gens /\ native[i].gen # G
    BY <1>19, <2>1 DEF Shape
  <2>3. gens[native[i].gen].stage = "running"
    BY <1>3, <2>1 DEF Runs
  <2>4. native[i].gen # g
    BY <1>1, <2>3
  <2> QED BY <1>17, <2>2, <2>4
<1>21. Steady(native, gens, hs)
  <2>1. \A x \in Gens : hs[x].stage = "running" <=> gens[x].stage = "running"
    BY <1>1, <1>4, <1>12, <1>16, <1>17
  <2> QED BY <1>20, <2>1 DEF Steady
<1>22. Runs(native, hs)
  BY <1>3, <1>21, SameIs, RunsSame
<1>23. Bodied(native, hs)
  <2> SUFFICES ASSUME NEW i \in 1..Len(native), native[i].kind = "resume"
               PROVE  hs[native[i].gen].blocks # <<>>
    BY DEF Bodied
  <2>1. CASE i = Here
    BY <1>15, <1>17, <1>19, <2>1
  <2>2. CASE i # Here
    <3>1. i \in 1..(Len(native) - 1)
      BY <1>19, <2>2
    <3> QED BY <1>3, <1>20, <3>1 DEF Bodied
  <2> QED BY <2>1, <2>2
<1>24. Windows(native, tries, hs)
  <2>1. TriesOf(hs[native[Len(native)].gen]) = TriesOf(gens[native[Len(native)].gen])
    BY <1>14, <1>17, <1>19
  <2> QED BY <1>3, <1>21, <2>1, SameIs, WindowsSame
<1>25. /\ \A i \in 1..Len(native) : native[i].use.gen # g
       /\ \A x \in Gens : \A d \in Depths : gens[x].use[d].gen # g
       /\ \A d \in Depths : gens[g].use[d].gen = Null
       /\ g \notin Live(gens, orphans) /\ g # Null
  BY <1>1, <1>3, Unheld
<1>26. PICK os : os = orphans \cup ({o} \ {Null})
  OBVIOUS
<1>27. PICK L : L = Live(gens, orphans)
  OBVIOUS
<1>28. PICK K : K = (L \ {o}) \cup {g}
  OBVIOUS
<1>29. Owned(native, gens, L)
  BY <1>3, <1>27
<1>30. o # Null => o \in L
  BY <1>4, <1>5, <1>29 DEF Owned
<1>31. Null \notin L /\ L \subseteq Gens
  BY <1>27, NullAssumption DEF Live
<1>32. \A x \in Gens : hs[x].stage # "none" <=> gens[x].stage # "none" \/ x = g
  BY <1>4, <1>12, <1>16, <1>17
<1>33. Live(hs, os) = K
  <2>1. g \notin orphans
    BY <1>1, <1>3 DEF There
  <2>2. g # o
    BY <1>4, <1>5, <1>25
  <2>3. \A x \in Gens : x \in Live(hs, os) <=> x \in K
    BY <1>26, <1>27, <1>28, <1>31, <1>32, <2>1, <2>2, NullAssumption DEF Live
  <2>4. Live(hs, os) \subseteq Gens /\ K \subseteq Gens
    BY <1>28, <1>31 DEF Live
  <2> QED BY <2>3, <2>4
<1>34. os \subseteq There(hs)
  <2>1. o # Null => o \in Gens /\ gens[o].stage # "none"
    BY <1>27, <1>30 DEF Live
  <2> QED BY <1>3, <1>26, <1>32, <2>1 DEF There
<1>35. \A x \in Gens : \A d \in Depths :
         hs[x].use[d].gen = IF x = G /\ d = e THEN g ELSE gens[x].use[d].gen
  <2> SUFFICES ASSUME NEW x \in Gens, NEW d \in Depths
               PROVE  hs[x].use[d].gen = IF x = G /\ d = e THEN g ELSE gens[x].use[d].gen
    OBVIOUS
  <2>1. CASE x = g
    BY <1>16, <1>17, <1>25, <2>1, NoUseType
  <2>2. CASE x = G
    BY <1>7, <1>9, <1>12, <1>17, <2>2
  <2> QED BY <1>17, <2>1, <2>2
<1>36. Owned(native, hs, K)
  <2>1. \A i, j \in 1..Len(native) : native[i].use.gen # Null /\ native[i].use.gen = native[j].use.gen => i = j
    BY <1>29 DEF Owned
  <2>2. \A x, y \in Gens : \A c, d \in Depths :
          hs[x].use[c].gen # Null /\ hs[x].use[c].gen = hs[y].use[d].gen => x = y /\ c = d
    BY <1>25, <1>29, <1>35 DEF Owned
  <2>3. \A i \in 1..Len(native), x \in Gens, d \in Depths :
          native[i].use.gen # Null => native[i].use.gen # hs[x].use[d].gen
    BY <1>25, <1>29, <1>35 DEF Owned
  <2>4. \A i \in 1..Len(native) : native[i].use.gen # Null => native[i].use.gen \in K
    BY <1>4, <1>5, <1>28, <1>29 DEF Owned
  <2>5. ASSUME NEW x \in Gens, NEW d \in Depths, hs[x].use[d].gen # Null
        PROVE  hs[x].use[d].gen \in K
    <3>1. CASE x = G /\ d = e
      BY <1>28, <1>35, <3>1
    <3>2. CASE ~(x = G /\ d = e)
      <4>1. hs[x].use[d].gen = gens[x].use[d].gen /\ gens[x].use[d].gen \in L
        BY <1>29, <1>35, <2>5, <3>2 DEF Owned
      <4>2. gens[x].use[d].gen # o
        BY <1>4, <1>5, <1>29, <1>35, <2>5, <3>2 DEF Owned
      <4> QED BY <1>28, <4>1, <4>2
    <3> QED BY <3>1, <3>2
  <2>6. ASSUME NEW x \in K
        PROVE  \/ \E i \in 1..Len(native) : native[i].use.gen = x
               \/ \E y \in Gens : \E d \in Depths : hs[y].use[d].gen = x
    <3>1. CASE x = g
      BY <1>4, <1>5, <1>35, <3>1
    <3>2. CASE x # g
      <4>1. x \in L /\ x # o
        BY <1>28, <3>2
      <4>2. CASE \E i \in 1..Len(native) : native[i].use.gen = x
        BY <4>2
      <4>3. CASE \E y \in Gens : \E d \in Depths : gens[y].use[d].gen = x
        BY <1>35, <4>1, <4>3
      <4> QED BY <1>29, <4>1, <4>2, <4>3 DEF Owned
    <3> QED BY <3>1, <3>2
  <2> QED BY <2>1, <2>2, <2>3, <2>4, <2>5, <2>6 DEF Owned
<1>37. count' \in [Values -> Int] /\ lost' \in [Values -> Nat]
  <2>1. f.use[e].held \in Seq(Values)
    BY <1>5, UseFields
  <2> QED BY <1>1, <1>3, <2>1, SeqFinite, TakenType, Forgetting
<1>38. native' = native /\ pc' = pc /\ tries' = tries /\ orphans' = os
  BY <1>1, <1>26
<1> QED BY <1>2, <1>3, <1>11, <1>18, <1>22, <1>23, <1>24, <1>33, <1>34, <1>36, <1>37, <1>38, Whole
-----------------------------------------------------------------------------
(* A generator is resumed                                                  *)

LEMMA SingleSeq == \A S : \A x \in S : <<x>> \in Seq(S)
OBVIOUS

LEMMA ResumeStep == ASSUME IInv, Resume PROVE IInv'
<1>1. PICK g : g = Use.gen
  OBVIOUS
<1>2. /\ pc = "run" /\ ret = "none" /\ g # Null /\ Here < MaxCalls
      /\ native' = Append(native, [kind |-> "resume", id |-> Fresh, tried |-> FALSE,
                                   depth |-> Len(tries), gen |-> g, use |-> NoUse])
      /\ tries' = tries \o Reentered(gens[g], Fresh)
      /\ gens' = [gens EXCEPT ![g].stage = "running",
                              ![g].blocks = IF @ = <<>> THEN <<Block("body")>> ELSE @]
      /\ UNCHANGED <<pc, count, ret, lost, orphans>>
  BY <1>1 DEF Resume
<1>3. /\ Stacks(native) /\ Frames(gens) /\ Runs(native, gens) /\ Bodied(native, gens)
      /\ Owned(native, gens, Live(gens, orphans)) /\ orphans \subseteq There(gens)
      /\ Windows(native, tries, gens) /\ tries \in Seq(TryFrames) /\ pc \in {"run", "exit"}
      /\ gens \in [Gens -> GenFrames]
  BY Parts DEF Frames
<1>4. /\ Here \in 1..Here /\ Here = Len(native) /\ Here \in Nat /\ Top = native[Here]
      /\ native \in Seq(Activations) /\ Top.kind \in {"fn", "resume"}
  BY <1>3, TopIs
<1>5. Use = UseOf(native, gens, Len(native)) /\ Use \in Uses
  BY <1>3, <1>4, UseIs
<1>6. g \in Gens
  BY <1>1, <1>2, <1>5, UseFields
<1>7. \/ native[Here].use.gen = g
      \/ Top.kind = "resume" /\ G \in Gens /\ \E d \in Depths : gens[G].use[d].gen = g
  <2>1. CASE Top.kind = "fn"
    BY <1>1, <1>3, <2>1, UseIs
  <2>2. CASE Top.kind = "resume"
    <3>1. Use = IF Consumes(Innermost) THEN gens[G].use[Depth] ELSE NoUse
      BY <1>3, <2>2, UseIs
    <3>2. G \in Gens /\ Depth \in Depths
      BY <1>3, <2>2, WorkIs
    <3>3. NoUse.gen = Null
      BY NoUseType
    <3> QED BY <1>1, <1>2, <2>2, <3>1, <3>2, <3>3
  <2> QED BY <1>4, <2>1, <2>2
<1>8. gens[g].stage # "running"
  BY <1>3, <1>6, <1>7, TopHoldsIdle
<1>9. gens[g].stage # "none"
  <2> SUFFICES ASSUME gens[g].stage = "none" PROVE FALSE
    OBVIOUS
  <2>1. /\ \A i \in 1..Len(native) : native[i].use.gen # g
        /\ \A h \in Gens : \A d \in Depths : gens[h].use[d].gen # g
    BY <1>3, <1>6, Unheld
  <2> QED BY <1>4, <1>7, <2>1
<1> DEFINE f  == gens[g]
           bs == IF f.blocks = <<>> THEN <<Block("body")>> ELSE f.blocks
           h  == [f EXCEPT !.stage = "running", !.blocks = bs]
<1>10. f \in GenFrames /\ Framed(f) /\ f.blocks \in Seq(Blocks) /\ Len(f.blocks) <= MaxDepth
  BY <1>3, <1>6, FrameFields DEF Frames, Framed
<1>11. Block("body") \in Blocks /\ Block("body").kind = "body"
  BY DEF Block, Blocks, Kinds
<1>12. /\ bs \in Seq(Blocks) /\ bs # <<>> /\ Len(bs) <= MaxDepth /\ bs[1].kind = "body"
       /\ {d \in DOMAIN bs : bs[d].kind = "try"} = {d \in DOMAIN f.blocks : f.blocks[d].kind = "try"}
  <2>1. CASE f.blocks = <<>>
    <3>1. PICK b \in Blocks : b = Block("body")
      BY <1>11
    <3>2. bs = <<b>> /\ b.kind = "body"
      BY <1>11, <2>1, <3>1
    <3>3. bs \in Seq(Blocks) /\ Len(bs) = 1 /\ bs[1] = b /\ bs # <<>>
      <4>1. bs \in Seq(Blocks)
        BY <3>1, <3>2, SingleSeq
      <4>2. Len(bs) = 1 /\ bs[1] = b
        BY <3>2
      <4>3. bs # <<>>
        BY <3>2
      <4> QED BY <4>1, <4>2, <4>3
    <3>6. DOMAIN bs = 1..1
      BY <3>3
    <3>4. DOMAIN f.blocks = {}
      BY <2>1
    <3>5. MaxDepth \in Nat /\ MaxDepth > 0
      BY DepthsFinite
    <3>7. {d \in DOMAIN bs : bs[d].kind = "try"} = {}
      BY <3>2, <3>3, <3>6
    <3> QED BY <2>1, <3>2, <3>3, <3>4, <3>5, <3>7
  <2>2. CASE f.blocks # <<>>
    BY <1>10, <2>2 DEF Framed
  <2> QED BY <2>1, <2>2
<1>13. gens' = [gens EXCEPT ![g] = h]
  BY <1>2, <1>3, <1>6
<1> HIDE DEF bs
<1>14. h \in GenFrames /\ h.stage = "running" /\ h.blocks = bs /\ h.use = f.use
  BY <1>10, <1>12 DEF GenFrames
<1> HIDE DEF h
<1>15. Framed(h) /\ TriesOf(h) = TriesOf(f)
  <2>1. \A d \in Depths : f.use[d].gen # Null => f.use[d].mode = "for"
    BY <1>8, <1>10 DEF Framed
  <2> QED BY <1>12, <1>14, <2>1 DEF Framed, TriesOf
<1>16. PICK hs : hs = [gens EXCEPT ![g] = h]
  OBVIOUS
<1>17. hs \in [Gens -> GenFrames] /\ hs[g] = h /\ \A x \in Gens : x # g => hs[x] = gens[x]
  BY <1>3, <1>6, <1>14, <1>16
<1>18. Frames(hs)
  BY <1>3, <1>15, <1>17 DEF Frames
<1>19. Fresh \in Nat /\ \A i \in 1..Len(native) : native[i].id # Fresh
  BY <1>3, <1>4, FreshIs
<1>20. PICK a : a = [kind |-> "resume", id |-> Fresh, tried |-> FALSE,
                     depth |-> Len(tries), gen |-> g, use |-> NoUse]
  OBVIOUS
<1>21. /\ a \in Activations /\ a.kind = "resume" /\ a.id = Fresh /\ a.depth = Len(tries)
       /\ a.gen = g /\ a.use = NoUse
  BY <1>3, <1>6, <1>19, <1>20, LenNat, NoUseType DEF Activations
<1>22. \A i \in 1..Len(native) : native[i].kind = "resume" => native[i].gen \in Gens /\ native[i].gen # g
  BY <1>3, <1>8 DEF Runs, Stacks, Shape
<1>23. PICK ms : ms = Append(native, a)
  OBVIOUS
<1>24. /\ ms \in Seq(Activations) /\ Len(ms) = Len(native) + 1 /\ ms[Len(native) + 1] = a
       /\ \A i \in 1..Len(native) : ms[i] = native[i]
  BY <1>4, <1>21, <1>23, PushSeq
<1>25. \A i \in 1..Len(ms) : i \in 1..Len(native) \/ i = Len(native) + 1
  BY <1>4, <1>24
<1>26. Stacks(ms)
  <2>1. \A i \in 1..Len(native) : native[i].id # a.id
    BY <1>19, <1>21
  <2>2. Len(native) < MaxCalls
    BY <1>2, <1>4
  <2>3. \A i \in 1..Len(native) : native[i].kind = "resume" => native[i].gen # a.gen
    BY <1>21, <1>22
  <2>4. a.kind # "fn" /\ a.gen \in Gens
    BY <1>6, <1>21
  <2> QED BY <1>3, <1>21, <1>23, <2>1, <2>2, <2>3, <2>4, StacksPush
<1>27. Runs(ms, hs)
  <2>1. \A x \in Gens : (a.kind = "resume" /\ x = a.gen) \/ hs[x] = gens[x]
    BY <1>17, <1>21
  <2>2. \A i \in 1..Len(native) : native[i].kind = "resume" => native[i].gen # a.gen
    BY <1>21, <1>22
  <2>3. a.gen \in Gens /\ hs[a.gen].stage = "running" /\ UseOf(native, gens, Len(native)).gen = a.gen
    BY <1>1, <1>5, <1>6, <1>14, <1>17, <1>21
  <2> QED BY <1>3, <1>21, <1>23, <2>1, <2>2, <2>3, RunsPush
<1>28. Bodied(ms, hs)
  <2> SUFFICES ASSUME NEW i \in 1..Len(ms), ms[i].kind = "resume" PROVE hs[ms[i].gen].blocks # <<>>
    BY DEF Bodied
  <2>1. CASE i = Len(native) + 1
    BY <1>12, <1>14, <1>17, <1>21, <1>24, <2>1
  <2>2. CASE i \in 1..Len(native)
    BY <1>3, <1>17, <1>22, <1>24, <2>2 DEF Bodied
  <2> QED BY <1>25, <2>1, <2>2
<1>29. Live(hs, orphans) = Live(gens, orphans)
  BY <1>9, <1>14, <1>17 DEF Live
<1>30. Owned(ms, hs, Live(hs, orphans))
  <2> DEFINE L == Live(gens, orphans)
  <2>1. L \in SUBSET L /\ Owned(native, gens, L) /\ Null \notin L
    BY <1>3, NullAssumption DEF Live
  <2> HIDE DEF L
  <2>2. \A i \in 1..Len(ms) : ms[i].use.gen # Null =>
          i \in 1..Len(native) /\ ms[i].use.gen = native[i].use.gen /\ ms[i].use.gen \in L
    BY <1>21, <1>24, <1>25, <2>1, NoUseType DEF Owned
  <2>3. \A x \in Gens : \A d \in Depths : hs[x].use[d].gen = gens[x].use[d].gen
    BY <1>14, <1>17
  <2>4. \A x \in Gens : \A d \in Depths : hs[x].use[d].gen # Null =>
          hs[x].use[d].gen = gens[x].use[d].gen /\ hs[x].use[d].gen \in L
    BY <2>1, <2>3 DEF Owned
  <2>5. \A i \in 1..Len(native) : i \in 1..Len(ms)
    BY <1>4, <1>24
  <2>6. \A i \in 1..Len(native) : native[i].use.gen \in L => i \in 1..Len(ms) /\ ms[i].use.gen = native[i].use.gen
    BY <1>24, <2>5
  <2>7. \A x \in Gens : \A d \in Depths : gens[x].use[d].gen \in L => hs[x].use[d].gen = gens[x].use[d].gen
    BY <2>3
  <2>8. Owned(ms, hs, L)
    BY <2>1, <2>2, <2>4, <2>6, <2>7, OwnedLess
  <2> QED BY <1>29, <2>8 DEF L
<1>31. orphans \subseteq There(hs)
  BY <1>3, <1>14, <1>17 DEF There
<1>32. PICK us : us = tries \o Reentered(f, a.id)
  OBVIOUS
<1> DEFINE c == Cardinality(TriesOf(f))
           m == Len(tries)
<1>33. /\ us \in Seq(TryFrames) /\ Len(us) = m + c /\ \A k \in 1..m : us[k] = tries[k]
       /\ Window(a, us, m, m + c, TriesOf(f))
       /\ \A k \in (m + 1)..(m + c) : us[k].unwind = Unwinds
  <2>1. /\ us \in Seq(TryFrames) /\ Len(us) = m + c /\ \A k \in 1..m : us[k] = tries[k]
    BY <1>3, <1>10, <1>21, <1>32, WindowReenter
  <2>2. Window(a, us, m, m + c, TriesOf(f))
    BY <1>3, <1>10, <1>21, <1>32, WindowReenter
  <2>3. \A k \in (m + 1)..(m + c) : us[k].unwind = Unwinds
    BY <1>3, <1>10, <1>21, <1>32, WindowReenter
  <2> QED BY <2>1, <2>2, <2>3
<1>34. m \in Nat /\ c \in Nat
  BY <1>3, <1>10, LenNat, TriesAre
<1> HIDE DEF c
<1>35. Unwinding(ms, us, Len(native) + 1, m, Len(us))
  <2>1. /\ Unwinds \in Nat /\ \A j \in 1..Here : native[j].kind = "fn" => j <= Unwinds
    BY <1>3, UnwindsIs
  <2>2. \A j \in 1..Len(ms) : ms[j].kind = "fn" => j <= Unwinds
    BY <1>4, <1>21, <1>24, <1>25, <2>1
  <2>3. ms[Len(native) + 1].kind = "resume"
    BY <1>21, <1>24
  <2> QED BY <1>33, <2>2, <2>3 DEF Unwinding
<1>36. Windows(ms, us, hs)
  <2>1. /\ a.depth = Len(tries) /\ Len(tries) <= Len(us) /\ \A k \in 1..Len(tries) : us[k] = tries[k]
    BY <1>21, <1>33, <1>34
  <2>2. \A i \in 1..Len(native) : LevelsOf(native[i], hs) = LevelsOf(native[i], gens)
    <3> SUFFICES ASSUME NEW i \in 1..Len(native) PROVE LevelsOf(native[i], hs) = LevelsOf(native[i], gens)
      OBVIOUS
    <3>1. native[i].kind \in {"fn", "resume"}
      BY <1>3, StackIs
    <3> QED BY <1>17, <1>22, <3>1 DEF LevelsOf
  <2>3. Window(a, us, Len(tries), Len(us), LevelsOf(a, hs))
    BY <1>15, <1>17, <1>21, <1>33 DEF LevelsOf
  <2>4. Unwinding(Append(native, a), us, Len(native) + 1, Len(tries), Len(us))
    BY <1>23, <1>35
  <2>5. a.kind # "fn"
    BY <1>21
  <2> QED BY <1>3, <1>21, <1>23, <1>33, <2>1, <2>2, <2>3, <2>4, <2>5, WindowsPush
<1>37. /\ native' = ms /\ gens' = hs /\ tries' = us /\ ret' = "none" /\ orphans' = orphans /\ pc' = pc
       /\ count' \in [Values -> Int] /\ lost' \in [Values -> Nat]
  <2>1. native' = ms /\ gens' = hs /\ tries' = us
    BY <1>2, <1>13, <1>16, <1>20, <1>21, <1>23, <1>32
  <2> QED BY <1>2, <2>1, Parts
<1> QED BY <1>3, <1>18, <1>26, <1>27, <1>28, <1>30, <1>31, <1>33, <1>36, <1>37, Whole
-----------------------------------------------------------------------------
(* The jump                                                                *)

\* Frames that sit in no field, of the activations from `at` on; generators
\* that the jump ends; what it leaves of the frames.
Astray(ns, gs, at) ==
  {UseOf(ns, gs, i).gen : i \in {j \in at..Len(ns) : UseOf(ns, gs, j).mode # "for"}} \ {Null}
Ended(ns, at) == {ns[i].gen : i \in (at + 1)..Len(ns)}
LeftBy(ns, gs, at) ==
  [g \in Gens |-> [gs[g] EXCEPT
    !.stage = IF g \in Ended(ns, at) THEN "left" ELSE @,
    !.use = [d \in Depths |-> IF @[d].gen \in Astray(ns, gs, at) THEN [@[d] EXCEPT !.gen = Null] ELSE @[d]]]]

LEMMA AstrayIs ==
  ASSUME NEW ns, NEW gs, NEW L, Stacks(ns), Frames(gs), Owned(ns, gs, L), NEW at \in 1..Len(ns)
  PROVE  /\ Astray(ns, gs, at) \subseteq L /\ Null \notin Astray(ns, gs, at)
         /\ \A g \in Astray(ns, gs, at) :
              \/ \E i \in at..Len(ns) :
                   ns[i].kind = "fn" /\ ns[i].use.gen = g /\ ns[i].use.mode # "for"
              \/ \E i \in at..Len(ns) : \E d \in Depths :
                   ns[i].kind = "resume" /\ gs[ns[i].gen].use[d].gen = g
         /\ \A i \in at..Len(ns) :
              ns[i].kind = "fn" /\ ns[i].use.gen # Null /\ ns[i].use.mode # "for" =>
                ns[i].use.gen \in Astray(ns, gs, at)
         /\ \A i \in at..Len(ns) : \A d \in Depths :
              LET u == gs[ns[i].gen].use[d] IN
              ns[i].kind = "resume" /\ u.gen # Null /\ u.mode # "for" => u.gen \in Astray(ns, gs, at)
<1> DEFINE A == Astray(ns, gs, at)
<1>1. Len(ns) \in Nat /\ \A i \in at..Len(ns) : i \in 1..Len(ns) /\ ns[i] \in Activations /\ ns[i].kind \in {"fn", "resume"}
  <2>1. Len(ns) \in Nat
    BY StackIs
  <2>2. \A i \in at..Len(ns) : i \in 1..Len(ns)
    BY <2>1
  <2> QED BY <2>1, <2>2, StackIs
<1>2. \A i \in at..Len(ns) : ns[i].kind = "resume" => ns[i].gen \in Gens /\ gs[ns[i].gen] \in GenFrames /\ Framed(gs[ns[i].gen])
  BY <1>1 DEF Stacks, Shape, Frames
<1>3. ASSUME NEW i \in at..Len(ns), ns[i].kind = "fn"
      PROVE  UseOf(ns, gs, i) = ns[i].use
  BY <1>3 DEF UseOf
<1>4. ASSUME NEW i \in at..Len(ns), ns[i].kind = "resume", UseOf(ns, gs, i).gen # Null
      PROVE  \E d \in Depths : UseOf(ns, gs, i) = gs[ns[i].gen].use[d]
  <2> DEFINE f == gs[ns[i].gen]
             n == Len(f.blocks)
  <2>1. f \in GenFrames /\ Framed(f) /\ f.blocks \in Seq(Blocks) /\ n <= MaxDepth
    BY <1>2, <1>4, FrameFields DEF Framed
  <2>2. f.blocks # <<>> /\ UseOf(ns, gs, i) = f.use[n]
    BY <1>4, NoUseType DEF UseOf
  <2>3. n \in Depths
    <3>1. n \in Nat /\ n # 0
      BY <2>1, <2>2, EmptySeq
    <3>2. MaxDepth \in Nat
      BY DepthsFinite
    <3> QED BY <2>1, <3>1, <3>2 DEF Depths
  <2> QED BY <2>2, <2>3
<1>5. ASSUME NEW i \in at..Len(ns), NEW d \in Depths, ns[i].kind = "resume",
             gs[ns[i].gen].use[d].gen # Null, gs[ns[i].gen].use[d].mode # "for"
      PROVE  UseOf(ns, gs, i) = gs[ns[i].gen].use[d]
  <2> DEFINE f == gs[ns[i].gen]
  <2>1. Framed(f) /\ f.blocks \in Seq(Blocks)
    BY <1>2, <1>5, FrameFields
  <2>2. d = Len(f.blocks) /\ f.blocks[d].kind = "stmt"
    BY <1>5, <2>1 DEF Framed
  <2>3. f.blocks # <<>> /\ Last(f.blocks) = f.blocks[d]
    <3>1. d # 0
      BY DepthsFinite DEF Depths
    <3>2. f.blocks # <<>>
      BY <2>1, <2>2, <3>1, EmptySeq
    <3> QED BY <2>1, <2>2, <3>2, FrontSeq
  <2> QED BY <1>5, <2>2, <2>3 DEF UseOf, Consumes
<1>6. \A g \in A : g # Null /\ \E i \in at..Len(ns) : UseOf(ns, gs, i).gen = g /\ UseOf(ns, gs, i).mode # "for"
  BY DEF Astray
<1>7. \A i \in at..Len(ns) : UseOf(ns, gs, i).mode # "for" /\ UseOf(ns, gs, i).gen # Null => UseOf(ns, gs, i).gen \in A
  BY DEF Astray
<1> HIDE DEF A
<1>8. \A g \in A :
        \/ \E i \in at..Len(ns) : ns[i].kind = "fn" /\ ns[i].use.gen = g /\ ns[i].use.mode # "for"
        \/ \E i \in at..Len(ns) : \E d \in Depths : ns[i].kind = "resume" /\ gs[ns[i].gen].use[d].gen = g
  <2> SUFFICES ASSUME NEW g \in A
               PROVE  \/ \E i \in at..Len(ns) : ns[i].kind = "fn" /\ ns[i].use.gen = g /\ ns[i].use.mode # "for"
                      \/ \E i \in at..Len(ns) : \E d \in Depths : ns[i].kind = "resume" /\ gs[ns[i].gen].use[d].gen = g
    OBVIOUS
  <2>1. PICK i \in at..Len(ns) : UseOf(ns, gs, i).gen = g /\ UseOf(ns, gs, i).mode # "for" /\ g # Null
    BY <1>6
  <2>2. CASE ns[i].kind = "fn"
    BY <1>3, <2>1, <2>2
  <2>3. CASE ns[i].kind = "resume"
    BY <1>4, <2>1, <2>3
  <2> QED BY <1>1, <2>2, <2>3
<1>9. A \subseteq L
  <2> SUFFICES ASSUME NEW g \in A PROVE g \in L
    OBVIOUS
  <2>1. g # Null
    BY <1>6
  <2>2. ASSUME NEW i \in at..Len(ns), ns[i].use.gen = g PROVE g \in L
    BY <1>1, <2>1, <2>2 DEF Owned
  <2>3. ASSUME NEW i \in at..Len(ns), NEW d \in Depths, ns[i].kind = "resume", gs[ns[i].gen].use[d].gen = g
        PROVE  g \in L
    BY <1>2, <2>1, <2>3 DEF Owned
  <2> QED BY <1>8, <2>2, <2>3
<1>10. \A i \in at..Len(ns) : ns[i].kind = "fn" /\ ns[i].use.gen # Null /\ ns[i].use.mode # "for" => ns[i].use.gen \in A
  BY <1>3, <1>7
<1>11. \A i \in at..Len(ns) : \A d \in Depths :
         ns[i].kind = "resume" /\ gs[ns[i].gen].use[d].gen # Null /\ gs[ns[i].gen].use[d].mode # "for"
           => gs[ns[i].gen].use[d].gen \in A
  BY <1>5, <1>7
<1>12. Null \notin A
  BY <1>6
<1> QED BY <1>8, <1>9, <1>10, <1>11, <1>12 DEF A

\* What a jump leaves of the frames, before it releases any.
LEMMA LeftIs ==
  ASSUME NEW ns, NEW gs, NEW os, Stacks(ns), Frames(gs), Runs(ns, gs),
         Owned(ns, gs, Live(gs, os)), NEW at \in 1..Len(ns)
  PROVE  /\ Frames(LeftBy(ns, gs, at))
         /\ \A g \in Gens :
              /\ LeftBy(ns, gs, at)[g].stage = (IF g \in Ended(ns, at) THEN "left" ELSE gs[g].stage)
              /\ LeftBy(ns, gs, at)[g].blocks = gs[g].blocks
              /\ LeftBy(ns, gs, at)[g].stage = "none" <=> gs[g].stage = "none"
              /\ \A d \in Depths : /\ LeftBy(ns, gs, at)[g].use[d].mode = gs[g].use[d].mode
                                   /\ LeftBy(ns, gs, at)[g].use[d].gen =
                                        IF gs[g].use[d].gen \in Astray(ns, gs, at) THEN Null ELSE gs[g].use[d].gen
         /\ \A g \in Gens : LeftBy(ns, gs, at)[g].stage = "running" <=>
              \E i \in 1..at : ns[i].kind = "resume" /\ ns[i].gen = g
         /\ \A i \in 1..(at - 1) : ns[i].kind = "resume" => LeftBy(ns, gs, at)[ns[i].gen] = gs[ns[i].gen]
<1> DEFINE A == Astray(ns, gs, at)
           E == Ended(ns, at)
           K == LeftBy(ns, gs, at)
           w(g) == [d \in Depths |-> IF gs[g].use[d].gen \in A THEN [gs[g].use[d] EXCEPT !.gen = Null] ELSE gs[g].use[d]]
<1>1. /\ A \subseteq Live(gs, os) /\ Null \notin A
      /\ \A g \in A :
           \/ \E i \in at..Len(ns) : ns[i].kind = "fn" /\ ns[i].use.gen = g /\ ns[i].use.mode # "for"
           \/ \E i \in at..Len(ns) : \E d \in Depths : ns[i].kind = "resume" /\ gs[ns[i].gen].use[d].gen = g
      /\ \A i \in at..Len(ns) : \A d \in Depths :
           ns[i].kind = "resume" /\ gs[ns[i].gen].use[d].gen # Null /\ gs[ns[i].gen].use[d].mode # "for"
             => gs[ns[i].gen].use[d].gen \in A
  BY AstrayIs
<1>2. /\ Len(ns) \in Nat /\ at \in Nat /\ at <= Len(ns) /\ at > 0
      /\ \A i \in 1..Len(ns) : ns[i] \in Activations /\ ns[i].kind \in {"fn", "resume"}
  BY StackIs
<1>3. \A g \in Gens : gs[g] \in GenFrames /\ Framed(gs[g]) /\ gs[g].use \in [Depths -> Uses]
  BY FrameFields DEF Frames
<1>4. K = [g \in Gens |-> [gs[g] EXCEPT !.stage = IF g \in E THEN "left" ELSE @, !.use = w(g)]]
  BY DEF LeftBy
<1>5. \A g \in Gens : w(g) \in [Depths -> Uses]
  <2> SUFFICES ASSUME NEW g \in Gens, NEW d \in Depths PROVE w(g)[d] \in Uses
    OBVIOUS
  <2>1. gs[g].use[d] \in Uses
    BY <1>3
  <2>2. [gs[g].use[d] EXCEPT !.gen = Null] \in Uses
    BY <2>1 DEF Uses
  <2> QED BY <2>1, <2>2
<1>6. \A g \in Gens : \A d \in Depths :
        /\ w(g)[d].mode = gs[g].use[d].mode
        /\ w(g)[d].gen = IF gs[g].use[d].gen \in A THEN Null ELSE gs[g].use[d].gen
        /\ gs[g].use[d].gen \notin A => w(g)[d] = gs[g].use[d]
  <2> SUFFICES ASSUME NEW g \in Gens, NEW d \in Depths
               PROVE  /\ w(g)[d].mode = gs[g].use[d].mode
                      /\ w(g)[d].gen = IF gs[g].use[d].gen \in A THEN Null ELSE gs[g].use[d].gen
                      /\ gs[g].use[d].gen \notin A => w(g)[d] = gs[g].use[d]
    OBVIOUS
  <2>1. gs[g].use[d] \in Uses
    BY <1>3
  <2> QED BY <2>1 DEF Uses
<1> HIDE DEF w
<1>7. \A g \in Gens : /\ K[g] \in GenFrames /\ K[g].use = w(g) /\ K[g].blocks = gs[g].blocks
                      /\ K[g].stage = (IF g \in E THEN "left" ELSE gs[g].stage)
                      /\ g \notin E /\ w(g) = gs[g].use => K[g] = gs[g]
  <2> SUFFICES ASSUME NEW g \in Gens
               PROVE  /\ K[g] \in GenFrames /\ K[g].use = w(g) /\ K[g].blocks = gs[g].blocks
                      /\ K[g].stage = (IF g \in E THEN "left" ELSE gs[g].stage)
                      /\ g \notin E /\ w(g) = gs[g].use => K[g] = gs[g]
    OBVIOUS
  <2>1. K[g] = [gs[g] EXCEPT !.stage = IF g \in E THEN "left" ELSE @, !.use = w(g)]
    BY <1>4
  <2>2. gs[g] \in GenFrames /\ w(g) \in [Depths -> Uses]
    BY <1>3, <1>5
  <2> HIDE DEF K, E
  <2> QED BY <2>1, <2>2 DEF GenFrames
<1>8. K \in [Gens -> GenFrames]
  BY <1>4, <1>7
<1>9. \A i \in (at + 1)..Len(ns) : i \in 1..Len(ns) /\ i \in at..Len(ns)
  BY <1>2
<1>10. \A g \in E : (g \in Gens => gs[g].stage = "running" /\ \E i \in (at + 1)..Len(ns) : ns[i].kind = "resume" /\ ns[i].gen = g)
  <2> SUFFICES ASSUME NEW g \in E, g \in Gens
               PROVE  gs[g].stage = "running" /\ \E i \in (at + 1)..Len(ns) : ns[i].kind = "resume" /\ ns[i].gen = g
    OBVIOUS
  <2>1. PICK i \in (at + 1)..Len(ns) : ns[i].gen = g
    BY DEF Ended
  <2>2. CASE ns[i].kind = "resume"
    BY <1>9, <2>1, <2>2 DEF Runs
  <2>3. CASE ns[i].kind = "fn"
    BY <1>9, <2>1, <2>3, NullAssumption DEF Stacks, Shape
  <2> QED BY <1>2, <1>9, <2>2, <2>3
<1> HIDE DEF A, E, K
<1>11. \A i \in (at + 1)..Len(ns) : ns[i].gen \in E
  BY DEF E, Ended
<1>12. ASSUME NEW g \in Gens, \A d \in Depths : gs[g].use[d].gen \notin A
       PROVE  w(g) = gs[g].use
  <2>1. \A d \in Depths : w(g)[d] = gs[g].use[d]
    BY <1>6, <1>12
  <2> QED BY <1>3, <1>5, <2>1
<1>13. ASSUME NEW g \in Gens
       PROVE  K[g].stage = "none" <=> gs[g].stage = "none"
  BY <1>7, <1>10, <1>13
<1>14. ASSUME NEW g \in Gens, K[g].stage = "none"
       PROVE  K[g] = NoFrame
  <2>1. gs[g] = NoFrame
    BY <1>3, <1>13, <1>14 DEF Framed
  <2>2. \A d \in Depths : gs[g].use[d].gen \notin A
    BY <1>1, <2>1, NoFrameType, NoUseType
  <2>3. w(g) = gs[g].use /\ g \notin E
    BY <1>7, <1>12, <1>14, <2>2
  <2> QED BY <1>7, <2>1, <2>3
<1>15. ASSUME NEW g \in Gens, NEW d \in Depths, K[g].use[d].gen # Null, K[g].use[d].mode # "for"
       PROVE  K[g].stage = "running" /\ d = Len(K[g].blocks) /\ K[g].blocks[d].kind = "stmt"
  <2>1. gs[g].use[d].gen # Null /\ gs[g].use[d].gen \notin A /\ gs[g].use[d].mode # "for"
    BY <1>6, <1>7, <1>15
  <2>2. gs[g].stage = "running" /\ d = Len(gs[g].blocks) /\ gs[g].blocks[d].kind = "stmt"
    BY <1>3, <2>1 DEF Framed
  <2>3. g \notin E
    BY <1>1, <1>9, <1>10, <2>1
  <2> QED BY <1>7, <2>2, <2>3
<1>16. Frames(K)
  <2> SUFFICES ASSUME NEW g \in Gens PROVE Framed(K[g])
    BY <1>8 DEF Frames
  <2>1. K[g] \in GenFrames /\ Len(K[g].blocks) <= MaxDepth /\ (K[g].blocks # <<>> => K[g].blocks[1].kind = "body")
    BY <1>3, <1>7 DEF Framed
  <2> QED BY <1>14, <1>15, <2>1 DEF Framed
<1>17. ASSUME NEW i \in 1..at, ns[i].kind = "resume"
       PROVE  ns[i].gen \in Gens /\ ns[i].gen \notin E /\ gs[ns[i].gen].stage = "running"
  <2>1. i \in 1..Len(ns)
    BY <1>2
  <2>2. ns[i].gen \in Gens /\ gs[ns[i].gen].stage = "running"
    BY <1>17, <2>1 DEF Stacks, Shape, Runs
  <2>3. ASSUME ns[i].gen \in E PROVE FALSE
    <3>1. PICK j \in (at + 1)..Len(ns) : ns[j].kind = "resume" /\ ns[j].gen = ns[i].gen
      BY <1>10, <2>2, <2>3
    <3>2. j \in 1..Len(ns)
      BY <1>9
    <3>3. i = j
      BY <1>17, <2>1, <3>1, <3>2 DEF Stacks, Shape
    <3> QED BY <1>2, <3>3
  <2> QED BY <2>2, <2>3
<1>18. \A g \in Gens : K[g].stage = "running" <=> \E i \in 1..at : ns[i].kind = "resume" /\ ns[i].gen = g
  <2> SUFFICES ASSUME NEW g \in Gens
               PROVE  K[g].stage = "running" <=> \E i \in 1..at : ns[i].kind = "resume" /\ ns[i].gen = g
    OBVIOUS
  <2>1. ASSUME K[g].stage = "running" PROVE \E i \in 1..at : ns[i].kind = "resume" /\ ns[i].gen = g
    <3>1. g \notin E /\ gs[g].stage = "running"
      BY <1>7, <2>1
    <3>2. PICK i \in 1..Len(ns) : ns[i].kind = "resume" /\ ns[i].gen = g
      BY <3>1 DEF Runs
    <3>3. i \in 1..at \/ i \in (at + 1)..Len(ns)
      BY <1>2
    <3> QED BY <1>11, <3>1, <3>2, <3>3
  <2>2. ASSUME NEW i \in 1..at, ns[i].kind = "resume", ns[i].gen = g PROVE K[g].stage = "running"
    BY <1>7, <1>17, <2>2
  <2> QED BY <2>1, <2>2
<1>19. ASSUME NEW i \in 1..(at - 1), ns[i].kind = "resume"
       PROVE  K[ns[i].gen] = gs[ns[i].gen]
  <2>1. i \in 1..at /\ i \in 1..Len(ns) /\ i < at
    BY <1>2
  <2>2. ns[i].gen \in Gens /\ ns[i].gen \notin E
    BY <1>17, <1>19, <2>1
  <2>3. ASSUME NEW d \in Depths, gs[ns[i].gen].use[d].gen \in A PROVE FALSE
    <3>1. gs[ns[i].gen].use[d].gen # Null
      BY <1>1, <2>3
    <3>2. ASSUME NEW j \in at..Len(ns), ns[j].use.gen = gs[ns[i].gen].use[d].gen PROVE FALSE
      <4>1. j \in 1..Len(ns)
        BY <1>2
      <4> QED BY <2>2, <3>1, <3>2, <4>1 DEF Owned
    <3>3. ASSUME NEW j \in at..Len(ns), NEW e \in Depths, ns[j].kind = "resume",
                 gs[ns[j].gen].use[e].gen = gs[ns[i].gen].use[d].gen
          PROVE  FALSE
      <4>1. j \in 1..Len(ns) /\ i # j
        BY <1>2, <2>1
      <4>2. ns[j].gen \in Gens
        BY <3>3, <4>1 DEF Stacks, Shape
      <4>3. ns[j].gen = ns[i].gen
        BY <2>2, <3>1, <3>3, <4>2 DEF Owned
      <4> QED BY <1>19, <2>1, <3>3, <4>1, <4>3 DEF Stacks, Shape
    <3> QED BY <1>1, <2>3, <3>2, <3>3
  <2> QED BY <1>7, <1>12, <2>2, <2>3
<1>20. \A g \in Gens :
         /\ K[g].stage = (IF g \in E THEN "left" ELSE gs[g].stage)
         /\ K[g].blocks = gs[g].blocks
         /\ K[g].stage = "none" <=> gs[g].stage = "none"
         /\ \A d \in Depths : /\ K[g].use[d].mode = gs[g].use[d].mode
                              /\ K[g].use[d].gen = IF gs[g].use[d].gen \in A THEN Null ELSE gs[g].use[d].gen
  BY <1>6, <1>7, <1>13
<1> QED BY <1>16, <1>18, <1>19, <1>20 DEF A, E, K

\* What a cut of the native stack at `at`, m frames of which stay, releases.
Cuts(ns, at, m, T) ==
  /\ m \in {at - 1, at} /\ Null \notin T
  /\ \A i \in 1..m : ns[i].use.gen # Null => i < at
  /\ \A g \in T : \E i \in at..Len(ns) :
       ns[i].kind = "fn" /\ ns[i].use.gen = g /\ ns[i].use.mode = "for"
  /\ \A i \in (m + 1)..Len(ns) : ns[i].use.gen # Null /\ ns[i].use.mode = "for" => ns[i].use.gen \in T

LEMMA KeptOwned ==
  ASSUME NEW ns, NEW gs, NEW os, Stacks(ns), Frames(gs), Runs(ns, gs), os \subseteq There(gs),
         Owned(ns, gs, Live(gs, os)), NEW at \in 1..Len(ns), NEW m, NEW T, Cuts(ns, at, m, T)
  PROVE  /\ Owned(SubSeq(ns, 1, m), LeftBy(ns, gs, at),
                  Live(LeftBy(ns, gs, at), os \cup Astray(ns, gs, at)) \ T)
         /\ T \subseteq Live(gs, os) /\ T \cap Astray(ns, gs, at) = {}
         /\ os \cup Astray(ns, gs, at) \subseteq There(LeftBy(ns, gs, at))
<1> DEFINE A == Astray(ns, gs, at)
           H == LeftBy(ns, gs, at)
           L == Live(gs, os)
           K == (L \ A) \ T
           ms == SubSeq(ns, 1, m)
<1>1. /\ A \subseteq L /\ Null \notin A
      /\ \A g \in A :
           \/ \E i \in at..Len(ns) : ns[i].kind = "fn" /\ ns[i].use.gen = g /\ ns[i].use.mode # "for"
           \/ \E i \in at..Len(ns) : \E d \in Depths : ns[i].kind = "resume" /\ gs[ns[i].gen].use[d].gen = g
      /\ \A i \in at..Len(ns) :
           ns[i].kind = "fn" /\ ns[i].use.gen # Null /\ ns[i].use.mode # "for" => ns[i].use.gen \in A
  BY AstrayIs
<1>2. /\ \A g \in Gens : H[g].stage = "none" <=> gs[g].stage = "none"
      /\ \A g \in Gens : \A d \in Depths :
           H[g].use[d].gen = IF gs[g].use[d].gen \in A THEN Null ELSE gs[g].use[d].gen
  BY LeftIs
<1>3. /\ Len(ns) \in Nat /\ at \in Nat /\ at <= Len(ns) /\ at > 0
      /\ \A i \in 1..Len(ns) : ns[i] \in Activations /\ ns[i].kind \in {"fn", "resume"}
      /\ \A i \in 1..Len(ns) : ns[i].kind = "resume" => ns[i].gen \in Gens /\ ns[i].use = NoUse
      /\ ns \in Seq(Activations)
  BY StackIs DEF Stacks, Shape
<1>4. m \in 0..Len(ns) /\ m <= at /\ m >= at - 1
  BY <1>3 DEF Cuts
<1>5. Len(ms) = m /\ \A i \in 1..m : ms[i] = ns[i]
  BY <1>3, <1>4, CutSeq
<1>6. L \subseteq Gens /\ Null \notin L
  BY NullAssumption DEF Live
<1>7. Live(H, os \cup A) = L \ A
  BY <1>2 DEF Live
<1> HIDE DEF A, H, L, ms
<1>8. Owned(ns, gs, L)
  BY DEF L
<1>9. ASSUME NEW i \in 1..Len(ns), NEW h \in Gens, NEW d \in Depths, ns[i].use.gen # Null
      PROVE  ns[i].use.gen # gs[h].use[d].gen
  BY <1>8, <1>9 DEF Owned
<1>10. ASSUME NEW i \in 1..Len(ns), NEW j \in 1..Len(ns), ns[i].use.gen # Null, ns[i].use.gen = ns[j].use.gen
       PROVE  i = j
  BY <1>8, <1>10 DEF Owned
<1>11. ASSUME NEW i \in 1..Len(ns), ns[i].use.gen \in A
       PROVE  i >= at /\ ns[i].use.mode # "for"
  <2>1. ns[i].use.gen # Null
    BY <1>1, <1>11
  <2>2. ASSUME NEW j \in at..Len(ns), ns[j].use.gen = ns[i].use.gen, ns[j].use.mode # "for"
        PROVE  i >= at /\ ns[i].use.mode # "for"
    <3>1. j \in 1..Len(ns) /\ j >= at
      BY <1>3
    <3>2. i = j
      BY <1>10, <2>1, <2>2, <3>1
    <3> QED BY <2>2, <3>1, <3>2
  <2>3. ASSUME NEW j \in at..Len(ns), NEW d \in Depths, ns[j].kind = "resume",
               gs[ns[j].gen].use[d].gen = ns[i].use.gen
        PROVE  FALSE
    <3>1. j \in 1..Len(ns)
      BY <1>3
    <3>2. ns[j].gen \in Gens
      BY <1>3, <2>3, <3>1
    <3> QED BY <1>9, <2>1, <2>3, <3>2
  <2> QED BY <1>1, <1>11, <2>2, <2>3
<1>12. ASSUME NEW g \in T
       PROVE  /\ g # Null /\ g \in L /\ g \notin A
              /\ \A h \in Gens : \A d \in Depths : gs[h].use[d].gen # g
              /\ \A i \in 1..Len(ns) : ns[i].use.gen = g => i >= at
  <2>1. PICK j \in at..Len(ns) : ns[j].kind = "fn" /\ ns[j].use.gen = g /\ ns[j].use.mode = "for"
    BY DEF Cuts
  <2>2. g # Null
    BY DEF Cuts
  <2>3. j \in 1..Len(ns) /\ j >= at
    BY <1>3
  <2>4. g \in L
    BY <1>8, <2>1, <2>2, <2>3 DEF Owned
  <2>5. g \notin A
    BY <1>11, <2>1, <2>3
  <2>6. \A h \in Gens : \A d \in Depths : gs[h].use[d].gen # g
    BY <1>9, <2>1, <2>2, <2>3
  <2>7. \A i \in 1..Len(ns) : ns[i].use.gen = g => i >= at
    BY <1>10, <2>1, <2>2, <2>3
  <2> QED BY <2>2, <2>4, <2>5, <2>6, <2>7
<1>13. K \in SUBSET L
  OBVIOUS
<1>14. ASSUME NEW i \in 1..Len(ms), ms[i].use.gen # Null
       PROVE  i \in 1..Len(ns) /\ ms[i].use.gen = ns[i].use.gen /\ ms[i].use.gen \in K
  <2>1. i \in 1..m /\ i \in 1..Len(ns) /\ ms[i] = ns[i]
    BY <1>3, <1>4, <1>5
  <2>2. i < at
    BY <1>14, <2>1 DEF Cuts
  <2>3. ns[i].use.gen \in L
    BY <1>8, <1>14, <2>1 DEF Owned
  <2>4. ns[i].use.gen \notin A
    <3>1. ~(i >= at)
      BY <1>3, <2>1, <2>2
    <3> QED BY <1>11, <2>1, <3>1
  <2>5. ns[i].use.gen \notin T
    <3>1. ~(i >= at)
      BY <1>3, <2>1, <2>2
    <3> QED BY <1>12, <2>1, <3>1
  <2> QED BY <2>1, <2>3, <2>4, <2>5
<1>15. ASSUME NEW h \in Gens, NEW d \in Depths, H[h].use[d].gen # Null
       PROVE  H[h].use[d].gen = gs[h].use[d].gen /\ H[h].use[d].gen \in K
  <2>1. H[h].use[d].gen = gs[h].use[d].gen /\ gs[h].use[d].gen \notin A
    BY <1>2, <1>15
  <2>2. gs[h].use[d].gen \in L
    BY <1>8, <1>15, <2>1 DEF Owned
  <2>3. gs[h].use[d].gen \notin T
    BY <1>12
  <2> QED BY <2>1, <2>2, <2>3
<1>16. ASSUME NEW i \in 1..Len(ns), ns[i].use.gen \in K
       PROVE  i \in 1..Len(ms) /\ ms[i].use.gen = ns[i].use.gen
  <2>1. ns[i].use.gen # Null /\ ns[i].use.gen \notin A /\ ns[i].use.gen \notin T
    BY <1>6, <1>16
  <2>2. ns[i].kind = "fn"
    BY <1>3, <2>1, NoUseType
  <2>3. ASSUME ~(i <= m) PROVE FALSE
    <3>1. i \in (m + 1)..Len(ns) /\ i \in at..Len(ns)
      BY <1>3, <1>4, <2>3
    <3>2. ns[i].use.mode = "for"
      BY <1>1, <2>1, <2>2, <3>1
    <3> QED BY <2>1, <3>1, <3>2 DEF Cuts
  <2>4. i \in 1..m
    BY <1>3, <1>4, <2>3
  <2> QED BY <1>5, <2>4
<1>17. ASSUME NEW h \in Gens, NEW d \in Depths, gs[h].use[d].gen \in K
       PROVE  H[h].use[d].gen = gs[h].use[d].gen
  BY <1>2, <1>17
<1> HIDE DEF K
<1>18. Owned(ms, H, K)
  BY <1>8, <1>13, <1>14, <1>15, <1>16, <1>17, OwnedLess
<1>19. K = Live(H, os \cup A) \ T
  BY <1>7 DEF K
<1>20. os \cup A \subseteq There(H)
  <2>1. L \subseteq There(gs)
    BY DEF L, Live, There
  <2>2. There(H) = There(gs)
    BY <1>2 DEF There
  <2> QED BY <1>1, <2>1, <2>2
<1>21. T \subseteq L /\ T \cap A = {}
  BY <1>12
<1> QED BY <1>18, <1>19, <1>20, <1>21 DEF A, H, L, ms

Skipped(ns, t) == {i \in DOMAIN ns : ns[i].kind = "fn" /\ Rank(ns, i) > t.unwind}
Tracked(ns, t) == {ns[i].use.gen : i \in {j \in Skipped(ns, t) : ns[j].use.mode = "for"}} \ {Null}
Words(ns, gs, t, at) ==
  Join(<<Join([i \in Skipped(ns, t) |-> ns[i].use.held]), GivenByDrop(LeftBy(ns, gs, at), Tracked(ns, t))>>)

LEMMA LandForgets ==
  ASSUME NEW v, NEW ns, NEW gs, NEW cnt, NEW ws, NEW t, NEW at, Land(v, ns, gs, cnt, ws, t, at)
  PROVE  /\ Forget(Join(<<ws, LostByDrop(LeftBy(ns, gs, at), Tracked(ns, t))>>))
         /\ orphans' = orphans \cup Astray(ns, gs, at)
         /\ pc' = pc /\ ret' = ret
BY DEF Land, Skipped, Tracked, LeftBy, Astray, Ended

LEMMA LandAtFunction ==
  ASSUME NEW v, NEW ns, NEW gs, NEW cnt, NEW ws, NEW t, NEW at, Land(v, ns, gs, cnt, ws, t, at),
         ns[at].kind = "fn"
  PROVE  /\ native' = SubSeq(ns, 1, at - 1) /\ tries' = SubSeq(tries, 1, ns[at].depth)
         /\ gens' = AfterDrop(LeftBy(ns, gs, at), Tracked(ns, t))
BY DEF Land, Skipped, Tracked, LeftBy, Astray, Ended

Entered(gs, g, d, v) ==
  [gs EXCEPT ![g].blocks = Append(SubSeq(@, 1, d - 1), [Block("caught") EXCEPT !.raised = v])]

LEMMA LandAtResume ==
  ASSUME NEW v, NEW ns, NEW gs, NEW cnt, NEW ws, NEW t, NEW at, Land(v, ns, gs, cnt, ws, t, at),
         ns[at].kind # "fn"
  PROVE  /\ native' = SubSeq(ns, 1, at) /\ tries' = Front(tries)
         /\ gens' = Entered(AfterDrop(LeftBy(ns, gs, at), Tracked(ns, t)), ns[at].gen, t.level, v)
BY DEF Land, Skipped, Tracked, LeftBy, Astray, Ended, Entered

LEMMA LandGives ==
  ASSUME NEW v, NEW ns, NEW gs, NEW cnt, NEW ws, NEW t, NEW at, Land(v, ns, gs, cnt, ws, t, at)
  PROVE  \/ count' = Released(cnt, Join(<<Words(ns, gs, t, at), <<v>>>>))
         \/ count' = Released(cnt, Words(ns, gs, t, at))
BY DEF Land, Skipped, Tracked, Words, LeftBy, Astray, Ended

LEMMA LandCounts ==
  ASSUME lost \in [Values -> Nat], NEW v, NEW ns, NEW gs, Stacks(ns), Frames(gs),
         NEW cnt \in [Values -> Int], NEW ws, IsFiniteSet(DOMAIN ws),
         NEW t, NEW at, Land(v, ns, gs, cnt, ws, t, at), Frames(LeftBy(ns, gs, at))
  PROVE  count' \in [Values -> Int] /\ lost' \in [Values -> Nat]
<1> DEFINE K == LeftBy(ns, gs, at)
           T == Tracked(ns, t)
           W == [i \in Skipped(ns, t) |-> ns[i].use.held]
<1>1. K \in [Gens -> GenFrames]
  BY DEF Frames
<1>2. IsFiniteSet(DOMAIN GivenByDrop(K, T)) /\ IsFiniteSet(DOMAIN LostByDrop(K, T))
  BY <1>1, DropFinite
<1>3. /\ Len(ns) \in Nat /\ DOMAIN ns = 1..Len(ns)
      /\ \A i \in 1..Len(ns) : ns[i] \in Activations
  BY StackIs DEF Stacks
<1>4. Skipped(ns, t) \subseteq 1..Len(ns)
  BY <1>3 DEF Skipped
<1>5. IsFiniteSet(Skipped(ns, t))
  BY <1>3, <1>4, Within
<1>6. \A i \in Skipped(ns, t) : ns[i].use.held \in Seq(Values)
  <2> SUFFICES ASSUME NEW i \in Skipped(ns, t) PROVE ns[i].use.held \in Seq(Values)
    OBVIOUS
  <2>1. ns[i].use \in Uses
    BY <1>3, <1>4, ActivationFields
  <2> QED BY <2>1, UseFields
<1>7. DOMAIN W = Skipped(ns, t) /\ \A i \in DOMAIN W : IsFiniteSet(DOMAIN W[i])
  BY <1>6, SeqFinite
<1>8. IsFiniteSet(DOMAIN W)
  BY <1>5, <1>7
<1> HIDE DEF W
<1>9. IsFiniteSet(DOMAIN Join(W))
  BY <1>7, <1>8, JoinFinite
<1>10. Words(ns, gs, t, at) = Join(<<Join(W), GivenByDrop(K, T)>>)
  BY DEF Words, W
<1> HIDE DEF K, T
<1>11. IsFiniteSet(DOMAIN Words(ns, gs, t, at))
  BY <1>2, <1>9, <1>10, PairFinite
<1>12. IsFiniteSet(DOMAIN Join(<<Words(ns, gs, t, at), <<v>>>>))
  BY <1>11, SingletonFinite, PairFinite
<1>13. IsFiniteSet(DOMAIN Join(<<ws, LostByDrop(K, T)>>))
  BY <1>2, PairFinite
<1>14. \/ count' = Released(cnt, Join(<<Words(ns, gs, t, at), <<v>>>>))
       \/ count' = Released(cnt, Words(ns, gs, t, at))
  BY LandGives
<1>15. Forget(Join(<<ws, LostByDrop(K, T)>>))
  BY LandForgets DEF K, T
<1>16. count' \in [Values -> Int]
  BY <1>11, <1>12, <1>14, Counting
<1>17. lost' \in [Values -> Nat]
  BY <1>13, <1>15, Forgetting
<1> QED BY <1>16, <1>17

\* gs is what the code on top has made of g0 before it jumps: the tries below
\* are as they were, and so are the blocks around the try that the jump enters.
Fits(ns, gs, g0) ==
  /\ \A i \in 1..(Len(ns) - 1) : LevelsOf(ns[i], gs) = LevelsOf(ns[i], g0)
  /\ \A i \in 1..(Len(ns) - 1) : ns[i].kind = "resume" => gs[ns[i].gen].blocks # <<>>
  /\ \A i \in 1..Len(ns) : ns[i].kind = "resume" =>
       \A d \in TriesOf(g0[ns[i].gen]) : (\A e \in TriesOf(g0[ns[i].gen]) : e <= d) =>
         /\ d \in Depths /\ d - 1 \in 1..Len(gs[ns[i].gen].blocks)
         /\ {e \in TriesOf(gs[ns[i].gen]) : e <= d - 1} = TriesOf(g0[ns[i].gen]) \ {d}

Ready(ns, gs, g0) ==
  /\ Stacks(ns) /\ Frames(gs) /\ Runs(ns, gs)
  /\ Owned(ns, gs, Live(gs, orphans)) /\ orphans \subseteq There(gs)
  /\ Windows(ns, tries, g0) /\ tries \in Seq(TryFrames) /\ Fits(ns, gs, g0)

LEMMA LandFunction ==
  ASSUME NEW ns, NEW gs, NEW g0, Ready(ns, gs, g0), lost \in [Values -> Nat], pc \in {"run", "exit"},
         ret = "none", NEW n \in 1..Len(ns), ns[n].kind = "fn", NEW t,
         t.level \in LevelsOf(ns[n], g0), t.unwind = n - 1,
         NEW v, NEW cnt \in [Values -> Int], NEW ws, IsFiniteSet(DOMAIN ws),
         Land(v, ns, gs, cnt, ws, t, n)
  PROVE  IInv'
<1> DEFINE A == Astray(ns, gs, n)
           K == LeftBy(ns, gs, n)
           T == Tracked(ns, t)
           m == n - 1
           ms == SubSeq(ns, 1, m)
           hs == AfterDrop(K, T)
           os == orphans \cup A
<1>1. /\ Stacks(ns) /\ Frames(gs) /\ Runs(ns, gs)
      /\ Owned(ns, gs, Live(gs, orphans)) /\ orphans \subseteq There(gs)
      /\ Windows(ns, tries, g0) /\ tries \in Seq(TryFrames)
  BY DEF Ready
<1>2. /\ Len(ns) \in Nat /\ n \in Nat /\ n <= Len(ns) /\ n > 0
      /\ \A i \in 1..Len(ns) : ns[i] \in Activations /\ ns[i].kind \in {"fn", "resume"}
      /\ \A i \in 1..Len(ns) : ns[i].kind = "resume" => ns[i].gen \in Gens /\ ns[i].use = NoUse
      /\ ns \in Seq(Activations) /\ DOMAIN ns = 1..Len(ns) /\ ~ns[1].tried
  <2>1. Len(ns) \in Nat /\ \A i \in 1..Len(ns) : ns[i] \in Activations /\ ns[i].kind \in {"fn", "resume"}
    BY <1>1, StackIs
  <2>2. n \in Nat /\ n <= Len(ns) /\ n > 0
    BY <2>1
  <2>3. ns \in Seq(Activations) /\ Shape(ns)
    BY <1>1 DEF Stacks
  <2>4. /\ \A i \in 1..Len(ns) : ns[i].kind = "resume" => ns[i].gen \in Gens /\ ns[i].use = NoUse
        /\ ~ns[1].tried
    BY <2>3 DEF Shape
  <2>5. DOMAIN ns = 1..Len(ns)
    BY <2>3
  <2> QED BY <2>1, <2>2, <2>3, <2>4, <2>5
<1>3. n # 1
  BY <1>2 DEF LevelsOf
<1>4. m \in 1..Len(ns) /\ m + 1 = n /\ m \in 0..Len(ns) /\ m # Len(ns)
  BY <1>2, <1>3
<1>5. \A i \in 1..m : i \in 1..Len(ns) /\ i < n
  BY <1>2
<1>6. \A i \in 1..m : ns[i].kind = "fn"
  BY <1>1, <1>2, <1>5 DEF Stacks, Shape
<1>7. Skipped(ns, t) = {i \in n..Len(ns) : ns[i].kind = "fn"}
  <2>1. \A i \in 1..Len(ns) : ns[i].kind = "fn" => Rank(ns, i) = i
    BY <1>1, RankIs
  <2>2. \A i : i \in n..Len(ns) <=> i \in 1..Len(ns) /\ i > n - 1
    BY <1>2
  <2>3. \A i : i \in Skipped(ns, t) <=> i \in 1..Len(ns) /\ ns[i].kind = "fn" /\ i > n - 1
    BY <1>2, <2>1 DEF Skipped
  <2> QED BY <2>2, <2>3
<1>8. Cuts(ns, n, m, T)
  <2>1. m \in {n - 1, n} /\ Null \notin T
    BY DEF Tracked
  <2>2. \A g \in T : \E i \in n..Len(ns) : ns[i].kind = "fn" /\ ns[i].use.gen = g /\ ns[i].use.mode = "for"
    BY <1>7 DEF Tracked
  <2>3. ASSUME NEW i \in (m + 1)..Len(ns), ns[i].use.gen # Null, ns[i].use.mode = "for"
        PROVE  ns[i].use.gen \in T
    <3>1. i \in n..Len(ns) /\ i \in 1..Len(ns)
      BY <1>2
    <3>2. ns[i].kind = "fn"
      BY <1>2, <2>3, <3>1, NoUseType
    <3> QED BY <1>7, <2>3, <3>1, <3>2 DEF Tracked
  <2> HIDE DEF T, m
  <2> QED BY <1>5, <2>1, <2>2, <2>3 DEF Cuts
<1> HIDE DEF A, K, T, m, ms, hs, os
<1>9. /\ Owned(ms, K, Live(K, os) \ T) /\ T \subseteq Live(gs, orphans) /\ T \cap A = {}
      /\ os \subseteq There(K)
  BY <1>1, <1>8, KeptOwned DEF A, K, ms, os
<1>10. Frames(K) /\ \A g \in Gens : K[g].stage = "running" <=> \E i \in 1..n : ns[i].kind = "resume" /\ ns[i].gen = g
  BY <1>1, LeftIs DEF K
<1>11. \A g \in Gens : K[g].stage # "running"
  <2>1. \A i \in 1..n : i \in 1..m \/ i = n
    BY <1>2 DEF m
  <2> QED BY <1>6, <1>10, <2>1
<1>12. T \in SUBSET Gens /\ T \cap os = {} /\ \A g \in T : K[g].stage # "running"
  <2>1. T \subseteq Gens /\ T \cap orphans = {}
    BY <1>9 DEF Live
  <2> QED BY <1>9, <1>11, <2>1 DEF os
<1>13. Stacks(ms)
  BY <1>1, <1>4, StacksCut DEF ms
<1>14. Runs(ms, K)
  <2>1. \A g \in Gens : K[g].stage = "running" <=> \E i \in 1..m : ns[i].kind = "resume" /\ ns[i].gen = g
    BY <1>6, <1>11
  <2>2. \A i \in 1..(m - 1) : ns[i].kind = "resume" => K[ns[i].gen] = gs[ns[i].gen]
    <3>1. \A i \in 1..(m - 1) : i \in 1..m
      BY <1>4
    <3> QED BY <1>6, <3>1
  <2>3. Stacks(ns) /\ Runs(ns, gs) /\ m \in 1..Len(ns)
    BY <1>1, <1>4
  <2>4. Runs(SubSeq(ns, 1, m), K)
    <3>1. Remains(ns, gs, K, m)
      BY <2>1, <2>2 DEF Remains
    <3> QED BY <2>3, <3>1, RunsCut
  <2> QED BY <2>4 DEF ms
<1>27. Stacks(ms) /\ Frames(K) /\ Runs(ms, K) /\ os \subseteq There(K) /\ T \in SUBSET Gens /\ T \cap os = {}
  BY <1>9, <1>10, <1>12, <1>13, <1>14
<1>28. (\A g \in T : K[g].stage # "running") /\ Owned(ms, K, Live(K, os) \ T)
  BY <1>9, <1>12
<1>15. Frames(hs) /\ Runs(ms, hs)
  BY <1>27, <1>28, Release DEF hs
<1>16. Owned(ms, hs, Live(hs, os)) /\ os \subseteq There(hs)
  BY <1>27, <1>28, Release DEF hs
<1>17. Len(ms) = m /\ \A i \in 1..m : ms[i] = ns[i]
  BY <1>2, <1>4, CutSeq DEF ms
<1>18. Bodied(ms, hs)
  BY <1>6, <1>17 DEF Bodied
<1>19. EndOf(ns, tries, m) = ns[n].depth
  BY <1>4 DEF EndOf
<1>20. Windows(ms, SubSeq(tries, 1, ns[n].depth), hs) /\ SubSeq(tries, 1, ns[n].depth) \in Seq(TryFrames)
  <2>1. \A i \in 1..m : LevelsOf(ns[i], hs) = LevelsOf(ns[i], g0)
    BY <1>6 DEF LevelsOf
  <2>2. /\ Windows(SubSeq(ns, 1, m), SubSeq(tries, 1, EndOf(ns, tries, m)), hs)
        /\ SubSeq(tries, 1, EndOf(ns, tries, m)) \in Seq(TryFrames)
    BY <1>1, <1>4, <2>1, WindowsCut
  <2> QED BY <1>19, <2>2 DEF ms
<1>21. /\ native' = ms /\ tries' = SubSeq(tries, 1, ns[n].depth) /\ gens' = hs
       /\ orphans' = os /\ pc' = pc /\ ret' = ret
  BY LandForgets, LandAtFunction DEF ms, m, hs, K, T, os, A
<1>22. count' \in [Values -> Int] /\ lost' \in [Values -> Nat]
  BY <1>1, <1>10, LandCounts DEF K
<1>23. Stacks(native') /\ Frames(gens') /\ Runs(native', gens') /\ Bodied(native', gens')
  BY <1>13, <1>15, <1>18, <1>21
<1>24. Owned(native', gens', Live(gens', orphans')) /\ orphans' \subseteq There(gens')
  BY <1>16, <1>21
<1>25. Windows(native', tries', gens') /\ tries' \in Seq(TryFrames)
  BY <1>20, <1>21
<1>26. pc' \in {"run", "exit"} /\ ret' = "none"
  BY <1>21
<1> QED BY <1>22, <1>23, <1>24, <1>25, <1>26, Whole

\* No generator of an array or of a scalar.
Fors(f) == \A e \in Depths : f.use[e].gen # Null => f.use[e].mode = "for"

Catches(f, d, v) == [f EXCEPT !.blocks = Append(SubSeq(@, 1, d - 1), [Block("caught") EXCEPT !.raised = v])]

LEMMA EnteredIs ==
  ASSUME NEW gs \in [Gens -> GenFrames], NEW g \in Gens, NEW d, NEW v
  PROVE  Entered(gs, g, d, v) = [gs EXCEPT ![g] = Catches(gs[g], d, v)]
BY DEF Entered, Catches

\* The blocks of a generator that a jump enters.
LEMMA Caught ==
  ASSUME NEW f \in GenFrames, Framed(f), f.stage = "running", NEW v \in Values \cup {Null},
         NEW d \in Depths, d - 1 \in 1..Len(f.blocks),
         Fors(f)
  PROVE  /\ Catches(f, d, v) \in GenFrames /\ Framed(Catches(f, d, v))
         /\ Catches(f, d, v).stage = f.stage /\ Catches(f, d, v).use = f.use
         /\ Catches(f, d, v).blocks # <<>>
         /\ TriesOf(Catches(f, d, v)) = {e \in TriesOf(f) : e <= d - 1}
<1> DEFINE h == Catches(f, d, v)
           k == d - 1
           s == SubSeq(f.blocks, 1, k)
           b == [Block("caught") EXCEPT !.raised = v]
           q == Append(s, b)
<1>1. /\ f.blocks \in Seq(Blocks) /\ Len(f.blocks) \in Nat /\ d \in Nat /\ d <= MaxDepth /\ MaxDepth \in Nat
      /\ k \in 1..Len(f.blocks) /\ k \in 0..Len(f.blocks)
  <2>1. f.blocks \in Seq(Blocks)
    BY FrameFields
  <2>2. Len(f.blocks) \in Nat
    BY <2>1, LenNat
  <2> QED BY <2>1, <2>2, DepthsFinite DEF Depths
<1>2. b \in Blocks /\ b.kind = "caught"
  BY DEF Block, Blocks, Kinds
<1> HIDE DEF b
<1>3. s \in Seq(Blocks) /\ Len(s) = k /\ \A i \in 1..k : s[i] = f.blocks[i]
  BY <1>1, CutSeq
<1> HIDE DEF s
<1>4. /\ q \in Seq(Blocks) /\ Len(q) = k + 1
      /\ \A i \in 1..k : q[i] = s[i]
      /\ q[k + 1] = b
  <2>1. s \in Seq(Blocks) /\ b \in Blocks
    BY <1>2, <1>3
  <2> QED BY <1>3, <2>1, PushSeq
<1> HIDE DEF q, k, h
<1>5. k + 1 = d /\ 1 \in 1..k
  BY <1>1 DEF k
<1>6. q[1] = f.blocks[1] /\ f.blocks # <<>>
  <2>1. f.blocks # <<>>
    BY <1>1, EmptySeq
  <2> QED BY <1>3, <1>4, <1>5, <2>1
<1>7. /\ h \in GenFrames /\ h.blocks = q /\ h.stage = "running" /\ h.use = f.use
  <2>1. h = [f EXCEPT !.blocks = q]
    BY DEF h, q, s, b, k, Catches
  <2> QED BY <1>4, <2>1 DEF GenFrames
<1>8. q # <<>>
  BY <1>1, <1>4, <1>5, EmptySeq
<1>9. Framed(h)
  <2>1. Len(h.blocks) <= MaxDepth
    BY <1>1, <1>4, <1>5, <1>7
  <2>2. h.blocks[1].kind = "body"
    BY <1>6, <1>7 DEF Framed
  <2> QED BY <1>7, <2>1, <2>2 DEF Framed, Fors
<1>10. TriesOf(h) = {e \in TriesOf(f) : e <= k}
  <2>1. DOMAIN q = 1..(k + 1) /\ DOMAIN f.blocks = 1..Len(f.blocks)
    BY <1>1, <1>4
  <2>2. \A e : e \in TriesOf(h) <=> e \in 1..(k + 1) /\ q[e].kind = "try"
    BY <1>7, <2>1 DEF TriesOf
  <2>3. \A e \in 1..k : q[e] = f.blocks[e]
    BY <1>3, <1>4
  <2>4. \A e : e \in 1..(k + 1) <=> e \in 1..k \/ e = k + 1
    BY <1>1
  <2>5. \A e : e \in TriesOf(h) <=> e \in 1..k /\ f.blocks[e].kind = "try"
    BY <1>2, <1>4, <2>2, <2>3, <2>4
  <2>6. \A e : e \in 1..k <=> e \in 1..Len(f.blocks) /\ e <= k
    BY <1>1
  <2>7. \A e : e \in TriesOf(f) <=> e \in 1..Len(f.blocks) /\ f.blocks[e].kind = "try"
    BY <2>1 DEF TriesOf
  <2> QED BY <2>5, <2>6, <2>7
<1> QED BY <1>7, <1>8, <1>9, <1>10 DEF k, h

LEMMA OwnedSame ==
  ASSUME NEW ns, NEW gs, NEW L, Owned(ns, gs, L), NEW hs, \A g \in Gens : hs[g].use = gs[g].use
  PROVE  Owned(ns, hs, L)
<1>1. \A i, j \in 1..Len(ns) : ns[i].use.gen # Null /\ ns[i].use.gen = ns[j].use.gen => i = j
  BY DEF Owned
<1>2. ASSUME NEW g \in Gens, NEW h \in Gens, NEW d \in Depths, NEW e \in Depths,
             hs[g].use[d].gen # Null, hs[g].use[d].gen = hs[h].use[e].gen
      PROVE  g = h /\ d = e
  BY <1>2 DEF Owned
<1>3. \A i \in 1..Len(ns), h \in Gens, d \in Depths :
        ns[i].use.gen # Null => ns[i].use.gen # hs[h].use[d].gen
  BY DEF Owned
<1>4. \A i \in 1..Len(ns) : ns[i].use.gen # Null => ns[i].use.gen \in L
  BY DEF Owned
<1>5. \A h \in Gens : \A d \in Depths : hs[h].use[d].gen # Null => hs[h].use[d].gen \in L
  BY DEF Owned
<1>6. \A g \in L : \/ \E i \in 1..Len(ns) : ns[i].use.gen = g
                   \/ \E h \in Gens : \E d \in Depths : hs[h].use[d].gen = g
  BY DEF Owned
<1> QED BY <1>1, <1>2, <1>3, <1>4, <1>5, <1>6 DEF Owned

LEMMA LandResume ==
  ASSUME NEW ns, NEW gs, NEW g0, Ready(ns, gs, g0), lost \in [Values -> Nat], pc \in {"run", "exit"},
         ret = "none", tries # <<>>, NEW n \in 1..Len(ns), ns[n].kind = "resume", NEW t, t = Last(tries),
         ns[n].depth < Len(tries), EndOf(ns, tries, n) = Len(tries),
         \A j \in 1..Len(ns) : ns[j].kind = "fn" => j <= t.unwind,
         NEW v \in Values \cup {Null}, NEW cnt \in [Values -> Int], NEW ws, IsFiniteSet(DOMAIN ws),
         Land(v, ns, gs, cnt, ws, t, n)
  PROVE  IInv'
<1> DEFINE A == Astray(ns, gs, n)
           K == LeftBy(ns, gs, n)
           ms == SubSeq(ns, 1, n)
           os == orphans \cup A
           tg == ns[n].gen
           d == t.level
           h == Catches(K[tg], d, v)
           hs == [K EXCEPT ![tg] = h]
           g1 == [hs EXCEPT ![tg].blocks = g0[tg].blocks]
           us == Front(tries)
           b == ns[n].depth
<1>1. /\ Stacks(ns) /\ Frames(gs) /\ Runs(ns, gs)
      /\ Owned(ns, gs, Live(gs, orphans)) /\ orphans \subseteq There(gs)
      /\ Windows(ns, tries, g0) /\ tries \in Seq(TryFrames)
  BY DEF Ready
<1>2. /\ Len(ns) \in Nat /\ n \in Nat /\ n <= Len(ns) /\ n > 0
      /\ \A i \in 1..Len(ns) : ns[i] \in Activations /\ ns[i].kind \in {"fn", "resume"}
      /\ \A i \in 1..Len(ns) : ns[i].kind = "resume" => ns[i].gen \in Gens /\ ns[i].use = NoUse
      /\ ns \in Seq(Activations) /\ DOMAIN ns = 1..Len(ns)
      /\ \A i, j \in 1..Len(ns) :
           ns[i].kind = "resume" /\ ns[j].kind = "resume" /\ ns[i].gen = ns[j].gen => i = j
  <2>1. Len(ns) \in Nat /\ \A i \in 1..Len(ns) : ns[i] \in Activations /\ ns[i].kind \in {"fn", "resume"}
    BY <1>1, StackIs
  <2>2. n \in Nat /\ n <= Len(ns) /\ n > 0
    BY <2>1
  <2>3. ns \in Seq(Activations) /\ Shape(ns)
    BY <1>1 DEF Stacks
  <2>4. /\ \A i \in 1..Len(ns) : ns[i].kind = "resume" => ns[i].gen \in Gens /\ ns[i].use = NoUse
        /\ \A i, j \in 1..Len(ns) :
             ns[i].kind = "resume" /\ ns[j].kind = "resume" /\ ns[i].gen = ns[j].gen => i = j
    BY <2>3 DEF Shape
  <2>5. DOMAIN ns = 1..Len(ns)
    BY <2>3
  <2> QED BY <2>1, <2>2, <2>3, <2>4, <2>5
<1>3. tg \in Gens
  BY <1>2
<1>4. \A i \in 1..n : i \in 1..Len(ns)
  BY <1>2
<1>5. \A i \in 1..Len(ns) : ns[i].kind = "fn" => i < n
  <2>1. \A i \in 1..Len(ns) : n < i /\ ns[i].kind = "fn" => ns[n].kind = "fn"
    BY <1>1 DEF Stacks, Shape
  <2> QED BY <1>2, <2>1
<1>6. Skipped(ns, t) = {} /\ Tracked(ns, t) = {}
  <2>1. \A i \in 1..Len(ns) : ns[i].kind = "fn" => Rank(ns, i) = i
    BY <1>1, RankIs
  <2>2. t.unwind \in Nat
    <3>1. t \in TryFrames
      BY <1>1, FrontSeq
    <3> QED BY <3>1 DEF TryFrames
  <2>3. Skipped(ns, t) = {}
    BY <1>2, <2>1, <2>2 DEF Skipped
  <2> QED BY <2>3 DEF Tracked
<1>7. Cuts(ns, n, n, {})
  <2>1. \A i \in 1..n : ns[i].use.gen # Null => i < n
    BY <1>2, <1>4, <1>5, NoUseType
  <2>2. \A i \in (n + 1)..Len(ns) : ns[i].use.gen = Null
    <3>1. \A i \in (n + 1)..Len(ns) : i \in 1..Len(ns) /\ ~(i < n)
      BY <1>2
    <3> QED BY <1>2, <1>5, <3>1, NoUseType
  <2> QED BY <2>1, <2>2 DEF Cuts
<1> HIDE DEF A, K, ms, os, tg, d, h, hs, g1, us, b
<1>8. /\ Owned(ms, K, Live(K, os) \ {}) /\ os \subseteq There(K)
  BY <1>1, <1>7, KeptOwned DEF A, K, ms, os
<1>9. /\ Frames(K) /\ \A g \in Gens : K[g].stage = "running" <=> \E i \in 1..n : ns[i].kind = "resume" /\ ns[i].gen = g
      /\ \A i \in 1..(n - 1) : ns[i].kind = "resume" => K[ns[i].gen] = gs[ns[i].gen]
  BY <1>1, LeftIs DEF K
<1>10. /\ K[tg].blocks = gs[tg].blocks
       /\ \A e \in Depths : /\ K[tg].use[e].mode = gs[tg].use[e].mode
                            /\ K[tg].use[e].gen = IF gs[tg].use[e].gen \in A THEN Null ELSE gs[tg].use[e].gen
  BY <1>1, <1>3, LeftIs DEF K, A
<1>11. K \in [Gens -> GenFrames] /\ K[tg] \in GenFrames /\ Framed(K[tg])
  BY <1>3, <1>9 DEF Frames
<1>12. K[tg].stage = "running"
  <2>1. n \in 1..n
    BY <1>2
  <2> QED BY <1>3, <1>9, <2>1 DEF tg
<1>13. \A e \in Depths : K[tg].use[e].gen # Null => K[tg].use[e].mode = "for"
  <2>1. n \in n..Len(ns)
    BY <1>2
  <2>2. \A e \in Depths : gs[tg].use[e].gen # Null /\ gs[tg].use[e].mode # "for" => gs[tg].use[e].gen \in A
    BY <1>1, <2>1, AstrayIs DEF A, tg
  <2> QED BY <1>10, <2>2
<1>14. /\ b \in Nat /\ Len(tries) \in Nat /\ b < Len(tries)
       /\ Window(ns[n], tries, b, Len(tries), TriesOf(g0[tg]))
       /\ Unwinding(ns, tries, n, b, Len(tries))
  <2>1. b \in Nat /\ Len(tries) \in Nat /\ b < Len(tries)
    BY <1>1, <1>2, ActivationFields, LenNat DEF b
  <2>2. LevelsOf(ns[n], g0) = TriesOf(g0[tg])
    BY DEF LevelsOf, tg
  <2> QED BY <1>1, <2>1, <2>2 DEF Windows, b
<1>15. /\ us \in Seq(TryFrames) /\ Len(us) = Len(tries) - 1
       /\ \A k \in 1..(Len(tries) - 1) : us[k] = tries[k]
       /\ d \in TriesOf(g0[tg]) /\ \A l \in TriesOf(g0[tg]) : l <= d
       /\ Window(ns[n], us, b, Len(tries) - 1, TriesOf(g0[tg]) \ {d})
  BY <1>1, <1>14, WindowPop DEF us, d
<1>16. /\ d \in Depths /\ d - 1 \in 1..Len(gs[tg].blocks)
       /\ {e \in TriesOf(gs[tg]) : e <= d - 1} = TriesOf(g0[tg]) \ {d}
  <2>1. Fits(ns, gs, g0)
    BY DEF Ready
  <2> QED BY <1>15, <2>1 DEF Fits, tg
<1>17. TriesOf(K[tg]) = TriesOf(gs[tg])
  BY <1>10 DEF TriesOf
<1>18. /\ h \in GenFrames /\ Framed(h) /\ h.stage = "running" /\ h.use = K[tg].use /\ h.blocks # <<>>
       /\ TriesOf(h) = TriesOf(g0[tg]) \ {d}
  <2>1. h = Catches(K[tg], d, v)
    BY DEF h
  <2>2. d - 1 \in 1..Len(K[tg].blocks) /\ d \in Depths
    BY <1>10, <1>16
  <2>4. PICK f : f = K[tg]
    OBVIOUS
  <2>5. f \in GenFrames /\ Framed(f) /\ f.stage = "running" /\ Fors(f)
    BY <1>11, <1>12, <1>13, <2>4 DEF Fors
  <2>6. h = Catches(f, d, v)
    BY <2>1, <2>4
  <2>7. d - 1 \in 1..Len(f.blocks) /\ d \in Depths
    BY <2>2, <2>4
  <2>8. /\ Catches(f, d, v) \in GenFrames /\ Framed(Catches(f, d, v))
        /\ Catches(f, d, v).stage = f.stage /\ Catches(f, d, v).use = f.use
        /\ Catches(f, d, v).blocks # <<>>
        /\ TriesOf(Catches(f, d, v)) = {e \in TriesOf(f) : e <= d - 1}
    BY <2>5, <2>7, Caught
  <2>3. /\ h \in GenFrames /\ Framed(h) /\ h.stage = K[tg].stage /\ h.use = K[tg].use /\ h.blocks # <<>>
        /\ TriesOf(h) = {e \in TriesOf(K[tg]) : e <= d - 1}
    BY <2>4, <2>6, <2>8
  <2> QED BY <1>12, <1>16, <1>17, <2>3
<1>19. /\ hs \in [Gens -> GenFrames] /\ hs[tg] = h /\ \A g \in Gens : g # tg => hs[g] = K[g]
  BY <1>3, <1>11, <1>18 DEF hs
<1>20. Frames(hs)
  BY <1>9, <1>18, <1>19 DEF Frames
<1>21. \A g \in Gens : hs[g].stage = K[g].stage /\ hs[g].use = K[g].use
  BY <1>12, <1>18, <1>19
<1>22. Stacks(ms) /\ Len(ms) = n /\ \A i \in 1..n : ms[i] = ns[i]
  <2>1. Stacks(ms)
    BY <1>1, StacksCut DEF ms
  <2>2. n \in 0..Len(ns)
    BY <1>2
  <2> QED BY <1>2, <2>1, <2>2, CutSeq DEF ms
<1>23. \A i \in 1..(n - 1) : ns[i].kind = "resume" => ns[i].gen \in Gens /\ ns[i].gen # tg
  <2>1. \A i \in 1..(n - 1) : i \in 1..Len(ns) /\ i # n
    BY <1>2
  <2> QED BY <1>2, <2>1 DEF tg
<1>24. Runs(ms, hs)
  <2>2. \A g \in Gens : hs[g].stage = "running" <=> \E i \in 1..n : ns[i].kind = "resume" /\ ns[i].gen = g
    BY <1>9, <1>21
  <2>3. \A i \in 1..(n - 1) : ns[i].kind = "resume" => hs[ns[i].gen] = gs[ns[i].gen]
    BY <1>9, <1>19, <1>23
  <2>1. Remains(ns, gs, hs, n)
    BY <2>2, <2>3 DEF Remains
  <2> QED BY <1>1, <2>1, RunsCut DEF ms
<1>25. Bodied(ms, hs)
  <2> SUFFICES ASSUME NEW i \in 1..n, ns[i].kind = "resume" PROVE hs[ns[i].gen].blocks # <<>>
    BY <1>22 DEF Bodied
  <2>1. CASE i = n
    BY <1>18, <1>19, <2>1 DEF tg
  <2>2. CASE i # n
    <3>1. i \in 1..(n - 1) /\ i \in 1..(Len(ns) - 1)
      BY <1>2, <2>2
    <3>2. gs[ns[i].gen].blocks # <<>>
      BY <3>1 DEF Ready, Fits
    <3> QED BY <1>9, <1>19, <1>23, <3>1, <3>2
  <2> QED BY <2>1, <2>2
<1>26. Owned(ms, hs, Live(hs, os)) /\ os \subseteq There(hs)
  <2>1. Live(hs, os) = Live(K, os) /\ There(hs) = There(K)
    BY <1>21 DEF Live, There
  <2>2. PICK L : L = Live(K, os)
    OBVIOUS
  <2>3. Owned(ms, K, L)
    BY <1>8, <2>2
  <2>4. Owned(ms, hs, L)
    BY <1>21, <2>3, OwnedSame
  <2> QED BY <1>8, <2>1, <2>2, <2>4
<1>27. /\ \A g \in Gens : g # tg => g1[g] = hs[g]
       /\ g1[tg].stage = hs[tg].stage /\ g1[tg].blocks = g0[tg].blocks
  BY <1>3, <1>18, <1>19 DEF g1, GenFrames
<1>28. TriesOf(g1[tg]) = TriesOf(g0[tg])
  BY <1>27 DEF TriesOf
<1>29. \A i \in 1..n : LevelsOf(ns[i], g1) = LevelsOf(ns[i], g0)
  <2> SUFFICES ASSUME NEW i \in 1..n PROVE LevelsOf(ns[i], g1) = LevelsOf(ns[i], g0)
    OBVIOUS
  <2>1. CASE ns[i].kind = "fn"
    BY <2>1 DEF LevelsOf
  <2>2. CASE ns[i].kind = "resume" /\ i = n
    BY <1>28, <2>2 DEF LevelsOf, tg
  <2>3. CASE ns[i].kind = "resume" /\ i # n
    <3>1. i \in 1..(n - 1) /\ i \in 1..(Len(ns) - 1)
      BY <1>2, <2>3
    <3>2. LevelsOf(ns[i], gs) = LevelsOf(ns[i], g0)
      BY <3>1 DEF Ready, Fits
    <3>3. g1[ns[i].gen] = gs[ns[i].gen]
      BY <1>9, <1>19, <1>23, <1>27, <2>3, <3>1
    <3> QED BY <2>3, <3>2, <3>3 DEF LevelsOf
  <2> QED BY <1>2, <1>4, <2>1, <2>2, <2>3
<1>30. Windows(ms, tries, g1)
  <2>1. Windows(SubSeq(ns, 1, n), SubSeq(tries, 1, EndOf(ns, tries, n)), g1)
    BY <1>1, <1>29, WindowsCut
  <2>2. SubSeq(tries, 1, Len(tries)) = tries
    BY <1>1, SubSeqProperties
  <2> QED BY <2>1, <2>2 DEF ms
<1>31. Steady(ms, g1, hs)
  <2>1. \A g \in Gens : hs[g].stage = "running" <=> g1[g].stage = "running"
    BY <1>27
  <2>2. \A i \in 1..(n - 1) : ns[i].kind = "resume" => hs[ns[i].gen] = g1[ns[i].gen]
    BY <1>23, <1>27
  <2>3. \A i \in 1..(n - 1) : ms[i] = ns[i]
    BY <1>2, <1>22
  <2> QED BY <1>22, <2>1, <2>2, <2>3 DEF Steady
<1>32. Window(ms[Len(ms)], us, b, Len(us), LevelsOf(ms[Len(ms)], hs))
  <2>1. ms[Len(ms)] = ns[n]
    BY <1>2, <1>22
  <2>2. LevelsOf(ns[n], hs) = TriesOf(g0[tg]) \ {d}
    BY <1>18, <1>19 DEF LevelsOf, tg
  <2> QED BY <1>15, <2>1, <2>2
<1>33. Unwinding(ms, us, Len(ms), b, Len(us))
  <2>1. Unwinding(ms, tries, n, b, Len(tries))
    <3>1. \A j \in 1..n : j \in 1..Len(ns) /\ ms[j] = ns[j]
      BY <1>4, <1>22
    <3>2. n \in 1..n
      BY <1>2
    <3>3. ms[n] = ns[n]
      BY <3>1, <3>2
    <3> QED BY <1>14, <1>22, <3>1, <3>3 DEF Unwinding
  <2>2. \A k \in (b + 1)..Len(us) : k \in (b + 1)..Len(tries) /\ us[k] = tries[k]
    BY <1>14, <1>15
  <2> QED BY <1>22, <2>1, <2>2 DEF Unwinding
<1>34. Windows(ms, us, hs)
  <2>1. ms[Len(ms)].depth = b /\ b <= Len(us) /\ \A k \in 1..b : us[k] = tries[k]
    <3>1. ms[Len(ms)] = ns[n]
      BY <1>2, <1>22
    <3>2. b <= Len(us)
      BY <1>14, <1>15
    <3>3. \A k \in 1..b : k \in 1..(Len(tries) - 1)
      BY <1>14
    <3> QED BY <1>15, <3>1, <3>2, <3>3 DEF b
  <2>2. Same(ms, ms)
    BY <1>22, SameIs
  <2>3. Stacks(ms) /\ Steady(ms, g1, hs) /\ tries \in Seq(TryFrames) /\ us \in Seq(TryFrames) /\ Windows(ms, tries, g1)
    BY <1>1, <1>15, <1>22, <1>30, <1>31
  <2>4. ms[Len(ms)].depth <= Len(us) /\ \A k \in 1..ms[Len(ms)].depth : us[k] = tries[k]
    BY <2>1
  <2>5. /\ Window(ms[Len(ms)], us, ms[Len(ms)].depth, Len(us), LevelsOf(ms[Len(ms)], hs))
        /\ Unwinding(ms, us, Len(ms), ms[Len(ms)].depth, Len(us))
    BY <1>32, <1>33, <2>1
  <2> QED BY <2>2, <2>3, <2>4, <2>5, WindowsTop
<1>35. /\ native' = ms /\ tries' = us /\ orphans' = os /\ pc' = pc /\ ret' = ret
  <2>1. orphans' = os /\ pc' = pc /\ ret' = ret
    BY LandForgets DEF os, A
  <2>2. ns[n].kind # "fn"
    OBVIOUS
  <2>3. native' = ms /\ tries' = us
    BY <2>2, LandAtResume DEF ms, us
  <2> QED BY <2>1, <2>3
<1>36. gens' = hs
  <2>1. AfterDrop(K, Tracked(ns, t)) = K
    BY <1>6, <1>11, TreeNone
  <2>2. gens' = Entered(AfterDrop(K, Tracked(ns, t)), tg, d, v)
    <3>1. ns[n].kind # "fn"
      OBVIOUS
    <3> QED BY <3>1, LandAtResume DEF K, tg, d
  <2>3. gens' = Entered(K, tg, d, v)
    BY <2>1, <2>2
  <2> QED BY <1>3, <1>11, <2>3, EnteredIs DEF hs, h
<1>37. count' \in [Values -> Int] /\ lost' \in [Values -> Nat]
  BY <1>1, <1>9, LandCounts DEF K
<1>38. Stacks(native') /\ Frames(gens') /\ Runs(native', gens') /\ Bodied(native', gens')
  BY <1>20, <1>22, <1>24, <1>25, <1>35, <1>36
<1>39. Owned(native', gens', Live(gens', orphans')) /\ orphans' \subseteq There(gens')
  BY <1>26, <1>35, <1>36
<1>40. Windows(native', tries', gens') /\ tries' \in Seq(TryFrames)
  BY <1>15, <1>34, <1>35, <1>36
<1>41. pc' \in {"run", "exit"} /\ ret' = "none"
  BY <1>35
<1> QED BY <1>37, <1>38, <1>39, <1>40, <1>41, Whole

\* __ocara_fail finds the native frame of the last try, which is there.
LEMMA FailStep ==
  ASSUME IInv, ret = "none", NEW ns, NEW gs, NEW g0, Ready(ns, gs, g0),
         NEW v \in Values \cup {Null}, NEW cnt \in [Values -> Int], NEW ws, IsFiniteSet(DOMAIN ws),
         Fail(v, ns, gs, cnt, ws)
  PROVE  IInv'
<1> DEFINE t == Last(tries)
           at == {i \in DOMAIN ns : ns[i].id = t.id}
<1>1. lost \in [Values -> Nat] /\ pc \in {"run", "exit"} /\ tries \in Seq(TryFrames)
  BY Parts
<1>2. CASE tries = <<>>
  <2>1. pc' = "exit" /\ UNCHANGED <<native, tries, gens, count, ret, lost, orphans>>
    BY <1>2 DEF Fail
  <2>2. /\ Stacks(native) /\ Frames(gens) /\ Runs(native, gens) /\ Bodied(native, gens)
        /\ Owned(native, gens, Live(gens, orphans)) /\ orphans \subseteq There(gens)
        /\ Windows(native, tries, gens) /\ count \in [Values -> Int]
    BY Parts
  <2>3. /\ Stacks(native') /\ Frames(gens') /\ Runs(native', gens') /\ Bodied(native', gens')
        /\ Owned(native', gens', Live(gens', orphans')) /\ orphans' \subseteq There(gens')
        /\ Windows(native', tries', gens') /\ tries' \in Seq(TryFrames)
    BY <1>1, <2>1, <2>2
  <2>4. count' \in [Values -> Int] /\ lost' \in [Values -> Nat] /\ pc' \in {"run", "exit"} /\ ret' = "none"
    BY <1>1, <2>1, <2>2
  <2> QED BY <2>3, <2>4, Whole
<1>3. CASE tries # <<>>
  <2>1. Stacks(ns) /\ Windows(ns, tries, g0)
    BY DEF Ready
  <2>2. PICK n \in 1..Len(ns) :
          /\ ns[n].depth < Len(tries) /\ EndOf(ns, tries, n) = Len(tries)
          /\ {i \in DOMAIN ns : ns[i].id = Last(tries).id} = {n}
          /\ Last(tries).level \in LevelsOf(ns[n], g0)
          /\ ns[n].kind = "fn" => Last(tries).unwind = n - 1
          /\ ns[n].kind = "resume" => \A j \in 1..Len(ns) : ns[j].kind = "fn" => j <= Last(tries).unwind
    BY <1>1, <1>3, <2>1, LastWindow
  <2>3. at = {n}
    BY <2>2
  <2>4. Land(v, ns, gs, cnt, ws, t, CHOOSE i \in at : TRUE)
    <3>1. at # {}
      BY <2>3
    <3> QED BY <1>3, <3>1 DEF Fail
  <2>5. (CHOOSE i \in at : TRUE) = n
    BY <2>3
  <2>6. Land(v, ns, gs, cnt, ws, t, n)
    BY <2>4, <2>5
  <2> HIDE DEF at
  <2>7. CASE ns[n].kind = "fn"
    <3>1. t.level \in LevelsOf(ns[n], g0) /\ t.unwind = n - 1
      BY <2>2, <2>7
    <3> HIDE DEF t
    <3> QED BY <1>1, <2>6, <2>7, <3>1, LandFunction
  <2>8. CASE ns[n].kind = "resume"
    <3>1. ns[n].depth < Len(tries) /\ EndOf(ns, tries, n) = Len(tries) /\ t = Last(tries)
      BY <2>2
    <3>2. \A j \in 1..Len(ns) : ns[j].kind = "fn" => j <= t.unwind
      BY <2>2, <2>8
    <3> HIDE DEF t
    <3> QED BY <1>1, <1>3, <2>6, <2>8, <3>1, <3>2, LandResume
  <2>9. ns[n].kind \in {"fn", "resume"}
    BY <2>1, StackIs
  <2> QED BY <2>7, <2>8, <2>9
<1> QED BY <1>2, <1>3

\* A try of the running code is inside its body.
LEMMA TryInside ==
  ASSUME NEW f \in GenFrames, Framed(f), f.blocks # <<>>, NEW d \in TriesOf(f)
  PROVE  d \in Depths /\ d - 1 \in 1..Len(f.blocks)
<1>1. f.blocks \in Seq(Blocks) /\ Len(f.blocks) \in Nat /\ Len(f.blocks) <= MaxDepth
  BY FrameFields, LenNat DEF Framed
<1>2. TriesOf(f) \subseteq 1..Len(f.blocks) /\ TriesOf(f) \subseteq Depths
  BY <1>1, TriesAre
<1>3. d # 1
  BY DEF Framed, TriesOf
<1>4. d \in 1..Len(f.blocks)
  BY <1>2
<1>5. d - 1 \in 1..Len(f.blocks)
  BY <1>1, <1>3, <1>4
<1> QED BY <1>2, <1>5

LEMMA FitsAsIs ==
  ASSUME IInv, NEW ns, Stacks(ns), Same(native, ns)
  PROVE  Fits(ns, gens, gens)
<1>1. Stacks(native) /\ Frames(gens) /\ Bodied(native, gens)
  BY Parts
<1>2. Len(ns) = Len(native) /\ Len(ns) \in Nat
  BY <1>1, StackIs DEF Same
<1>3. ASSUME NEW i \in 1..Len(ns), ns[i].kind = "resume"
      PROVE  /\ gens[ns[i].gen] \in GenFrames /\ Framed(gens[ns[i].gen]) /\ gens[ns[i].gen].blocks # <<>>
  <2>1. native[i].kind = "resume" /\ native[i].gen = ns[i].gen
    BY <1>2, <1>3 DEF Same
  <2>2. ns[i].gen \in Gens
    BY <1>3 DEF Stacks, Shape
  <2>3. gens[ns[i].gen].blocks # <<>>
    BY <1>1, <1>2, <2>1 DEF Bodied
  <2> QED BY <1>1, <2>2, <2>3 DEF Frames
<1>4. \A i \in 1..(Len(ns) - 1) : ns[i].kind = "resume" => gens[ns[i].gen].blocks # <<>>
  <2>1. \A i \in 1..(Len(ns) - 1) : i \in 1..Len(ns)
    BY <1>2
  <2> QED BY <1>3, <2>1
<1>5. ASSUME NEW i \in 1..Len(ns), ns[i].kind = "resume", NEW d \in TriesOf(gens[ns[i].gen]),
             \A e \in TriesOf(gens[ns[i].gen]) : e <= d
      PROVE  /\ d \in Depths /\ d - 1 \in 1..Len(gens[ns[i].gen].blocks)
             /\ {e \in TriesOf(gens[ns[i].gen]) : e <= d - 1} = TriesOf(gens[ns[i].gen]) \ {d}
  <2>1. PICK f : f = gens[ns[i].gen]
    OBVIOUS
  <2>2. f \in GenFrames /\ Framed(f) /\ f.blocks # <<>> /\ d \in TriesOf(f)
    BY <1>3, <1>5, <2>1
  <2>3. d \in Depths /\ d - 1 \in 1..Len(f.blocks)
    BY <2>2, TryInside
  <2>4. TriesOf(f) \subseteq Nat
    <3>1. Len(f.blocks) <= MaxDepth
      BY <2>2 DEF Framed
    <3> QED BY <2>2, <3>1, TriesAre
  <2>5. {e \in TriesOf(f) : e <= d - 1} = TriesOf(f) \ {d}
    <3>1. \A e \in TriesOf(f) : e \in Nat /\ e <= d
      BY <1>5, <2>1, <2>4
    <3>2. d \in Nat
      BY <2>2, <2>4
    <3>3. \A e \in TriesOf(f) : e <= d - 1 <=> e # d
      BY <3>1, <3>2
    <3> QED BY <3>3
  <2> QED BY <2>1, <2>3, <2>5
<1> QED BY <1>4, <1>5 DEF Fits

LEMMA ThrowStep == ASSUME IInv, Throw PROVE IInv'
<1>1. PICK v \in Values : Fail(v, native, gens, Taken(count, v), <<>>) /\ ret = "none"
  BY DEF Throw, AtWork, InCode, InFunction
<1>2. /\ Stacks(native) /\ Frames(gens) /\ Runs(native, gens)
      /\ Owned(native, gens, Live(gens, orphans)) /\ orphans \subseteq There(gens)
      /\ Windows(native, tries, gens) /\ tries \in Seq(TryFrames) /\ count \in [Values -> Int]
  BY Parts
<1>3. Fits(native, gens, gens)
  BY <1>2, SameIs, FitsAsIs
<1>4. Ready(native, gens, gens)
  BY <1>2, <1>3 DEF Ready
<1>5. Taken(count, v) \in [Values -> Int] /\ IsFiniteSet(DOMAIN <<>>)
  BY <1>2, TakenType, EmptyFinite
<1> QED BY <1>1, <1>4, <1>5, FailStep

LEMMA RaiseInFunctionStep == ASSUME IInv, RaiseInFunction PROVE IInv'
<1> DEFINE u == native[Here].use
           S == {u.gen} \ {Null}
           ms == [native EXCEPT ![Here].use = NoUse]
           hs == AfterDrop(gens, S)
<1>1. Top.kind = "fn" /\ ret = "none"
  BY DEF RaiseInFunction, InCode, InFunction
<1>2. Use = u /\ u \in Uses /\ gens \in [Gens -> GenFrames] /\ count \in [Values -> Int]
  BY <1>1, FunctionUse
<1>3. PICK v \in Values :
        Fail(v, ms, hs, Released(Taken(count, v), Join(<<u.held, GivenByDrop(gens, S)>>)), LostByDrop(gens, S))
  BY <1>2 DEF RaiseInFunction
<1>4. /\ Stacks(native) /\ Frames(gens) /\ Runs(native, gens) /\ Bodied(native, gens)
      /\ Owned(native, gens, Live(gens, orphans)) /\ orphans \subseteq There(gens)
      /\ Windows(native, tries, gens) /\ tries \in Seq(TryFrames)
  BY Parts
<1>5. Same(native, ms) /\ Stacks(ms) /\ Len(ms) = Here /\ ms[Here].use = NoUse
  BY <1>1, <1>4, NoUseType, PutFunction
<1>6. S \in SUBSET Gens /\ S \subseteq {u.gen}
  BY <1>2, UseFields
<1>7. IsFiniteSet(DOMAIN GivenByDrop(gens, S)) /\ IsFiniteSet(DOMAIN LostByDrop(gens, S))
  BY <1>2, DropFinite
<1>8. Released(Taken(count, v), Join(<<u.held, GivenByDrop(gens, S)>>)) \in [Values -> Int]
  <2>1. IsFiniteSet(DOMAIN u.held)
    BY <1>2, UseFields, SeqFinite
  <2>2. IsFiniteSet(DOMAIN Join(<<u.held, GivenByDrop(gens, S)>>))
    BY <1>7, <2>1, PairFinite
  <2>3. Taken(count, v) \in [Values -> Int]
    BY <1>2, TakenType
  <2> HIDE DEF S, u
  <2> QED BY <2>2, <2>3, Counting
<1> HIDE DEF ms
<1>9. /\ Owned(ms, gens, Live(gens, orphans) \ S) /\ Runs(ms, gens)
      /\ S \cap orphans = {} /\ \A g \in S : gens[g].stage # "running"
      /\ \A i \in 1..Len(ms) : ms[i].kind = "fn"
  <2>1. Same(native, ms) \/ ms = SubSeq(native, 1, Here - 1)
    BY <1>5
  <2>2. Len(ms) = Here => /\ ms[Here].use.gen = native[Here].use.gen => S = {}
                          /\ ms[Here].use.gen # native[Here].use.gen => ms[Here].use.gen = Null
    BY <1>5, NoUseType
  <2>3. ~(Len(ms) = Here /\ ms[Here].use.gen = native[Here].use.gen) => S = {native[Here].use.gen} \ {Null}
    OBVIOUS
  <2>4. S \subseteq {native[Here].use.gen}
    OBVIOUS
  <2> HIDE DEF S
  <2> QED BY <1>1, <1>4, <1>5, <1>6, <2>1, <2>2, <2>3, <2>4, FunctionChange
<1> HIDE DEF S, u
<1>10. Stacks(ms) /\ Frames(gens) /\ Runs(ms, gens) /\ orphans \subseteq There(gens)
  BY <1>4, <1>5, <1>9
<1>11. S \cap orphans = {} /\ Owned(ms, gens, Live(gens, orphans) \ S)
  BY <1>9
<1>12. \A g \in S : gens[g].stage # "running"
  BY <1>9
<1>13. Frames(hs) /\ Runs(ms, hs)
  BY <1>6, <1>10, <1>11, <1>12, Release
<1>14. Owned(ms, hs, Live(hs, orphans)) /\ orphans \subseteq There(hs)
  BY <1>6, <1>10, <1>11, <1>12, Release
<1> HIDE DEF hs
<1>15. Windows(ms, tries, gens)
  <2>1. Steady(native, gens, gens)
    BY DEF Steady
  <2> QED BY <1>4, <1>5, <2>1, WindowsSame
<1>16. Fits(ms, hs, gens)
  <2>1. Len(ms) \in Nat
    BY <1>5, StackIs
  <2>2. \A i \in 1..(Len(ms) - 1) : i \in 1..Len(ms)
    BY <2>1
  <2> QED BY <1>9, <2>2 DEF Fits, LevelsOf
<1>17. Ready(ms, hs, gens)
  BY <1>4, <1>5, <1>13, <1>14, <1>15, <1>16 DEF Ready
<1> QED BY <1>1, <1>3, <1>7, <1>8, <1>17, FailStep

LEMMA FitsTop ==
  ASSUME IInv, Top.kind = "resume", NEW hs, Steady(native, gens, hs),
         \A d \in TriesOf(gens[G]) : (\A e \in TriesOf(gens[G]) : e <= d) =>
           /\ d - 1 \in 1..Len(hs[G].blocks)
           /\ {e \in TriesOf(hs[G]) : e <= d - 1} = TriesOf(gens[G]) \ {d}
  PROVE  Fits(native, hs, gens)
<1>1. Stacks(native) /\ Here = Len(native) /\ Here \in Nat /\ G = native[Here].gen
  BY Parts, TopIs
<1>2. Fits(native, gens, gens)
  BY <1>1, SameIs, FitsAsIs
<1>3. \A i \in 1..(Len(native) - 1) : i \in 1..Len(native) /\ native[i].kind \in {"fn", "resume"}
  BY <1>1, StackIs
<1>4. \A i \in 1..(Len(native) - 1) : native[i].kind = "resume" => hs[native[i].gen] = gens[native[i].gen]
  BY DEF Steady
<1>5. \A i \in 1..(Len(native) - 1) : LevelsOf(native[i], hs) = LevelsOf(native[i], gens)
  BY <1>3, <1>4 DEF LevelsOf
<1>6. \A i \in 1..(Len(native) - 1) : native[i].kind = "resume" => hs[native[i].gen].blocks # <<>>
  BY <1>2, <1>4 DEF Fits
<1>7. ASSUME NEW i \in 1..Len(native), native[i].kind = "resume", NEW d \in TriesOf(gens[native[i].gen]),
             \A e \in TriesOf(gens[native[i].gen]) : e <= d
      PROVE  /\ d \in Depths /\ d - 1 \in 1..Len(hs[native[i].gen].blocks)
             /\ {e \in TriesOf(hs[native[i].gen]) : e <= d - 1} = TriesOf(gens[native[i].gen]) \ {d}
  <2>1. /\ d \in Depths /\ d - 1 \in 1..Len(gens[native[i].gen].blocks)
        /\ {e \in TriesOf(gens[native[i].gen]) : e <= d - 1} = TriesOf(gens[native[i].gen]) \ {d}
    BY <1>2, <1>7 DEF Fits
  <2>2. CASE i = Here
    BY <1>1, <1>7, <2>1, <2>2
  <2>3. CASE i # Here
    <3>1. i \in 1..(Len(native) - 1)
      BY <1>1, <2>3
    <3>2. hs[native[i].gen] = gens[native[i].gen]
      BY <1>4, <1>7, <3>1
    <3> QED BY <2>1, <3>2
  <2> QED BY <2>2, <2>3
<1> QED BY <1>5, <1>6, <1>7 DEF Fits

\* The raise of a generator: the frames of the try that is left stay below.
LEMMA ReadyTop ==
  ASSUME IInv, Top.kind = "resume", ret = "none",
         NEW h \in GenFrames, Framed(h), h.stage = "running", NEW S \in SUBSET Gens, Passes(gens[G], h, S),
         \A d \in TriesOf(gens[G]) : (\A e \in TriesOf(gens[G]) : e <= d) =>
           /\ d - 1 \in 1..Len(h.blocks)
           /\ {e \in TriesOf(h) : e <= d - 1} = TriesOf(gens[G]) \ {d}
  PROVE  Ready(native, AfterDrop([gens EXCEPT ![G] = h], S), gens)
<1>1. /\ Stacks(native) /\ Frames(gens) /\ Runs(native, gens) /\ Bodied(native, gens)
      /\ Owned(native, gens, Live(gens, orphans)) /\ orphans \subseteq There(gens)
      /\ Windows(native, tries, gens) /\ tries \in Seq(TryFrames)
  BY Parts
<1>2. PICK hs : hs = AfterDrop([gens EXCEPT ![G] = h], S)
  OBVIOUS
<1>3. /\ Frames(hs) /\ Runs(native, hs)
      /\ Owned(native, hs, Live(hs, orphans)) /\ orphans \subseteq There(hs)
      /\ Steady(native, gens, hs) /\ hs[G] = h
  BY <1>1, <1>2, TopChange
<1>4. Fits(native, hs, gens)
  BY <1>3, FitsTop
<1>5. Ready(native, hs, gens)
  BY <1>1, <1>3, <1>4 DEF Ready
<1> QED BY <1>2, <1>5

LEMMA RaiseInsideStep == ASSUME IInv, RaiseInside PROVE IInv'
<1>1. PICK f : f = gens[G]
  OBVIOUS
<1>2. PICK k : k = RaiseFrom(f)
  OBVIOUS
<1>3. PICK S : S = FramesOfBlocks(f, k)
  OBVIOUS
<1>4. PICK h : h = LeaveBlocks(f, k)
  OBVIOUS
<1>5. PICK gs : gs = [gens EXCEPT ![G] = h]
  OBVIOUS
<1>6. Top.kind = "resume" /\ ret = "none"
  BY DEF RaiseInside, AtWork
<1>7. PICK v \in Values :
        Fail(v, native, AfterDrop(gs, S),
             Released(Taken(count, v), Join(<<GivenByBlocks(f, k), GivenByDrop(gs, S)>>)), LostByDrop(gs, S))
  BY <1>1, <1>2, <1>3, <1>4, <1>5 DEF RaiseInside
<1>8. /\ gens \in [Gens -> GenFrames] /\ G \in Gens /\ f \in GenFrames /\ Framed(f) /\ f.stage = "running"
      /\ Depth = Len(f.blocks) /\ Depth \in Nat /\ Depth > 0 /\ f.blocks # <<>> /\ Len(f.blocks) <= MaxDepth
      /\ count \in [Values -> Int]
  BY <1>1, <1>6, Working, Parts DEF Framed
<1>9. TriesOf(f) \subseteq 1..Depth /\ TriesOf(f) \subseteq Nat
  BY <1>8, TriesAre
<1>10. /\ TriesOf(f) # {} => Deepest(TriesOf(f)) \in TriesOf(f) /\ \A e \in TriesOf(f) : e <= Deepest(TriesOf(f))
  BY <1>8, <1>9, DeepestIs
<1>11. ASSUME NEW d \in TriesOf(f), \A e \in TriesOf(f) : e <= d
       PROVE  d - 1 = k /\ k \in 1..Depth
  <2>1. d \in Nat /\ Deepest(TriesOf(f)) \in Nat /\ d <= Deepest(TriesOf(f)) /\ Deepest(TriesOf(f)) <= d
    BY <1>9, <1>10, <1>11
  <2>2. d = Deepest(TriesOf(f))
    BY <2>1
  <2>3. k = d - 1
    BY <1>2, <2>2 DEF RaiseFrom
  <2> QED BY <1>8, <2>3, TryInside
<1>12. k \in 0..Depth /\ k \in Nat
  <2>1. CASE TriesOf(f) = {}
    BY <1>2, <1>8, <2>1 DEF RaiseFrom
  <2>2. CASE TriesOf(f) # {}
    BY <1>8, <1>10, <1>11, <2>2
  <2> QED BY <2>1, <2>2
<1>13. h \in GenFrames /\ h.stage = "running" /\ Len(h.blocks) = k /\ TriesOf(h) = {d \in TriesOf(f) : d <= k}
  BY <1>4, <1>8, <1>12, LeaveIs
<1>14. Framed(h)
  <2>1. Framed([LeaveBlocks(f, k) EXCEPT !.stage = "running"])
    BY <1>8, <1>12, LeaveFramed
  <2>2. [h EXCEPT !.stage = "running"] = h
    BY <1>13 DEF GenFrames
  <2> QED BY <1>4, <2>1, <2>2
<1>15. S \in SUBSET Gens /\ Passes(gens[G], h, S)
  <2>1. k \in 0..Depth
    BY <1>12
  <2>2. \A d \in Depths : h.use[d].gen = LeaveBlocks(gens[G], k).use[d].gen
    BY <1>1, <1>4
  <2>3. /\ FramesOfBlocks(gens[G], k) \in SUBSET Gens
        /\ Passes(gens[G], h, FramesOfBlocks(gens[G], k))
    BY <1>6, <2>1, <2>2, LeavePasses
  <2> QED BY <1>1, <1>3, <2>3
<1>16. Ready(native, AfterDrop(gs, S), gens)
  <2>1. ASSUME NEW d \in TriesOf(gens[G]), \A e \in TriesOf(gens[G]) : e <= d
        PROVE  /\ d - 1 \in 1..Len(h.blocks)
               /\ {e \in TriesOf(h) : e <= d - 1} = TriesOf(gens[G]) \ {d}
    <3>1. d - 1 = k /\ k \in 1..Depth /\ d \in Nat
      BY <1>1, <1>9, <1>11, <2>1
    <3>2. d - 1 \in 1..Len(h.blocks)
      BY <1>12, <1>13, <3>1
    <3>3. \A e \in TriesOf(f) : e <= k <=> e # d
      <4> SUFFICES ASSUME NEW e \in TriesOf(f) PROVE e <= k <=> e # d
        OBVIOUS
      <4>1. e \in Nat /\ e <= d
        BY <1>1, <1>9, <2>1
      <4> QED BY <1>12, <3>1, <4>1
    <3>4. TriesOf(h) = TriesOf(f) \ {d}
      BY <1>13, <3>3
    <3>5. {e \in TriesOf(h) : e <= k} = TriesOf(h)
      BY <1>13
    <3> QED BY <1>1, <3>1, <3>2, <3>4, <3>5
  <2> QED BY <1>5, <1>6, <1>13, <1>14, <1>15, <2>1, ReadyTop
<1>17. gs \in [Gens -> GenFrames]
  BY <1>5, <1>8, <1>13
<1>18. IsFiniteSet(DOMAIN GivenByDrop(gs, S)) /\ IsFiniteSet(DOMAIN LostByDrop(gs, S))
  BY <1>17, DropFinite
<1>19. Released(Taken(count, v), Join(<<GivenByBlocks(f, k), GivenByDrop(gs, S)>>)) \in [Values -> Int]
  <2>1. IsFiniteSet(DOMAIN GivenByBlocks(f, k))
    BY <1>8, <1>12, BlocksFinite
  <2>2. IsFiniteSet(DOMAIN Join(<<GivenByBlocks(f, k), GivenByDrop(gs, S)>>))
    BY <1>18, <2>1, PairFinite
  <2>3. Taken(count, v) \in [Values -> Int]
    BY <1>8, TakenType
  <2> QED BY <2>2, <2>3, Counting
<1>20. v \in Values \cup {Null}
  OBVIOUS
<1> QED BY <1>6, <1>7, <1>16, <1>18, <1>19, <1>20, FailStep

LEMMA PropagateStep == ASSUME IInv, Propagate PROVE IInv'
<1>1. PICK f : f = gens[G]
  OBVIOUS
<1>2. PICK v : v = Innermost.raised
  OBVIOUS
<1>3. PICK h : h = [f EXCEPT !.blocks = Front(@)]
  OBVIOUS
<1>4. /\ Top.kind = "resume" /\ Innermost.kind = "caught"
      /\ Fail(Innermost.raised, native, [gens EXCEPT ![G].blocks = Front(@)], count, <<>>)
  BY DEF Propagate
<1>5. ret = "none"
  BY <1>4, Idle DEF Consumes
<1>6. /\ gens \in [Gens -> GenFrames] /\ G \in Gens /\ f \in GenFrames /\ Framed(f) /\ f.stage = "running"
      /\ Depth = Len(f.blocks) /\ Depth \in Nat /\ Depth > 0 /\ f.blocks # <<>> /\ Len(f.blocks) <= MaxDepth
      /\ f.blocks \in Seq(Blocks) /\ f.blocks[Depth].kind = "caught" /\ DOMAIN f.blocks = 1..Depth
      /\ count \in [Values -> Int] /\ Frames(gens)
  BY <1>1, <1>4, Working, Parts DEF Framed
<1>7. v \in Values \cup {Null}
  <2>1. Innermost \in Blocks
    BY <1>4, Working
  <2> QED BY <1>2, <2>1 DEF Blocks
<1> DEFINE k == Depth - 1
           s == SubSeq(f.blocks, 1, k)
<1>8. k \in 0..Len(f.blocks) /\ Front(f.blocks) = s
  BY <1>6, FrontSeq
<1>9. s \in Seq(Blocks) /\ Len(s) = k /\ \A i \in 1..k : s[i] = f.blocks[i]
  BY <1>6, <1>8, CutSeq
<1> HIDE DEF s
<1>10. h \in GenFrames /\ h.stage = "running" /\ h.blocks = s /\ h.use = f.use
  <2>1. h = [f EXCEPT !.blocks = s]
    BY <1>3, <1>8
  <2> QED BY <1>6, <1>9, <2>1 DEF GenFrames
<1>11. Fors(f)
  BY <1>6 DEF Framed, Fors
<1>12. Framed(h)
  <2>1. s # <<>> => s[1].kind = "body"
    <3> SUFFICES ASSUME s # <<>> PROVE s[1].kind = "body"
      OBVIOUS
    <3>1. k # 0
      BY <1>9, EmptySeq
    <3>3. Depth \in Nat /\ Depth > 0
      BY <1>6
    <3>2. 1 \in 1..k
      BY <3>1, <3>3
    <3> QED BY <1>6, <1>9, <3>2 DEF Framed
  <2>2. k <= MaxDepth
    BY <1>6, DepthsFinite
  <2> QED BY <1>9, <1>10, <1>11, <2>1, <2>2 DEF Framed, Fors
<1>13. TriesOf(f) \subseteq 1..Depth /\ TriesOf(f) \subseteq Nat /\ Depth \notin TriesOf(f)
  BY <1>6, TriesAre DEF TriesOf
<1>14. \A e \in TriesOf(f) : e \in 1..k
  BY <1>6, <1>13
<1>15. TriesOf(h) = TriesOf(f)
  <2>1. DOMAIN s = 1..k
    BY <1>9
  <2>2. \A e \in 1..k : e \in 1..Depth
    BY <1>6
  <2>3. TriesOf(h) = {e \in 1..k : f.blocks[e].kind = "try"}
    BY <1>9, <1>10, <2>1 DEF TriesOf
  <2>4. TriesOf(f) = {e \in 1..Depth : f.blocks[e].kind = "try"}
    BY <1>6 DEF TriesOf
  <2> QED BY <1>14, <2>2, <2>3, <2>4
<1>16. Passes(gens[G], h, {}) /\ {} \in SUBSET Gens
  BY <1>1, <1>10 DEF Passes
<1>17. Ready(native, AfterDrop([gens EXCEPT ![G] = h], {}), gens)
  <2>1. ASSUME NEW d \in TriesOf(gens[G]), \A e \in TriesOf(gens[G]) : e <= d
        PROVE  /\ d - 1 \in 1..Len(h.blocks)
               /\ {e \in TriesOf(h) : e <= d - 1} = TriesOf(gens[G]) \ {d}
    <3>1. d \in 1..k /\ d - 1 \in 1..Len(f.blocks) /\ d \in Nat /\ k \in Nat
      BY <1>1, <1>6, <1>8, <1>13, <1>14, TryInside
    <3>2. d - 1 \in 1..Len(h.blocks)
      BY <1>6, <1>9, <1>10, <3>1
    <3>3. \A e \in TriesOf(f) : e <= d - 1 <=> e # d
      <4> SUFFICES ASSUME NEW e \in TriesOf(f) PROVE e <= d - 1 <=> e # d
        OBVIOUS
      <4>1. e \in Nat /\ e <= d
        BY <1>1, <1>13, <2>1
      <4> QED BY <3>1, <4>1
    <3> QED BY <1>1, <1>15, <3>2, <3>3
  <2> QED BY <1>4, <1>5, <1>10, <1>12, <1>16, <2>1, ReadyTop
<1>18. AfterDrop([gens EXCEPT ![G] = h], {}) = [gens EXCEPT ![G].blocks = Front(@)]
  <2>1. AfterDrop([gens EXCEPT ![G] = h], {}) = [gens EXCEPT ![G] = h]
    BY <1>6, <1>10, NoDrop
  <2> QED BY <1>1, <1>3, <2>1
<1>19. IsFiniteSet(DOMAIN <<>>)
  BY EmptyFinite
<1>20. Fail(v, native, AfterDrop([gens EXCEPT ![G] = h], {}), count, <<>>)
  BY <1>2, <1>4, <1>18
<1> QED BY <1>5, <1>6, <1>7, <1>17, <1>19, <1>20, FailStep
-----------------------------------------------------------------------------
(* The theorems                                                            *)

LEMMA InitHolds == ASSUME Init PROVE IInv
<1> DEFINE a == [kind |-> "fn", id |-> 1, tried |-> FALSE, depth |-> 0, gen |-> Null, use |-> NoUse]
<1>1. a \in Activations /\ a.kind = "fn" /\ ~a.tried /\ a.depth = 0 /\ a.gen = Null /\ a.use = NoUse
  BY NoUseType DEF Activations
<1>2. native = <<a>>
  BY DEF Init
<1> HIDE DEF a
<1>3. native \in Seq(Activations) /\ Len(native) = 1 /\ native[1] = a
  BY <1>1, <1>2, SingleSeq
<1>4. 1 \in 1..MaxCalls
  BY BoundsAssumption
<1>5. Shape(native)
  BY <1>1, <1>3 DEF Shape
<1>6. Stacks(native)
  BY <1>3, <1>4, <1>5 DEF Stacks
<1>7. gens = [g \in Gens |-> NoFrame] /\ orphans = {} /\ tries = <<>> /\ pc = "run" /\ ret = "none"
      /\ count = [v \in Values |-> 0] /\ lost = [v \in Values |-> 0]
  BY DEF Init
<1>8. Frames(gens)
  BY <1>7, NoFrameType, NoFramed DEF Frames
<1>9. Runs(native, gens)
  BY <1>1, <1>3, <1>7, NoFrameType DEF Runs
<1>10. Bodied(native, gens)
  BY <1>1, <1>3 DEF Bodied
<1>11. Live(gens, orphans) = {}
  BY <1>7, NoFrameType DEF Live
<1>12. /\ \A h \in Gens : \A d \in Depths : gens[h].use[d].gen = Null
       /\ \A i \in 1..Len(native) : native[i].use.gen = Null
  BY <1>1, <1>3, <1>7, NoFrameType, NoUseType
<1>13. Owned(native, gens, {})
  BY <1>12 DEF Owned
<1>14. tries \in Seq(TryFrames) /\ Len(tries) = 0
  BY <1>7, EmptySeq
<1>15. Windows(native, tries, gens)
  <2>1. 1..Len(native) = {1}
    BY <1>3
  <2>2. native[1].depth = 0 /\ EndOf(native, tries, 1) = 0 /\ LevelsOf(native[1], gens) = {}
    BY <1>1, <1>3, <1>14 DEF EndOf, LevelsOf
  <2>3. (0 + 1)..0 = {}
    OBVIOUS
  <2>4. Window(native[1], tries, 0, 0, {}) /\ Unwinding(native, tries, 1, 0, 0)
    BY <2>3 DEF Window, Unwinding
  <2>5. \A i \in 1..Len(native) : i = 1
    BY <2>1
  <2>6. \A i, j \in 1..Len(native) : i <= j => native[i].depth <= native[j].depth
    BY <2>2, <2>5
  <2>7. \A i \in 1..Len(native) : native[i].depth <= Len(tries)
    BY <1>14, <2>2, <2>5
  <2>8. \A i \in 1..Len(native) :
          /\ Window(native[i], tries, native[i].depth, EndOf(native, tries, i), LevelsOf(native[i], gens))
          /\ Unwinding(native, tries, i, native[i].depth, EndOf(native, tries, i))
    BY <2>2, <2>4, <2>5
  <2> QED BY <2>2, <2>6, <2>7, <2>8 DEF Windows
<1>16. Counters
  BY <1>7 DEF Counters
<1>17. Returned
  BY <1>7 DEF Returned
<1>18. orphans \subseteq {g \in Gens : gens[g].stage # "none"}
  BY <1>7
<1>19. pc \in {"run", "exit"} /\ ret \in {"none", "value", "end"}
  BY <1>7
<1>20. Owned(native, gens, Live(gens, orphans))
  BY <1>11, <1>13
<1> QED BY <1>6, <1>8, <1>9, <1>10, <1>14, <1>15, <1>16, <1>17, <1>18, <1>19, <1>20 DEF IInv

LEMMA ConsumeStep == ASSUME IInv, Consume PROVE IInv'
<1>1. Top.kind \in {"fn", "resume"}
  BY Parts, TopIs
<1>2. CASE Start
  BY <1>2, StartStep
<1>3. CASE StartInside
  BY <1>3, StartInsideStep
<1>4. CASE Resume
  BY <1>4, ResumeStep
<1>5. CASE TakeValue
  BY <1>1, <1>5, TakeValueInside, TakeValueOutside
<1>6. CASE TakeOnce
  BY <1>1, <1>6, TakeOnceInside, TakeOnceOutside
<1>7. CASE Drained
  BY <1>1, <1>7, DrainedInside, DrainedOutside
<1>8. CASE EndStatement
  BY <1>1, <1>8, EndStatementInside, EndStatementOutside
<1>9. CASE NextInFunction
  BY <1>9, NextStep
<1>10. CASE Call
  BY <1>10, CallStep
<1>11. CASE Return
  BY <1>11, ReturnStep
<1> QED BY <1>2, <1>3, <1>4, <1>5, <1>6, <1>7, <1>8, <1>9, <1>10, <1>11 DEF Consume

LEMMA ExceptStep == ASSUME IInv, Except PROVE IInv'
BY ThrowStep, RaiseInFunctionStep, RaiseInsideStep, MatchStep, PropagateStep DEF Except

LEMMA RunStep == ASSUME IInv, JumpsOutOfTry = FALSE, Run PROVE IInv'
BY DeclareStep, OpenStep, CloseStep, CloseHandlerStep, IterateStep, BreakStep, FinishStep, EmitStep DEF Run

LEMMA StutterStep == ASSUME IInv, UNCHANGED vars PROVE IInv'
<1>1. /\ pc' = pc /\ native' = native /\ tries' = tries /\ gens' = gens
      /\ count' = count /\ ret' = ret /\ lost' = lost /\ orphans' = orphans
  BY DEF vars
<1>2. /\ Stacks(native) /\ Frames(gens) /\ Runs(native, gens) /\ Bodied(native, gens)
      /\ Owned(native, gens, Live(gens, orphans)) /\ orphans \subseteq There(gens)
      /\ Windows(native, tries, gens) /\ tries \in Seq(TryFrames)
  BY Parts
<1>3. /\ count \in [Values -> Int] /\ lost \in [Values -> Nat]
      /\ pc \in {"run", "exit"} /\ ret \in {"none", "value", "end"}
  BY Parts
<1>4. ret # "none" => /\ pc = "run" /\ UseOf(native, gens, Len(native)).gen # Null
                      /\ ret = "value" => gens[UseOf(native, gens, Len(native)).gen].value \in Values
  BY Parts, TopIs DEF Returned
<1>5. /\ Stacks(native') /\ Frames(gens') /\ Runs(native', gens') /\ Bodied(native', gens')
      /\ Owned(native', gens', Live(gens', orphans')) /\ orphans' \subseteq There(gens')
      /\ Windows(native', tries', gens') /\ tries' \in Seq(TryFrames)
  BY <1>1, <1>2
<1>6. ret' # "none" => /\ pc' = "run" /\ UseOf(native', gens', Len(native')).gen # Null
                       /\ ret' = "value" =>
                            gens'[UseOf(native', gens', Len(native')).gen].value \in Values
  BY <1>1, <1>4
<1> QED BY <1>1, <1>3, <1>5, <1>6, Whole

\* Of a program that leaves no try of a generator by return, break or continue
\* (lower/stmt.d/statements.d/control_flow.rs takes none off TRY_STACK there),
\* every reachable state satisfies the invariant.
THEOREM Invariant == ASSUME JumpsOutOfTry = FALSE PROVE Spec => []IInv
<1>1. Init => IInv
  BY InitHolds
<1>2. IInv /\ [Next]_vars => IInv'
  BY ConsumeStep, ExceptStep, RunStep, StutterStep DEF Next
<1> QED BY <1>1, <1>2, PTL DEF Spec

LEMMA TypesHold == ASSUME IInv PROVE TypeOK
<1>1. /\ Stacks(native) /\ Frames(gens) /\ orphans \subseteq There(gens) /\ tries \in Seq(TryFrames)
      /\ count \in [Values -> Int] /\ lost \in [Values -> Nat]
      /\ pc \in {"run", "exit"} /\ ret \in {"none", "value", "end"}
  BY Parts
<1>2. native \in Seq(Activations) /\ Len(native) \in 1..MaxCalls
  BY <1>1 DEF Stacks
<1>3. gens \in [Gens -> GenFrames] /\ orphans \subseteq Gens
  BY <1>1 DEF Frames, There
<1> QED BY <1>1, <1>2, <1>3 DEF TypeOK

LEMMA TriesHold == ASSUME IInv PROVE TriesExact
<1>1. Stacks(native) /\ Windows(native, tries, gens) /\ tries \in Seq(TryFrames)
  BY Parts
<1>2. /\ Here = Len(native) /\ Len(native) \in Nat /\ Len(tries) \in Nat
      /\ \A i \in 1..Here : native[i].kind \in {"fn", "resume"}
  BY <1>1, StackIs, LenNat DEF Here
<1>3. ASSUME NEW i \in 1..Here
      PROVE  /\ Begin(i) <= End(i)
             /\ {tries[k].level : k \in (Begin(i) + 1)..End(i)} = Levels(i)
             /\ \A k \in (Begin(i) + 1)..End(i) :
                  /\ tries[k].id = native[i].id
                  /\ \A l \in (Begin(i) + 1)..End(i) : k < l => tries[k].level < tries[l].level
  <2>1. Begin(i) = native[i].depth /\ End(i) = EndOf(native, tries, i) /\ Levels(i) = LevelsOf(native[i], gens)
    BY <1>2 DEF Begin, End, EndOf, Levels, LevelsOf
  <2>2. Window(native[i], tries, native[i].depth, EndOf(native, tries, i), LevelsOf(native[i], gens))
    BY <1>1, <1>2 DEF Windows
  <2>3. native[i].depth <= EndOf(native, tries, i)
    <3>1. CASE i = Len(native)
      BY <1>1, <1>2, <3>1 DEF Windows, EndOf
    <3>2. CASE i # Len(native)
      <4>1. i + 1 \in 1..Len(native) /\ i \in 1..Len(native) /\ i <= i + 1
        BY <1>2, <3>2
      <4> QED BY <1>1, <3>2, <4>1 DEF Windows, EndOf
    <3> QED BY <3>1, <3>2
  <2> QED BY <2>1, <2>2, <2>3 DEF Window
<1>4. native[1].depth = 0
  BY <1>1 DEF Windows
<1> QED BY <1>3, <1>4 DEF TriesExact

\* TRY_STACK holds exactly the tries that the native frames in progress have
\* open, innermost last: __ocara_fail never jumps into a native frame that is
\* gone, nor to another handler than the one that the program names.
THEOREM StacksAreExact == ASSUME JumpsOutOfTry = FALSE PROVE Spec => []StacksExact
<1>1. IInv => StacksExact
  BY TypesHold, TriesHold DEF StacksExact
<1> QED BY <1>1, Invariant, PTL

LEMMA OwnedOnce == ASSUME IInv PROVE FrameOwned
<1>1. /\ Stacks(native) /\ Frames(gens) /\ Runs(native, gens)
      /\ Owned(native, gens, Live(gens, orphans))
  BY Parts
<1>2. Here = Len(native) /\ Len(native) \in Nat
  BY <1>1, TopIs, StackIs
<1> DEFINE L == Allocated \ orphans
<1>3. L = Live(gens, orphans) /\ Null \notin Gens /\ L \subseteq Gens
  BY NullAssumption DEF Live, Allocated
<1>4. ASSUME NEW h \in Gens, NEW d \in Depths, gens[h].use[d].gen # Null
      PROVE  h \in Allocated
  <2>1. gens[h] # NoFrame
    BY <1>4, NoFrameType, NoUseType
  <2> QED BY <1>1, <2>1 DEF Frames, Framed, Allocated
<1> HIDE DEF L
<1>5. Owned(native, gens, L)
  BY <1>1, <1>3
<1>6. ASSUME NEW g \in Gens, g \notin L PROVE Owners(g) = {}
  <2>1. g # Null
    BY <1>3
  <2>2. \A j \in 1..Here : native[j].use.gen # g
    BY <1>2, <1>5, <1>6, <2>1 DEF Owned
  <2>3. \A h \in Gens : \A d \in Depths : gens[h].use[d].gen # g
    BY <1>5, <1>6, <2>1 DEF Owned
  <2>4. Allocated \subseteq Gens
    BY DEF Allocated
  <2>5. {<<i, 0>> : i \in {j \in 1..Here : native[j].use.gen = g}} = {}
    BY <2>2
  <2>6. {p \in Allocated \X Depths : gens[p[1]].use[p[2]].gen = g} = {}
    <3> SUFFICES ASSUME NEW p \in Allocated \X Depths PROVE gens[p[1]].use[p[2]].gen # g
      OBVIOUS
    <3>1. p[1] \in Gens /\ p[2] \in Depths
      BY <2>4
    <3> QED BY <2>3, <3>1
  <2> QED BY <2>5, <2>6 DEF Owners
<1>7. ASSUME NEW g \in L PROVE \E p : Owners(g) = {p}
  <2>1. g # Null /\ g \in Gens
    BY <1>3
  <2>2. \/ \E i \in 1..Here : native[i].use.gen = g
        \/ \E h \in Gens : \E d \in Depths : gens[h].use[d].gen = g
    BY <1>2, <1>5 DEF Owned
  <2>3. ASSUME NEW i \in 1..Here, native[i].use.gen = g PROVE Owners(g) = {<<i, 0>>}
    <3>1. \A j \in 1..Here : native[j].use.gen = g => j = i
      BY <1>2, <1>5, <2>1, <2>3 DEF Owned
    <3>2. \A h \in Gens : \A d \in Depths : gens[h].use[d].gen # g
      BY <1>2, <1>5, <2>1, <2>3 DEF Owned
    <3>3. {j \in 1..Here : native[j].use.gen = g} = {i}
      BY <2>3, <3>1
    <3>4. {p \in Allocated \X Depths : gens[p[1]].use[p[2]].gen = g} = {}
      <4> SUFFICES ASSUME NEW p \in Allocated \X Depths PROVE gens[p[1]].use[p[2]].gen # g
        OBVIOUS
      <4>1. p[1] \in Gens /\ p[2] \in Depths
        BY DEF Allocated
      <4> QED BY <3>2, <4>1
    <3> QED BY <3>3, <3>4 DEF Owners
  <2>4. ASSUME NEW h \in Gens, NEW d \in Depths, gens[h].use[d].gen = g PROVE Owners(g) = {<<h, d>>}
    <3>1. \A j \in 1..Here : native[j].use.gen # g
      BY <1>2, <1>5, <2>1, <2>4 DEF Owned
    <3>2. \A k \in Gens : \A e \in Depths : gens[k].use[e].gen = g => k = h /\ e = d
      BY <1>5, <2>1, <2>4 DEF Owned
    <3>3. h \in Allocated
      BY <1>4, <2>1, <2>4
    <3>4. {<<i, 0>> : i \in {j \in 1..Here : native[j].use.gen = g}} = {}
      BY <3>1
    <3>5. \A p \in Allocated \X Depths : gens[p[1]].use[p[2]].gen = g <=> p = <<h, d>>
      <4> SUFFICES ASSUME NEW k \in Allocated, NEW e \in Depths
                   PROVE  gens[k].use[e].gen = g <=> k = h /\ e = d
        OBVIOUS
      <4>1. k \in Gens
        BY DEF Allocated
      <4> QED BY <2>4, <3>2, <4>1
    <3>6. {p \in Allocated \X Depths : gens[p[1]].use[p[2]].gen = g} = {<<h, d>>}
      BY <3>3, <3>5
    <3> QED BY <3>4, <3>6 DEF Owners
  <2> QED BY <2>2, <2>3, <2>4
<1>8. ASSUME NEW g \in Gens
      PROVE  Cardinality(Owners(g)) = IF g \in L THEN 1 ELSE 0
  <2>1. CASE g \in L
    <3>1. PICK p : Owners(g) = {p}
      BY <1>7, <2>1
    <3> QED BY <2>1, <3>1, FS_Singleton
  <2>2. CASE g \notin L
    BY <1>6, <2>2, FS_EmptySet
  <2> QED BY <2>1, <2>2
<1>9. \A i \in 1..Here : native[i].kind = "resume" => gens[native[i].gen].stage = "running"
  BY <1>1, <1>2 DEF Runs
<1> QED BY <1>8, <1>9 DEF FrameOwned, L

\* A frame is held by exactly one variable or field until it is freed or, on
\* an exception, forgotten for good; none is used after __drop.
THEOREM FramesOwned == ASSUME JumpsOutOfTry = FALSE PROVE Spec => []FrameOwned
<1>1. IInv => FrameOwned
  BY OwnedOnce
<1> QED BY <1>1, Invariant, PTL

LEMMA NothingReturned ==
  ASSUME Next, ret = "none", ret' # "none"
  PROVE  Finish \/ Emit
<1>1. ASSUME Consume PROVE ret' = "none" \/ ret' = ret
  BY <1>1 DEF Consume, Start, StartInside, Resume, TakeValue, TakeOnce, Drained,
              EndStatement, NextInFunction, Call, Return
<1>2. ASSUME NEW v, NEW ns, NEW gs, NEW cnt, NEW ws, Fail(v, ns, gs, cnt, ws) PROVE ret' = ret
  <2>1. CASE UNCHANGED <<native, tries, gens, count, ret, lost, orphans>>
    BY <2>1
  <2>2. CASE \E at : Land(v, ns, gs, cnt, ws, Last(tries), at)
    BY <2>2, LandForgets
  <2> QED BY <1>2, <2>1, <2>2 DEF Fail
<1>3. ASSUME Except PROVE ret' = ret
  BY <1>2, <1>3 DEF Except, Throw, RaiseInFunction, RaiseInside, Match, Propagate
<1>4. ASSUME Declare \/ Open \/ Close \/ CloseHandler \/ Iterate \/ Break PROVE ret' = ret
  BY <1>4 DEF Declare, Open, Close, CloseHandler, Iterate, Break
<1> QED BY <1>1, <1>3, <1>4 DEF Next, Run

\* A resume that returns leaves TRY_STACK as deep as it found it.
THEOREM DepthIsRestored == ASSUME JumpsOutOfTry = FALSE PROVE Spec => DepthRestored
<1>1. IInv /\ [Next]_vars => [ret = "none" /\ ret' # "none" => Len(tries') = Top.depth]_vars
  <2> SUFFICES ASSUME IInv, Next, ret = "none", ret' # "none" PROVE Len(tries') = Top.depth
    OBVIOUS
  <2> QED BY NothingReturned, FinishStep, EmitStep
<1> QED BY <1>1, Invariant, PTL DEF Spec, DepthRestored
=============================================================================
