------------------------- MODULE ExceptionsProofs --------------------------
(* Proofs about Exceptions, for every number of native frames, tries, values, *)
(* resources and mutexes: wherever a jump lands, TRY_STACK, UNWIND and        *)
(* RESOURCES point at native frames that are there, and each reference, each  *)
(* resource and each mutex is given back once.                                *)
(* Every step cuts the native stack at some height and pushes at most one     *)
(* frame on what is left.  The invariant is a relation of the four stacks     *)
(* that such a cut keeps (CutAligned), and such a push (the lemmas after it). *)
(* The counts are the sum over the native frames of what each holds (Tally): a *)
(* step changes the share of the frames on top, a jump that of all it skips.   *)
EXTENDS Exceptions, FiniteSetTheorems, SequenceTheorems, WellFoundedInduction, TLAPS

Frames == [act : Nat, unwind : Nat, resources : Nat]
Slots  == [res : Resources, act : Nat]

\* What holds of a native frame, wherever it is.
Sound(a) ==
  /\ a \in Activations
  /\ a.kind \in {"try", "lock"} => a.words = <<>>
  /\ a.kind = "handler" => Len(a.words) > 0
  /\ a.kind \in {"new", "lock"} => a.code \in {"none", "normal"}
  /\ a.kind = "fn" => a.code # "normal"
  /\ a.mutex # Null <=> a.kind = "lock"
  /\ a.err # Null => a.kind = "lock" /\ a.code = "none"

Idle(a) == a.err = Null /\ a.code = "none"

\* Only the frame on top has something to do; what is not an Ocara function
\* was called by one; no mutex is taken twice.
Nested(cs) ==
  /\ cs \in Seq(Activations)
  /\ \A i \in 1..Len(cs) : Sound(cs[i])
  /\ \A i \in 1..Len(cs) : cs[i].kind # "fn" => i > 1 /\ cs[i - 1].kind = "fn"
  /\ \A i \in 1..(Len(cs) - 1) : Idle(cs[i])
  /\ \A i, j \in 1..Len(cs) : cs[i].mutex = cs[j].mutex /\ cs[i].mutex # Null => i = j

\* TRY_STACK: the native frames that wait for a jump.
FramesAt(cs, fr) ==
  /\ fr \in Seq(Frames)
  /\ \A i, j \in 1..Len(fr) : i < j => fr[i].act < fr[j].act
  /\ \A i \in 1..Len(fr) : fr[i].act \in 1..Len(cs) /\ Catches(cs[fr[i].act])
  /\ \A c \in 1..Len(cs) : Catches(cs[c]) => \E i \in 1..Len(fr) : fr[i].act = c

\* UNWIND: the native frames that registered words.
UnwindAt(cs, un) ==
  /\ un \in Seq(Nat)
  /\ \A i, j \in 1..Len(un) : i < j => un[i] < un[j]
  /\ \A i \in 1..Len(un) : un[i] \in 1..Len(cs) /\ Registers(cs[un[i]])
  /\ \A c \in 1..Len(cs) : Registers(cs[c]) => \E i \in 1..Len(un) : un[i] = c

\* RESOURCES: each of a function that is there, innermost last.
SlotsAt(cs, rs) ==
  /\ rs \in Seq(Slots)
  /\ \A i, j \in 1..Len(rs) : i <= j => rs[i].act <= rs[j].act
  /\ \A i \in 1..Len(rs) : rs[i].act \in 1..Len(cs) /\ cs[rs[i].act].kind = "fn"

\* The depths that a try frame remembers are those below its native frame.
DepthsAt(fr, un, rs) ==
  \A f \in 1..Len(fr) :
    /\ fr[f].unwind <= Len(un) /\ fr[f].resources <= Len(rs)
    /\ \A i \in 1..Len(un) : un[i] < fr[f].act <=> i <= fr[f].unwind
    /\ \A i \in 1..Len(rs) : rs[i].act < fr[f].act <=> i <= fr[f].resources

Aligned(cs, fr, un, rs) ==
  FramesAt(cs, fr) /\ UnwindAt(cs, un) /\ SlotsAt(cs, rs) /\ DepthsAt(fr, un, rs)

\* The resources that are open are those of RESOURCES, each once.
OpenOnce(rs, op) ==
  /\ op = {rs[i].res : i \in 1..Len(rs)}
  /\ \A i, j \in 1..Len(rs) : rs[i].res = rs[j].res => i = j

Mutexed(cs) == {cs[i].mutex : i \in 1..Len(cs)} \ {Null}

\* The four stacks.
Stacks(cs, fr, un, rs) ==
  /\ Nested(cs) /\ Len(cs) \in 1..MaxCalls
  /\ Aligned(cs, fr, un, rs) /\ Len(fr) <= MaxTry

Types ==
  /\ pc \in {"run", "exit"} /\ locked \subseteq Mutexes /\ stray \subseteq Values
  /\ count \in [Values -> Int] /\ returned \in Values \cup {Null}

\* The inductive invariant of the stacks.
IInv ==
  /\ Types
  /\ Stacks(calls, frames, unwind, resources)
  /\ OpenOnce(resources, open)
  /\ pc = "run" => locked = Mutexed(calls)
  /\ returned # Null => Top.code = "return"

-----------------------------------------------------------------------------
(* Pushing a native frame, and cutting the native stack                      *)

LEMMA PushSeq ==
  ASSUME NEW S, NEW s \in Seq(S), NEW x \in S
  PROVE  /\ Append(s, x) \in Seq(S) /\ Len(Append(s, x)) = Len(s) + 1
         /\ \A i \in 1..Len(s) : Append(s, x)[i] = s[i]
         /\ Append(s, x)[Len(s) + 1] = x
BY AppendProperties

LEMMA CutSeq ==
  ASSUME NEW S, NEW s \in Seq(S), NEW k \in 0..Len(s)
  PROVE  /\ SubSeq(s, 1, k) \in Seq(S) /\ Len(SubSeq(s, 1, k)) = k
         /\ \A i \in 1..k : SubSeq(s, 1, k)[i] = s[i]
OBVIOUS

LEMMA LenNat == \A S : \A s \in Seq(S) : Len(s) \in Nat
BY LenProperties

LEMMA CutNested ==
  ASSUME NEW cs, Nested(cs), NEW k \in 0..Len(cs)
  PROVE  Nested(SubSeq(cs, 1, k)) /\ (k > 0 /\ k < Len(cs) => Idle(SubSeq(cs, 1, k)[k]))
<1> DEFINE ds == SubSeq(cs, 1, k)
<1>1. cs \in Seq(Activations) /\ Len(cs) \in Nat
  BY LenNat DEF Nested
<1>2. ds \in Seq(Activations) /\ Len(ds) = k /\ \A i \in 1..k : ds[i] = cs[i]
  BY <1>1, CutSeq
<1> HIDE DEF ds
<1>3. \A i \in 1..k : i \in 1..Len(cs) /\ (i > 1 => i - 1 \in 1..k)
  BY <1>1
<1>4. \A i \in 1..k : i < Len(cs) => Idle(ds[i])
  BY <1>1, <1>2 DEF Nested
<1>5. \A i \in 1..(k - 1) : i \in 1..k /\ i < Len(cs)
  BY <1>1
<1>6. \A i \in 1..k : Sound(ds[i]) /\ (ds[i].kind # "fn" => i > 1 /\ ds[i - 1].kind = "fn")
  BY <1>2, <1>3 DEF Nested
<1>7. \A i, j \in 1..k : ds[i].mutex = ds[j].mutex /\ ds[i].mutex # Null => i = j
  BY <1>2, <1>3 DEF Nested
<1>8. Nested(ds)
  BY <1>2, <1>4, <1>5, <1>6, <1>7 DEF Nested
<1>9. k > 0 => k \in 1..k
  OBVIOUS
<1> QED BY <1>4, <1>8, <1>9 DEF ds

\* A frame on top of frames that are idle.
LEMMA PushNested ==
  ASSUME NEW cs, Nested(cs), Len(cs) > 0 => Idle(cs[Len(cs)]), NEW a, Sound(a),
         a.kind # "fn" => Len(cs) > 0 /\ cs[Len(cs)].kind = "fn",
         a.mutex # Null => a.mutex \notin Mutexed(cs)
  PROVE  Nested(Append(cs, a))
<1> DEFINE ds == Append(cs, a)
<1>1. cs \in Seq(Activations) /\ a \in Activations /\ Len(cs) \in Nat
  BY LenNat DEF Nested, Sound
<1>2. /\ ds \in Seq(Activations) /\ Len(ds) = Len(cs) + 1
      /\ \A i \in 1..Len(cs) : ds[i] = cs[i] /\ ds[Len(cs) + 1] = a
  BY <1>1, PushSeq
<1>3. ds[Len(cs) + 1] = a
  BY <1>1, PushSeq
<1> HIDE DEF ds
<1>4. \A i \in 1..(Len(cs) + 1) : i \in 1..Len(cs) \/ i = Len(cs) + 1
  BY <1>1
<1>5. \A i \in 1..(Len(cs) + 1) : Sound(ds[i])
  BY <1>2, <1>3, <1>4 DEF Nested
<1>6. ASSUME NEW i \in 1..(Len(cs) + 1), ds[i].kind # "fn" PROVE i > 1 /\ ds[i - 1].kind = "fn"
  <2>1. CASE i \in 1..Len(cs)
    <3>1. i > 1 /\ cs[i - 1].kind = "fn"
      BY <1>2, <1>6, <2>1 DEF Nested
    <3>2. i - 1 \in 1..Len(cs)
      BY <1>1, <2>1, <3>1
    <3> QED BY <1>2, <3>1, <3>2
  <2>2. CASE i = Len(cs) + 1
    <3>1. Len(cs) > 0 /\ cs[Len(cs)].kind = "fn" /\ i - 1 = Len(cs) /\ Len(cs) \in 1..Len(cs)
      BY <1>1, <1>3, <1>6, <2>2
    <3> QED BY <1>1, <1>2, <2>2, <3>1
  <2> QED BY <1>4, <2>1, <2>2
<1>7. ASSUME NEW i \in 1..((Len(cs) + 1) - 1) PROVE Idle(ds[i])
  <2>1. i \in 1..Len(cs) /\ (i \in 1..(Len(cs) - 1) \/ i = Len(cs)) /\ Len(cs) > 0
    BY <1>1
  <2> QED BY <1>2, <2>1 DEF Nested
<1>8. ASSUME NEW i \in 1..(Len(cs) + 1), NEW j \in 1..(Len(cs) + 1),
             ds[i].mutex = ds[j].mutex, ds[i].mutex # Null PROVE i = j
  <2>1. \A c \in 1..Len(cs) : ds[c].mutex # Null => ds[c].mutex # a.mutex
    BY <1>2 DEF Mutexed
  <2> QED BY <1>2, <1>3, <1>4, <1>8, <2>1 DEF Nested
<1> QED BY <1>2, <1>5, <1>6, <1>7, <1>8 DEF Nested, ds

\* The stack is cut at height k, the other three as far as they point there.
LEMMA CutAligned ==
  ASSUME NEW cs, NEW fr, NEW un, NEW rs, cs \in Seq(Activations), Aligned(cs, fr, un, rs),
         NEW k \in 0..Len(cs), NEW a \in 0..Len(fr), NEW b \in 0..Len(un), NEW c \in 0..Len(rs),
         \A i \in 1..Len(fr) : fr[i].act <= k <=> i <= a,
         \A i \in 1..Len(un) : un[i] <= k <=> i <= b,
         \A i \in 1..Len(rs) : rs[i].act <= k <=> i <= c
  PROVE  Aligned(SubSeq(cs, 1, k), SubSeq(fr, 1, a), SubSeq(un, 1, b), SubSeq(rs, 1, c))
<1> DEFINE ds == SubSeq(cs, 1, k)
           gr == SubSeq(fr, 1, a)
           vn == SubSeq(un, 1, b)
           qs == SubSeq(rs, 1, c)
<1>1. /\ Len(cs) \in Nat /\ fr \in Seq(Frames) /\ Len(fr) \in Nat
      /\ un \in Seq(Nat) /\ Len(un) \in Nat /\ rs \in Seq(Slots) /\ Len(rs) \in Nat
  BY LenNat DEF Aligned, FramesAt, UnwindAt, SlotsAt
<1>2. ds \in Seq(Activations) /\ Len(ds) = k /\ \A i \in 1..k : ds[i] = cs[i]
  BY <1>1, CutSeq
<1>3. gr \in Seq(Frames) /\ Len(gr) = a /\ \A i \in 1..a : gr[i] = fr[i]
  BY <1>1, CutSeq
<1>4. vn \in Seq(Nat) /\ Len(vn) = b /\ \A i \in 1..b : vn[i] = un[i]
  BY <1>1, CutSeq
<1>5. qs \in Seq(Slots) /\ Len(qs) = c /\ \A i \in 1..c : qs[i] = rs[i]
  BY <1>1, CutSeq
<1> HIDE DEF ds, gr, vn, qs
<1>6. /\ \A i \in 1..k : i \in 1..Len(cs)
      /\ \A i \in 1..a : i \in 1..Len(fr) /\ i <= a
      /\ \A i \in 1..b : i \in 1..Len(un) /\ i <= b
      /\ \A i \in 1..c : i \in 1..Len(rs) /\ i <= c
  BY <1>1
<1>7. FramesAt(ds, gr)
  <2>1. \A i \in 1..a : gr[i].act \in 1..k /\ Catches(ds[gr[i].act])
    <3> SUFFICES ASSUME NEW i \in 1..a PROVE gr[i].act \in 1..k /\ Catches(ds[gr[i].act])
      OBVIOUS
    <3>1. gr[i] = fr[i] /\ fr[i].act \in 1..Len(cs) /\ Catches(cs[fr[i].act]) /\ fr[i].act <= k
      BY <1>3, <1>6 DEF Aligned, FramesAt
    <3>2. fr[i].act \in 1..k
      BY <1>1, <3>1
    <3> QED BY <1>2, <3>1, <3>2
  <2>2. ASSUME NEW d \in 1..k, Catches(ds[d]) PROVE \E i \in 1..a : gr[i].act = d
    <3>1. PICK i \in 1..Len(fr) : fr[i].act = d
      BY <1>2, <1>6, <2>2 DEF Aligned, FramesAt
    <3>2. i \in 1..a
      BY <1>1, <3>1
    <3> QED BY <1>3, <3>1, <3>2
  <2>3. \A i, j \in 1..a : i < j => gr[i].act < gr[j].act
    BY <1>3, <1>6 DEF Aligned, FramesAt
  <2> QED BY <1>2, <1>3, <2>1, <2>2, <2>3 DEF FramesAt
<1>8. UnwindAt(ds, vn)
  <2>1. \A i \in 1..b : vn[i] \in 1..k /\ Registers(ds[vn[i]])
    <3> SUFFICES ASSUME NEW i \in 1..b PROVE vn[i] \in 1..k /\ Registers(ds[vn[i]])
      OBVIOUS
    <3>1. vn[i] = un[i] /\ un[i] \in 1..Len(cs) /\ Registers(cs[un[i]]) /\ un[i] <= k
      BY <1>4, <1>6 DEF Aligned, UnwindAt
    <3>2. un[i] \in 1..k
      BY <1>1, <3>1
    <3> QED BY <1>2, <3>1, <3>2
  <2>2. ASSUME NEW d \in 1..k, Registers(ds[d]) PROVE \E i \in 1..b : vn[i] = d
    <3>1. PICK i \in 1..Len(un) : un[i] = d
      BY <1>2, <1>6, <2>2 DEF Aligned, UnwindAt
    <3>2. i \in 1..b
      BY <1>1, <3>1
    <3> QED BY <1>4, <3>1, <3>2
  <2>3. \A i, j \in 1..b : i < j => vn[i] < vn[j]
    BY <1>4, <1>6 DEF Aligned, UnwindAt
  <2> QED BY <1>2, <1>4, <2>1, <2>2, <2>3 DEF UnwindAt
<1>9. SlotsAt(ds, qs)
  <2>1. \A i \in 1..c : qs[i].act \in 1..k /\ ds[qs[i].act].kind = "fn"
    <3> SUFFICES ASSUME NEW i \in 1..c PROVE qs[i].act \in 1..k /\ ds[qs[i].act].kind = "fn"
      OBVIOUS
    <3>1. qs[i] = rs[i] /\ rs[i].act \in 1..Len(cs) /\ cs[rs[i].act].kind = "fn" /\ rs[i].act <= k
      BY <1>5, <1>6 DEF Aligned, SlotsAt
    <3>2. rs[i].act \in 1..k
      BY <1>1, <3>1
    <3> QED BY <1>2, <3>1, <3>2
  <2>2. \A i, j \in 1..c : i <= j => qs[i].act <= qs[j].act
    BY <1>5, <1>6 DEF Aligned, SlotsAt
  <2> QED BY <1>2, <1>5, <2>1, <2>2 DEF SlotsAt
<1>10. DepthsAt(gr, vn, qs)
  <2> SUFFICES ASSUME NEW f \in 1..a
               PROVE  /\ gr[f].unwind <= b /\ gr[f].resources <= c
                      /\ \A i \in 1..b : vn[i] < gr[f].act <=> i <= gr[f].unwind
                      /\ \A i \in 1..c : qs[i].act < gr[f].act <=> i <= gr[f].resources
    BY <1>3, <1>4, <1>5 DEF DepthsAt
  <2>1. /\ gr[f] = fr[f] /\ fr[f].act <= k /\ fr[f].unwind <= Len(un) /\ fr[f].resources <= Len(rs)
        /\ \A i \in 1..Len(un) : un[i] < fr[f].act <=> i <= fr[f].unwind
        /\ \A i \in 1..Len(rs) : rs[i].act < fr[f].act <=> i <= fr[f].resources
    BY <1>3, <1>6 DEF Aligned, DepthsAt
  <2>2. fr[f].act \in Nat /\ fr[f].unwind \in Nat /\ fr[f].resources \in Nat
    <3>1. fr[f] \in Frames
      BY <1>1, <1>6
    <3> QED BY <3>1 DEF Frames
  <2>3. fr[f].unwind <= b
    <3>1. CASE fr[f].unwind > 0
      <4>1. fr[f].unwind \in 1..Len(un)
        BY <1>1, <2>1, <2>2, <3>1
      <4>2. un[fr[f].unwind] \in Nat
        BY <1>1, <4>1
      <4>3. un[fr[f].unwind] < fr[f].act
        BY <2>1, <2>2, <4>1
      <4> QED BY <2>1, <2>2, <4>1, <4>2, <4>3
    <3> QED BY <2>2, <3>1
  <2>4. fr[f].resources <= c
    <3>1. CASE fr[f].resources > 0
      <4>1. fr[f].resources \in 1..Len(rs)
        BY <1>1, <2>1, <2>2, <3>1
      <4>2. rs[fr[f].resources] \in Slots
        BY <1>1, <4>1
      <4>3. rs[fr[f].resources].act < fr[f].act /\ rs[fr[f].resources].act \in Nat
        BY <2>1, <2>2, <4>1, <4>2 DEF Slots
      <4> QED BY <2>1, <2>2, <4>1, <4>3
    <3> QED BY <2>2, <3>1
  <2>5. \A i \in 1..b : vn[i] < gr[f].act <=> i <= gr[f].unwind
    BY <1>4, <1>6, <2>1
  <2>6. \A i \in 1..c : qs[i].act < gr[f].act <=> i <= gr[f].resources
    BY <1>5, <1>6, <2>1
  <2> QED BY <2>1, <2>3, <2>4, <2>5, <2>6
<1> QED BY <1>7, <1>8, <1>9, <1>10 DEF Aligned, ds, gr, vn, qs

\* What a native frame does not say about itself but about those below stays
\* true of a higher stack.
LEMMA Higher ==
  ASSUME NEW cs, NEW ds, NEW rs, cs \in Seq(Activations), ds \in Seq(Activations),
         Len(ds) = Len(cs) + 1, \A i \in 1..Len(cs) : ds[i] = cs[i], SlotsAt(cs, rs)
  PROVE  SlotsAt(ds, rs)
<1>1. Len(cs) \in Nat /\ \A i \in 1..Len(cs) : i \in 1..(Len(cs) + 1)
  BY LenNat
<1>2. \A i \in 1..Len(rs) : rs[i].act \in 1..Len(cs) /\ cs[rs[i].act].kind = "fn"
  BY DEF SlotsAt
<1>3. \A i \in 1..Len(rs) : rs[i].act \in 1..Len(ds) /\ ds[rs[i].act].kind = "fn"
  BY <1>1, <1>2
<1> QED BY <1>3 DEF SlotsAt

LEMMA HigherFrames ==
  ASSUME NEW cs, NEW ds, NEW fr, cs \in Seq(Activations), ds \in Seq(Activations),
         Len(ds) = Len(cs) + 1, \A i \in 1..Len(cs) : ds[i] = cs[i], FramesAt(cs, fr),
         ~Catches(ds[Len(cs) + 1])
  PROVE  FramesAt(ds, fr)
<1>1. Len(cs) \in Nat /\ \A i \in 1..Len(cs) : i \in 1..(Len(cs) + 1)
  BY LenNat
<1>2. \A i \in 1..Len(fr) : fr[i].act \in 1..Len(ds) /\ Catches(ds[fr[i].act])
  BY <1>1 DEF FramesAt
<1>3. ASSUME NEW c \in 1..Len(ds), Catches(ds[c]) PROVE \E i \in 1..Len(fr) : fr[i].act = c
  <2>1. c \in 1..Len(cs)
    BY <1>1, <1>3
  <2> QED BY <1>3, <2>1 DEF FramesAt
<1> QED BY <1>2, <1>3 DEF FramesAt

LEMMA HigherUnwind ==
  ASSUME NEW cs, NEW ds, NEW un, cs \in Seq(Activations), ds \in Seq(Activations),
         Len(ds) = Len(cs) + 1, \A i \in 1..Len(cs) : ds[i] = cs[i], UnwindAt(cs, un),
         ~Registers(ds[Len(cs) + 1])
  PROVE  UnwindAt(ds, un)
<1>1. Len(cs) \in Nat /\ \A i \in 1..Len(cs) : i \in 1..(Len(cs) + 1)
  BY LenNat
<1>2. \A i \in 1..Len(un) : un[i] \in 1..Len(ds) /\ Registers(ds[un[i]])
  BY <1>1 DEF UnwindAt
<1>3. ASSUME NEW c \in 1..Len(ds), Registers(ds[c]) PROVE \E i \in 1..Len(un) : un[i] = c
  <2>1. c \in 1..Len(cs)
    BY <1>1, <1>3
  <2> QED BY <1>3, <2>1 DEF UnwindAt
<1> QED BY <1>2, <1>3 DEF UnwindAt

\* A frame that neither waits for a jump nor registers words.
LEMMA PushPlain ==
  ASSUME NEW cs, NEW fr, NEW un, NEW rs, cs \in Seq(Activations), Aligned(cs, fr, un, rs),
         NEW a \in Activations, ~Catches(a), ~Registers(a)
  PROVE  Aligned(Append(cs, a), fr, un, rs)
<1> DEFINE ds == Append(cs, a)
<1>1. ds \in Seq(Activations) /\ Len(ds) = Len(cs) + 1 /\ \A i \in 1..Len(cs) : ds[i] = cs[i]
  BY PushSeq
<1>2. ds[Len(cs) + 1] = a
  BY PushSeq
<1> HIDE DEF ds
<1>3. FramesAt(ds, fr) /\ UnwindAt(ds, un) /\ SlotsAt(ds, rs)
  BY <1>1, <1>2, Higher, HigherFrames, HigherUnwind DEF Aligned
<1> QED BY <1>3 DEF Aligned, ds

\* A frame that registers its words on UNWIND.
LEMMA PushRegister ==
  ASSUME NEW cs, NEW fr, NEW un, NEW rs, cs \in Seq(Activations), Aligned(cs, fr, un, rs),
         NEW a \in Activations, Registers(a), NEW h, h = Len(cs) + 1
  PROVE  Aligned(Append(cs, a), fr, Append(un, h), rs)
<1> DEFINE ds == Append(cs, a)
           vn == Append(un, h)
<1>1. ds \in Seq(Activations) /\ Len(ds) = h /\ \A i \in 1..Len(cs) : ds[i] = cs[i]
  BY PushSeq
<1>2. ds[h] = a
  BY PushSeq
<1>3. Len(cs) \in Nat /\ h \in Nat /\ un \in Seq(Nat) /\ Len(un) \in Nat
  BY LenNat DEF Aligned, UnwindAt
<1>4. vn \in Seq(Nat) /\ Len(vn) = Len(un) + 1 /\ \A i \in 1..Len(un) : vn[i] = un[i]
  BY <1>3, PushSeq
<1>5. vn[Len(un) + 1] = h
  BY <1>3, PushSeq
<1> HIDE DEF ds, vn
<1>6. ~Catches(a)
  BY DEF Catches, Registers
<1>7. FramesAt(ds, fr) /\ SlotsAt(ds, rs)
  BY <1>1, <1>2, <1>6, Higher, HigherFrames DEF Aligned
<1>8. \A i \in 1..(Len(un) + 1) : i \in 1..Len(un) \/ i = Len(un) + 1
  BY <1>3
<1>9. \A i \in 1..Len(un) : un[i] \in 1..Len(cs) /\ Registers(cs[un[i]]) /\ un[i] < h
  <2> SUFFICES ASSUME NEW i \in 1..Len(un) PROVE un[i] \in 1..Len(cs) /\ Registers(cs[un[i]]) /\ un[i] < h
    OBVIOUS
  <2>1. un[i] \in 1..Len(cs) /\ Registers(cs[un[i]])
    BY DEF Aligned, UnwindAt
  <2> QED BY <1>3, <2>1
<1>10. UnwindAt(ds, vn)
  <2>1. \A i, j \in 1..Len(vn) : i < j => vn[i] < vn[j]
    <3> SUFFICES ASSUME NEW i \in 1..Len(vn), NEW j \in 1..Len(vn), i < j PROVE vn[i] < vn[j]
      OBVIOUS
    <3>1. i \in 1..Len(un) /\ vn[i] = un[i]
      BY <1>3, <1>4
    <3>2. CASE j \in 1..Len(un)
      BY <1>4, <3>1, <3>2 DEF Aligned, UnwindAt
    <3>3. CASE j = Len(un) + 1
      BY <1>5, <1>9, <3>1, <3>3
    <3> QED BY <1>4, <1>8, <3>2, <3>3
  <2>2. \A i \in 1..Len(vn) : vn[i] \in 1..Len(ds) /\ Registers(ds[vn[i]])
    <3> SUFFICES ASSUME NEW i \in 1..Len(vn) PROVE vn[i] \in 1..Len(ds) /\ Registers(ds[vn[i]])
      OBVIOUS
    <3>1. CASE i \in 1..Len(un)
      <4>1. vn[i] = un[i] /\ un[i] \in 1..Len(cs) /\ Registers(cs[un[i]]) /\ un[i] < h
        BY <1>4, <1>9, <3>1
      <4> QED BY <1>1, <1>3, <4>1
    <3>2. CASE i = Len(un) + 1
      BY <1>1, <1>2, <1>3, <1>5, <3>2
    <3> QED BY <1>4, <1>8, <3>1, <3>2
  <2>3. ASSUME NEW c \in 1..Len(ds), Registers(ds[c]) PROVE \E i \in 1..Len(vn) : vn[i] = c
    <3>1. CASE c \in 1..Len(cs)
      <4>1. PICK i \in 1..Len(un) : un[i] = c
        BY <1>1, <2>3, <3>1 DEF Aligned, UnwindAt
      <4>2. i \in 1..Len(vn) /\ vn[i] = c
        BY <1>3, <1>4, <4>1
      <4> QED BY <4>2
    <3>2. CASE c = h
      <4>1. Len(un) + 1 \in 1..Len(vn)
        BY <1>3, <1>4
      <4> QED BY <1>5, <3>2, <4>1
    <3> QED BY <1>1, <1>3, <3>1, <3>2
  <2> QED BY <1>4, <2>1, <2>2, <2>3 DEF UnwindAt
<1>11. DepthsAt(fr, vn, rs)
  <2> SUFFICES ASSUME NEW f \in 1..Len(fr)
               PROVE  /\ fr[f].unwind <= Len(vn) /\ fr[f].resources <= Len(rs)
                      /\ \A i \in 1..Len(vn) : vn[i] < fr[f].act <=> i <= fr[f].unwind
                      /\ \A i \in 1..Len(rs) : rs[i].act < fr[f].act <=> i <= fr[f].resources
    BY DEF DepthsAt
  <2>1. /\ fr[f].unwind <= Len(un) /\ fr[f].resources <= Len(rs)
        /\ \A i \in 1..Len(un) : un[i] < fr[f].act <=> i <= fr[f].unwind
        /\ \A i \in 1..Len(rs) : rs[i].act < fr[f].act <=> i <= fr[f].resources
    BY DEF Aligned, DepthsAt
  <2>2. fr[f].act \in 1..Len(cs)
    BY DEF Aligned, FramesAt
  <2>3. fr[f].unwind \in Nat
    <3>1. fr[f] \in Frames
      BY DEF Aligned, FramesAt
    <3> QED BY <3>1 DEF Frames
  <2>4. ASSUME NEW i \in 1..Len(vn) PROVE vn[i] < fr[f].act <=> i <= fr[f].unwind
    <3>1. CASE i \in 1..Len(un)
      BY <1>4, <2>1, <3>1
    <3>2. CASE i = Len(un) + 1
      BY <1>3, <1>5, <2>1, <2>2, <2>3, <3>2
    <3> QED BY <1>4, <1>8, <3>1, <3>2
  <2>5. fr[f].unwind <= Len(vn)
    <3>1. Len(vn) = Len(un) + 1 /\ fr[f].unwind <= Len(un)
      BY <1>4, <2>1
    <3> QED BY <1>3, <2>3, <3>1
  <2> QED BY <2>1, <2>4, <2>5
<1> QED BY <1>7, <1>10, <1>11 DEF Aligned, ds, vn

\* A frame that waits for a jump, with what it remembers of the other stacks.
LEMMA PushCatch ==
  ASSUME NEW cs, NEW fr, NEW un, NEW rs, cs \in Seq(Activations), Aligned(cs, fr, un, rs),
         NEW a \in Activations, Catches(a), NEW f, f \in Frames, f.act = Len(cs) + 1,
         f.unwind = Len(un), f.resources = Len(rs)
  PROVE  Aligned(Append(cs, a), Append(fr, f), un, rs)
<1> DEFINE ds == Append(cs, a)
           gr == Append(fr, f)
<1>1. ds \in Seq(Activations) /\ Len(ds) = Len(cs) + 1 /\ \A i \in 1..Len(cs) : ds[i] = cs[i]
  BY PushSeq
<1>2. ds[Len(cs) + 1] = a
  BY PushSeq
<1>3. /\ Len(cs) \in Nat /\ fr \in Seq(Frames) /\ Len(fr) \in Nat
      /\ un \in Seq(Nat) /\ Len(un) \in Nat /\ rs \in Seq(Slots) /\ Len(rs) \in Nat
  BY LenNat DEF Aligned, UnwindAt, FramesAt, SlotsAt
<1>4. gr \in Seq(Frames) /\ Len(gr) = Len(fr) + 1 /\ \A i \in 1..Len(fr) : gr[i] = fr[i]
  BY <1>3, PushSeq
<1>5. gr[Len(fr) + 1] = f
  BY <1>3, PushSeq
<1> HIDE DEF ds, gr
<1>6. ~Registers(a)
  BY DEF Catches, Registers
<1>7. UnwindAt(ds, un) /\ SlotsAt(ds, rs)
  BY <1>1, <1>2, <1>6, Higher, HigherUnwind DEF Aligned
<1>8. \A i \in 1..(Len(fr) + 1) : i \in 1..Len(fr) \/ i = Len(fr) + 1
  BY <1>3
<1>9. ASSUME NEW i \in 1..Len(fr) PROVE fr[i].act \in 1..Len(cs) /\ Catches(cs[fr[i].act]) /\ fr[i].act < Len(cs) + 1
  <2>1. fr[i].act \in 1..Len(cs) /\ Catches(cs[fr[i].act])
    BY DEF Aligned, FramesAt
  <2> QED BY <1>3, <2>1
<1>10. FramesAt(ds, gr)
  <2>1. \A i, j \in 1..Len(gr) : i < j => gr[i].act < gr[j].act
    <3> SUFFICES ASSUME NEW i \in 1..Len(gr), NEW j \in 1..Len(gr), i < j PROVE gr[i].act < gr[j].act
      OBVIOUS
    <3>1. i \in 1..Len(fr) /\ gr[i] = fr[i]
      <4>1. Len(gr) = Len(fr) + 1
        BY <1>4
      <4>2. i \in 1..Len(fr)
        BY <1>3, <4>1
      <4> QED BY <1>4, <4>2
    <3>2. CASE j \in 1..Len(fr)
      <4>1. gr[j] = fr[j] /\ fr[i].act < fr[j].act
        BY <1>4, <3>1, <3>2 DEF Aligned, FramesAt
      <4> QED BY <3>1, <4>1
    <3>3. CASE j = Len(fr) + 1
      BY <1>5, <1>9, <3>1, <3>3
    <3> QED BY <1>4, <1>8, <3>2, <3>3
  <2>2. \A i \in 1..Len(gr) : gr[i].act \in 1..Len(ds) /\ Catches(ds[gr[i].act])
    <3> SUFFICES ASSUME NEW i \in 1..Len(gr) PROVE gr[i].act \in 1..Len(ds) /\ Catches(ds[gr[i].act])
      OBVIOUS
    <3>1. CASE i \in 1..Len(fr)
      <4>1. gr[i] = fr[i] /\ fr[i].act \in 1..Len(cs) /\ Catches(cs[fr[i].act])
        BY <1>4, <1>9, <3>1
      <4> QED BY <1>1, <1>3, <4>1
    <3>2. CASE i = Len(fr) + 1
      BY <1>1, <1>2, <1>3, <1>5, <3>2
    <3> QED BY <1>4, <1>8, <3>1, <3>2
  <2>3. ASSUME NEW c \in 1..Len(ds), Catches(ds[c]) PROVE \E i \in 1..Len(gr) : gr[i].act = c
    <3>1. CASE c \in 1..Len(cs)
      <4>1. PICK i \in 1..Len(fr) : fr[i].act = c
        BY <1>1, <2>3, <3>1 DEF Aligned, FramesAt
      <4>2. i \in 1..Len(gr) /\ gr[i].act = c
        BY <1>3, <1>4, <4>1
      <4> QED BY <4>2
    <3>2. CASE c = Len(cs) + 1
      <4>1. Len(fr) + 1 \in 1..Len(gr)
        BY <1>3, <1>4
      <4> QED BY <1>5, <3>2, <4>1
    <3> QED BY <1>1, <1>3, <3>1, <3>2
  <2> QED BY <1>4, <2>1, <2>2, <2>3 DEF FramesAt
<1>11. DepthsAt(gr, un, rs)
  <2> SUFFICES ASSUME NEW g \in 1..Len(gr)
               PROVE  /\ gr[g].unwind <= Len(un) /\ gr[g].resources <= Len(rs)
                      /\ \A i \in 1..Len(un) : un[i] < gr[g].act <=> i <= gr[g].unwind
                      /\ \A i \in 1..Len(rs) : rs[i].act < gr[g].act <=> i <= gr[g].resources
    BY DEF DepthsAt
  <2>1. CASE g \in 1..Len(fr)
    <3>1. gr[g] = fr[g]
      BY <1>4, <2>1
    <3> QED BY <2>1, <3>1 DEF Aligned, DepthsAt
  <2>2. CASE g = Len(fr) + 1
    <3>1. ASSUME NEW i \in 1..Len(un) PROVE un[i] < f.act /\ i <= Len(un)
      <4>1. un[i] \in 1..Len(cs)
        BY DEF Aligned, UnwindAt
      <4> QED BY <1>3, <4>1
    <3>2. ASSUME NEW i \in 1..Len(rs) PROVE rs[i].act < f.act /\ i <= Len(rs)
      <4>1. rs[i].act \in 1..Len(cs)
        BY DEF Aligned, SlotsAt
      <4> QED BY <1>3, <4>1
    <3> QED BY <1>3, <1>5, <2>2, <3>1, <3>2
  <2> QED BY <1>4, <1>8, <2>1, <2>2
<1> QED BY <1>7, <1>10, <1>11 DEF Aligned, ds, gr

\* Only the words and the codes of native frames change.
LEMMA SameAligned ==
  ASSUME NEW cs, NEW ds, NEW fr, NEW un, NEW rs, Aligned(cs, fr, un, rs), Len(ds) = Len(cs),
         \A i \in 1..Len(cs) : ds[i].kind = cs[i].kind /\ ds[i].err = cs[i].err
  PROVE  Aligned(ds, fr, un, rs)
<1>1. \A i \in 1..Len(cs) : (Catches(ds[i]) <=> Catches(cs[i])) /\ (Registers(ds[i]) <=> Registers(cs[i]))
  BY DEF Catches, Registers
<1>2. FramesAt(ds, fr)
  BY <1>1 DEF Aligned, FramesAt
<1>3. UnwindAt(ds, un)
  BY <1>1 DEF Aligned, UnwindAt
<1>4. SlotsAt(ds, rs)
  BY <1>1 DEF Aligned, SlotsAt
<1> QED BY <1>2, <1>3, <1>4 DEF Aligned

-----------------------------------------------------------------------------
(* RESOURCES without some of them                                            *)

LEMMA Least == ASSUME NEW T, T \subseteq Nat, T # {} PROVE \E x \in T : \A y \in T : x <= y
<1>1. PICK x \in T : \A y \in T : ~(<<y, x>> \in OpToRel(<, Nat))
  BY WFMin, NatLessThanWellFounded
<1>2. ASSUME NEW y \in T PROVE x <= y
  <2>1. x \in Nat /\ y \in Nat
    OBVIOUS
  <2>2. ~(y < x)
    BY <1>1, <2>1 DEF OpToRel
  <2> QED BY <2>1, <2>2
<1> QED BY <1>2

\* The places g are those of the first n members of s that S spares.
Places(s, n, S, g) ==
  /\ g \in Seq(Nat)
  /\ \A i, j \in 1..Len(g) : i < j => g[i] < g[j]
  /\ \A i \in 1..Len(g) : g[i] \in 1..n /\ s[g[i]].res \notin S
  /\ \A j \in 1..n : s[j].res \notin S => \E i \in 1..Len(g) : g[i] = j

\* t is what S spares of the first n members of s, in the same order.
Spares(s, n, S, t) ==
  /\ t \in Seq(Slots)
  /\ \E g \in Seq(Nat) :
       Places(s, n, S, g) /\ Len(g) = Len(t) /\ \A i \in 1..Len(t) : t[i] = s[g[i]]

LEMMA SparesStep ==
  ASSUME NEW s \in Seq(Slots), NEW n \in Nat, n < Len(s), NEW S, NEW t, Spares(s, n, S, t)
  PROVE  /\ s[n + 1].res \in S => Spares(s, n + 1, S, t)
         /\ s[n + 1].res \notin S => Spares(s, n + 1, S, Append(t, s[n + 1]))
<1>1. Len(s) \in Nat /\ n + 1 \in 1..Len(s)
  BY LenNat
<1>2. PICK g \in Seq(Nat) :
        Places(s, n, S, g) /\ Len(g) = Len(t) /\ \A i \in 1..Len(t) : t[i] = s[g[i]]
  BY DEF Spares
<1>3. t \in Seq(Slots) /\ Len(t) \in Nat
  BY LenNat DEF Spares
<1>4. \A j \in 1..(n + 1) : j \in 1..n \/ j = n + 1
  OBVIOUS
<1>5. ASSUME s[n + 1].res \in S PROVE Spares(s, n + 1, S, t)
  <2>1. Places(s, n + 1, S, g)
    <3>1. \A i \in 1..Len(g) : g[i] \in 1..(n + 1) /\ s[g[i]].res \notin S
      BY <1>2 DEF Places
    <3>2. \A j \in 1..(n + 1) : s[j].res \notin S => \E i \in 1..Len(g) : g[i] = j
      BY <1>2, <1>4, <1>5 DEF Places
    <3> QED BY <1>2, <3>1, <3>2 DEF Places
  <2> QED BY <1>2, <1>3, <2>1 DEF Spares
<1>6. ASSUME s[n + 1].res \notin S PROVE Spares(s, n + 1, S, Append(t, s[n + 1]))
  <2> DEFINE x == s[n + 1]
             h == Append(g, n + 1)
             u == Append(t, x)
  <2>1. x \in Slots
    BY <1>1
  <2>2. u \in Seq(Slots) /\ Len(u) = Len(t) + 1 /\ \A i \in 1..Len(t) : u[i] = t[i]
    BY <1>3, <2>1, PushSeq
  <2>3. u[Len(t) + 1] = x
    BY <1>3, <2>1, PushSeq
  <2>4. h \in Seq(Nat) /\ Len(h) = Len(t) + 1 /\ \A i \in 1..Len(t) : h[i] = g[i]
    BY <1>2, PushSeq
  <2>5. h[Len(t) + 1] = n + 1
    BY <1>2, PushSeq
  <2>6. x.res \notin S /\ x = s[n + 1]
    BY <1>6
  <2> HIDE DEF x, h, u
  <2>7. \A i \in 1..Len(h) : i \in 1..Len(t) \/ i = Len(t) + 1
    BY <1>3, <2>4
  <2>8. \A i \in 1..Len(t) : g[i] \in 1..n /\ s[g[i]].res \notin S /\ t[i] = s[g[i]]
    BY <1>2 DEF Places
  <2>9. Places(s, n + 1, S, h)
    <3>1. ASSUME NEW i \in 1..Len(h), NEW j \in 1..Len(h), i < j PROVE h[i] < h[j]
      <4>1. i \in 1..Len(t)
        BY <1>3, <2>4, <3>1
      <4>2. h[i] = g[i] /\ g[i] \in 1..n
        BY <2>4, <2>8, <4>1
      <4>3. CASE j \in 1..Len(t)
        <5>1. h[j] = g[j] /\ g[i] < g[j]
          BY <1>2, <2>4, <3>1, <4>1, <4>3 DEF Places
        <5> QED BY <4>2, <5>1
      <4>4. CASE j = Len(t) + 1
        BY <2>5, <4>2, <4>4
      <4> QED BY <2>7, <4>3, <4>4
    <3>2. ASSUME NEW i \in 1..Len(h) PROVE h[i] \in 1..(n + 1) /\ s[h[i]].res \notin S
      <4>1. CASE i \in 1..Len(t)
        <5>1. h[i] = g[i] /\ g[i] \in 1..n /\ s[g[i]].res \notin S
          BY <2>4, <2>8, <4>1
        <5> QED BY <5>1
      <4>2. CASE i = Len(t) + 1
        BY <2>5, <2>6, <4>2
      <4> QED BY <2>7, <4>1, <4>2
    <3>3. ASSUME NEW j \in 1..(n + 1), s[j].res \notin S PROVE \E i \in 1..Len(h) : h[i] = j
      <4>1. CASE j \in 1..n
        <5>1. PICK i \in 1..Len(t) : g[i] = j
          BY <1>2, <3>3, <4>1 DEF Places
        <5>2. i \in 1..Len(h) /\ h[i] = j
          BY <1>3, <2>4, <5>1
        <5> QED BY <5>2
      <4>2. CASE j = n + 1
        <5>1. Len(t) + 1 \in 1..Len(h)
          BY <1>3, <2>4
        <5> QED BY <2>5, <4>2, <5>1
      <4> QED BY <1>4, <4>1, <4>2
    <3> QED BY <2>4, <3>1, <3>2, <3>3 DEF Places
  <2>10. ASSUME NEW i \in 1..Len(u) PROVE u[i] = s[h[i]]
    <3>1. CASE i \in 1..Len(t)
      BY <2>2, <2>4, <2>8, <3>1
    <3>2. CASE i = Len(t) + 1
      BY <2>3, <2>5, <2>6, <3>2
    <3> QED BY <2>2, <2>4, <2>7, <3>1, <3>2
  <2>11. Spares(s, n + 1, S, u)
    BY <2>2, <2>4, <2>9, <2>10 DEF Spares
  <2> QED BY <2>11 DEF u, x
<1> QED BY <1>5, <1>6

LEMMA OthersSpare ==
  ASSUME NEW S, resources \in Seq(Slots)
  PROVE  Spares(resources, Len(resources), S, OthersOf(S))
<1> DEFINE L == Len(resources)
           Value(g, n) == IF n = 0 THEN <<>>
                          ELSE IF resources[n].res \in S THEN g[n - 1] ELSE Append(g[n - 1], resources[n])
           Rec(g, m) == [n \in 0..m |-> Value(g, n)]
           others == CHOOSE g : g = Rec(g, L)
           T == {m \in 0..L : ~\E g : g = Rec(g, m)}
<1>1. L \in Nat
  BY LenNat
<1>2. \E g : g = Rec(g, L)
  <2>1. SUFFICES ASSUME T # {} PROVE FALSE
    <3>1. L \in 0..L
      BY <1>1
    <3> HIDE DEF Rec, L
    <3> QED BY <3>1
  <2>2. PICK m \in T : \A k \in T : m <= k
    <3>1. T \subseteq Nat
      OBVIOUS
    <3> HIDE DEF T
    <3> QED BY <2>1, <3>1, Least
  <2>3. CASE m = 0
    <3> DEFINE e == [n \in 0..0 |-> <<>>]
    <3>1. \A n \in 0..0 : Value(e, n) = e[n]
      OBVIOUS
    <3>2. e = Rec(e, 0)
      BY <3>1
    <3> QED BY <2>2, <2>3, <3>2
  <2>4. CASE m # 0
    <3>1. m - 1 \in 0..L /\ m - 1 \notin T /\ m \in 0..L
      <4>1. m \in 0..L
        OBVIOUS
      <4> HIDE DEF T
      <4> QED BY <1>1, <2>2, <2>4, <4>1
    <3>2. PICK g : g = Rec(g, m - 1)
      BY <3>1
    <3> DEFINE h == [n \in 0..m |-> IF n = m THEN Value(g, m) ELSE g[n]]
    <3>3. ASSUME NEW n \in 0..m PROVE h[n] = Value(h, n)
      <4>1. CASE n = 0
        <5>1. 0 \in 0..(m - 1) /\ n # m
          BY <2>4, <3>1, <4>1
        <5>2. g[0] = Value(g, 0)
          BY <3>2, <5>1
        <5> QED BY <4>1, <5>1, <5>2
      <4>2. CASE n # 0
        <5>1. n - 1 \in 0..m /\ n - 1 # m /\ (n # m => n \in 0..(m - 1))
          BY <3>1, <4>2
        <5>2. h[n - 1] = g[n - 1]
          BY <5>1
        <5>3. Value(h, n) = Value(g, n)
          BY <4>2, <5>2
        <5>4. n # m => g[n] = Value(g, n)
          BY <3>2, <5>1
        <5> HIDE DEF Value
        <5> QED BY <5>3, <5>4
      <4> QED BY <4>1, <4>2
    <3>4. h = Rec(h, m)
      <4> HIDE DEF Value
      <4> QED BY <3>3
    <3> QED BY <2>2, <3>4
  <2> QED BY <2>3, <2>4
<1>3. others = Rec(others, L)
  BY <1>2
<1>4. OthersOf(S) = others[L]
  BY DEF OthersOf
<1> HIDE DEF others
<1>5. \A n \in 0..L : others[n] = Value(others, n)
  <2> HIDE DEF Value
  <2> QED BY <1>3
<1> DEFINE U == {n \in 0..L : ~Spares(resources, n, S, others[n])}
<1>6. SUFFICES U = {}
  BY <1>1, <1>4
<1>7. SUFFICES ASSUME U # {} PROVE FALSE
  OBVIOUS
<1>8. PICK n \in U : \A k \in U : n <= k
  <2>1. U \subseteq Nat
    OBVIOUS
  <2> HIDE DEF U
  <2> QED BY <1>7, <2>1, Least
<1>9. CASE n = 0
  <2>1. others[n] = <<>>
    BY <1>5, <1>9, <1>1
  <2>2. Places(resources, 0, S, <<>>)
    BY DEF Places
  <2>3. Spares(resources, 0, S, <<>>)
    <3>1. <<>> \in Seq(Nat) /\ <<>> \in Seq(Slots) /\ Len(<<>>) = 0 /\ 1..0 = {}
      OBVIOUS
    <3>2. \A i \in 1..Len(<<>>) : <<>>[i] = resources[<<>>[i]]
      BY <3>1
    <3> QED BY <2>2, <3>1, <3>2 DEF Spares
  <2> QED BY <1>8, <1>9, <2>1, <2>3
<1>10. CASE n # 0
  <2>1. n - 1 \in 0..L /\ n - 1 \notin U /\ n - 1 \in Nat /\ n - 1 < L /\ (n - 1) + 1 = n /\ n \in 0..L
    BY <1>1, <1>8, <1>10
  <2>2. Spares(resources, n - 1, S, others[n - 1])
    BY <2>1
  <2>3. others[n] = (IF resources[n].res \in S THEN others[n - 1] ELSE Append(others[n - 1], resources[n]))
    BY <1>5, <1>10, <2>1
  <2>4. Spares(resources, n, S, others[n])
    BY <2>1, <2>2, <2>3, SparesStep
  <2> QED BY <1>8, <2>4
<1> QED BY <1>9, <1>10

\* The first ones, when all of them are spared, keep their places.
LEMMA SparesPrefix ==
  ASSUME NEW s, NEW n \in Nat, NEW S, NEW g, Places(s, n, S, g), NEW k \in 0..n,
         \A i \in 1..k : s[i].res \notin S
  PROVE  k <= Len(g) /\ \A i \in 1..k : g[i] = i
<1>1. g \in Seq(Nat) /\ Len(g) \in Nat /\ \A i \in 1..Len(g) : g[i] \in Nat
  BY LenNat DEF Places
<1>2. \A i, j \in 1..Len(g) : i < j => g[i] < g[j]
  BY DEF Places
<1> DEFINE T == {i \in 1..k : ~(i \in 1..Len(g) /\ g[i] = i)}
<1>3. SUFFICES ASSUME T # {} PROVE FALSE
  <2>1. \A i \in 1..k : i \in 1..Len(g) /\ g[i] = i
    BY <1>3
  <2>2. k <= Len(g)
    <3>1. CASE k = 0
      BY <1>1, <3>1
    <3>2. CASE k # 0
      <4>1. k \in 1..k
        BY <3>2
      <4>2. k \in 1..Len(g)
        BY <2>1, <4>1
      <4> QED BY <1>1, <4>2
    <3> QED BY <3>1, <3>2
  <2> QED BY <2>1, <2>2
<1>4. PICK i \in T : \A j \in T : i <= j
  <2>1. T \subseteq Nat
    OBVIOUS
  <2> HIDE DEF T
  <2> QED BY <1>3, <2>1, Least
<1>5. i \in 1..k /\ i \in 1..n
  OBVIOUS
<1>6. PICK p \in 1..Len(g) : g[p] = i
  BY <1>5 DEF Places
<1>7. \A j \in 1..k : j < i => j \in 1..Len(g) /\ g[j] = j
  <2> SUFFICES ASSUME NEW j \in 1..k, j < i, ~(j \in 1..Len(g) /\ g[j] = j) PROVE FALSE
    OBVIOUS
  <2>1. j \in T
    OBVIOUS
  <2> HIDE DEF T
  <2> QED BY <1>4, <1>5, <2>1
<1>8. ~(p < i)
  BY <1>5, <1>6, <1>7
<1>9. p # i
  BY <1>6
<1>10. i \in 1..Len(g) /\ i < p
  BY <1>1, <1>5, <1>6, <1>8, <1>9
<1>11. g[i] < i /\ g[i] \in 1..k /\ g[i] \in 1..n
  <2>1. g[i] < g[p]
    BY <1>2, <1>10
  <2>2. g[i] \in 1..n
    BY <1>10 DEF Places
  <2> QED BY <1>5, <1>6, <2>1, <2>2
<1>12. g[g[i]] = g[i] /\ g[i] \in 1..Len(g)
  BY <1>7, <1>11
<1>13. g[g[i]] < g[i]
  BY <1>2, <1>10, <1>11, <1>12
<1> QED BY <1>1, <1>10, <1>12, <1>13

\* What the function on top closes concerns nobody below.
LEMMA DropAligned ==
  ASSUME NEW cs, NEW fr, NEW un, NEW rs, NEW S, NEW qs, cs \in Seq(Activations),
         Aligned(cs, fr, un, rs), Spares(rs, Len(rs), S, qs),
         \A i \in 1..Len(rs) : rs[i].res \in S => rs[i].act = Len(cs)
  PROVE  Aligned(cs, fr, un, qs)
<1>1. PICK g \in Seq(Nat) :
        Places(rs, Len(rs), S, g) /\ Len(g) = Len(qs) /\ \A i \in 1..Len(qs) : qs[i] = rs[g[i]]
  BY DEF Spares
<1>2. /\ qs \in Seq(Slots) /\ Len(qs) \in Nat /\ Len(cs) \in Nat /\ rs \in Seq(Slots) /\ Len(rs) \in Nat
      /\ fr \in Seq(Frames)
  BY LenNat DEF Spares, Aligned, SlotsAt, FramesAt
<1>3. \A i \in 1..Len(qs) : g[i] \in 1..Len(rs) /\ qs[i] = rs[g[i]]
  BY <1>1 DEF Places
<1>4. \A i, j \in 1..Len(qs) : i < j => g[i] < g[j]
  BY <1>1 DEF Places
<1>5. SlotsAt(cs, qs)
  <2>1. ASSUME NEW i \in 1..Len(qs), NEW j \in 1..Len(qs), i <= j PROVE qs[i].act <= qs[j].act
    <3>1. i = j \/ i < j
      BY <1>2, <2>1
    <3>2. g[i] <= g[j] /\ g[i] \in 1..Len(rs) /\ g[j] \in 1..Len(rs)
      <4>1. g[i] \in 1..Len(rs) /\ g[j] \in 1..Len(rs)
        BY <1>3
      <4>2. CASE i = j
        BY <4>1, <4>2
      <4>3. CASE i < j
        <5>1. g[i] < g[j]
          BY <1>4, <4>3
        <5> QED BY <4>1, <5>1
      <4> QED BY <3>1, <4>1, <4>2, <4>3
    <3> QED BY <1>3, <3>2 DEF Aligned, SlotsAt
  <2>2. \A i \in 1..Len(qs) : qs[i].act \in 1..Len(cs) /\ cs[qs[i].act].kind = "fn"
    BY <1>3 DEF Aligned, SlotsAt
  <2> QED BY <1>2, <2>1, <2>2 DEF SlotsAt
<1>6. DepthsAt(fr, un, qs)
  <2> SUFFICES ASSUME NEW f \in 1..Len(fr)
               PROVE  /\ fr[f].unwind <= Len(un) /\ fr[f].resources <= Len(qs)
                      /\ \A i \in 1..Len(un) : un[i] < fr[f].act <=> i <= fr[f].unwind
                      /\ \A i \in 1..Len(qs) : qs[i].act < fr[f].act <=> i <= fr[f].resources
    BY DEF DepthsAt
  <2>1. /\ fr[f].unwind <= Len(un) /\ fr[f].resources <= Len(rs)
        /\ \A i \in 1..Len(un) : un[i] < fr[f].act <=> i <= fr[f].unwind
        /\ \A i \in 1..Len(rs) : rs[i].act < fr[f].act <=> i <= fr[f].resources
    BY DEF Aligned, DepthsAt
  <2> DEFINE k == fr[f].resources
  <2>2. fr[f].act \in 1..Len(cs)
    BY DEF Aligned, FramesAt
  <2>3. k \in 0..Len(rs)
    <3>1. fr[f] \in Frames
      BY <1>2
    <3>2. k \in Nat
      BY <3>1 DEF Frames
    <3> QED BY <1>2, <2>1, <3>2
  <2>4. k = fr[f].resources
    OBVIOUS
  <2> HIDE DEF k
  <2>5. \A i \in 1..k : rs[i].res \notin S
    <3> SUFFICES ASSUME NEW i \in 1..k, rs[i].res \in S PROVE FALSE
      OBVIOUS
    <3>1. i \in 1..Len(rs) /\ i <= k
      BY <1>2, <2>3
    <3>2. rs[i].act < fr[f].act /\ rs[i].act = Len(cs)
      BY <2>1, <2>4, <3>1
    <3> QED BY <1>2, <2>2, <3>2
  <2>6. k <= Len(qs) /\ \A i \in 1..k : g[i] = i
    <3>1. k <= Len(g) /\ \A i \in 1..k : g[i] = i
      BY <1>1, <1>2, <2>3, <2>5, SparesPrefix
    <3> QED BY <1>1, <3>1
  <2>7. ASSUME NEW i \in 1..Len(qs) PROVE qs[i].act < fr[f].act <=> i <= k
    <3>1. g[i] \in 1..Len(rs) /\ qs[i] = rs[g[i]]
      BY <1>3
    <3>2. qs[i].act < fr[f].act <=> g[i] <= k
      BY <2>1, <2>4, <3>1
    <3>3. CASE i <= k
      <4>1. g[i] = i
        BY <2>3, <2>6, <3>3
      <4> QED BY <3>2, <3>3, <4>1
    <3>4. CASE ~(i <= k)
      <4>1. ~(g[i] <= k)
        <5>1. CASE k = 0
          BY <3>1, <5>1
        <5>2. CASE k # 0
          <6>1. k \in 1..k /\ k \in 1..Len(qs) /\ k < i
            BY <1>2, <2>3, <2>6, <3>4, <5>2
          <6>2. g[k] = k /\ g[k] < g[i]
            BY <1>4, <2>6, <6>1
          <6> QED BY <2>3, <3>1, <6>2
        <5> QED BY <5>1, <5>2
      <4> QED BY <3>2, <3>4, <4>1
    <3> QED BY <3>3, <3>4
  <2> QED BY <2>1, <2>4, <2>6, <2>7
<1> QED BY <1>5, <1>6 DEF Aligned

LEMMA DropOpen ==
  ASSUME NEW rs, NEW S, NEW qs, NEW op, Spares(rs, Len(rs), S, qs), OpenOnce(rs, op), rs \in Seq(Slots)
  PROVE  OpenOnce(qs, op \ S)
<1>1. PICK g \in Seq(Nat) :
        Places(rs, Len(rs), S, g) /\ Len(g) = Len(qs) /\ \A i \in 1..Len(qs) : qs[i] = rs[g[i]]
  BY DEF Spares
<1>2. Len(qs) \in Nat /\ Len(rs) \in Nat
  BY LenNat DEF Spares
<1>3. \A i \in 1..Len(qs) : g[i] \in 1..Len(rs) /\ qs[i] = rs[g[i]] /\ rs[g[i]].res \notin S
  BY <1>1 DEF Places
<1>4. op \ S \subseteq {qs[i].res : i \in 1..Len(qs)}
  <2> SUFFICES ASSUME NEW x \in op, x \notin S PROVE \E i \in 1..Len(qs) : qs[i].res = x
    OBVIOUS
  <2>1. PICK j \in 1..Len(rs) : rs[j].res = x
    BY DEF OpenOnce
  <2>2. PICK i \in 1..Len(qs) : g[i] = j
    BY <1>1, <2>1 DEF Places
  <2> QED BY <1>3, <2>1, <2>2
<1>5. {qs[i].res : i \in 1..Len(qs)} \subseteq op \ S
  BY <1>3 DEF OpenOnce
<1>6. ASSUME NEW i \in 1..Len(qs), NEW j \in 1..Len(qs), qs[i].res = qs[j].res PROVE i = j
  <2>1. g[i] = g[j]
    <3>1. \A c, d \in 1..Len(rs) : rs[c].res = rs[d].res => c = d
      BY DEF OpenOnce
    <3>2. g[i] \in 1..Len(rs) /\ g[j] \in 1..Len(rs) /\ rs[g[i]].res = rs[g[j]].res
      <4>1. qs[i] = rs[g[i]] /\ qs[j] = rs[g[j]]
        BY <1>3
      <4> QED BY <1>3, <1>6, <4>1
    <3> QED BY <3>1, <3>2
  <2>2. g[i] \in Nat
    BY <1>3
  <2>3. (i < j => g[i] < g[j]) /\ (j < i => g[j] < g[i])
    <3>1. \A c, d \in 1..Len(qs) : c < d => g[c] < g[d]
      BY <1>1 DEF Places
    <3> QED BY <3>1
  <2>4. ~(i < j) /\ ~(j < i)
    BY <2>1, <2>2, <2>3
  <2> QED BY <1>2, <2>4
<1> QED BY <1>4, <1>5, <1>6 DEF OpenOnce

\* The resources of the native frame h.
At(rs, h) == {rs[i].res : i \in {j \in 1..Len(rs) : rs[j].act = h}}

\* Once the function on top closed its resources, none points at it.
LEMMA DropOwn ==
  ASSUME NEW rs, NEW qs, NEW h, NEW op, rs \in Seq(Slots), OpenOnce(rs, op),
         Spares(rs, Len(rs), At(rs, h), qs)
  PROVE  /\ \A i \in 1..Len(rs) : rs[i].res \in At(rs, h) => rs[i].act = h
         /\ \A i \in 1..Len(qs) : qs[i].act # h
<1>1. ASSUME NEW i \in 1..Len(rs), rs[i].res \in At(rs, h) PROVE rs[i].act = h
  <2>1. PICK j \in 1..Len(rs) : rs[j].act = h /\ rs[i].res = rs[j].res
    BY <1>1 DEF At
  <2>2. \A x, y \in 1..Len(rs) : rs[x].res = rs[y].res => x = y
    BY DEF OpenOnce
  <2>3. i = j
    BY <2>1, <2>2
  <2> QED BY <2>1, <2>3
<1>2. PICK g \in Seq(Nat) :
        Places(rs, Len(rs), At(rs, h), g) /\ Len(g) = Len(qs) /\ \A i \in 1..Len(qs) : qs[i] = rs[g[i]]
  BY DEF Spares
<1>3. \A i \in 1..Len(qs) : g[i] \in 1..Len(rs) /\ qs[i] = rs[g[i]] /\ rs[g[i]].res \notin At(rs, h)
  BY <1>2 DEF Places
<1>4. \A i \in 1..Len(rs) : rs[i].act = h => rs[i].res \in At(rs, h)
  BY DEF At
<1>5. ASSUME NEW i \in 1..Len(qs) PROVE qs[i].act # h
  <2>1. g[i] \in 1..Len(rs) /\ qs[i] = rs[g[i]] /\ rs[g[i]].res \notin At(rs, h)
    BY <1>3
  <2>2. rs[g[i]].act # h
    BY <1>4, <2>1
  <2> QED BY <2>1, <2>2
<1> QED BY <1>1, <1>5

LEMMA PushSlot ==
  ASSUME NEW cs, NEW fr, NEW un, NEW rs, cs \in Seq(Activations), Aligned(cs, fr, un, rs),
         Len(cs) > 0, cs[Len(cs)].kind = "fn", NEW e \in Slots, e.act = Len(cs)
  PROVE  Aligned(cs, fr, un, Append(rs, e))
<1> DEFINE qs == Append(rs, e)
<1>1. Len(cs) \in Nat /\ rs \in Seq(Slots) /\ Len(rs) \in Nat /\ fr \in Seq(Frames)
  BY LenNat DEF Aligned, SlotsAt, FramesAt
<1>2. qs \in Seq(Slots) /\ Len(qs) = Len(rs) + 1 /\ \A i \in 1..Len(rs) : qs[i] = rs[i]
  BY <1>1, PushSeq
<1>3. qs[Len(rs) + 1] = e
  BY <1>1, PushSeq
<1> HIDE DEF qs
<1>4. \A i \in 1..Len(qs) : i \in 1..Len(rs) \/ i = Len(rs) + 1
  <2>1. Len(qs) = Len(rs) + 1
    BY <1>2
  <2> QED BY <1>1, <2>1
<1>5. \A i \in 1..Len(rs) : rs[i].act \in 1..Len(cs) /\ cs[rs[i].act].kind = "fn"
  BY DEF Aligned, SlotsAt
<1>6. SlotsAt(cs, qs)
  <2>1. ASSUME NEW i \in 1..Len(qs) PROVE qs[i].act \in 1..Len(cs) /\ cs[qs[i].act].kind = "fn"
    <3>1. CASE i \in 1..Len(rs)
      <4>1. qs[i] = rs[i]
        BY <1>2, <3>1
      <4> QED BY <1>5, <3>1, <4>1
    <3>2. CASE i = Len(rs) + 1
      BY <1>1, <1>3, <3>2
    <3> QED BY <1>4, <3>1, <3>2
  <2>2. ASSUME NEW i \in 1..Len(qs), NEW j \in 1..Len(qs), i <= j PROVE qs[i].act <= qs[j].act
    <3>1. CASE j = Len(rs) + 1
      <4>1. qs[i].act \in 1..Len(cs) /\ qs[j].act = Len(cs)
        BY <1>3, <2>1, <3>1
      <4> QED BY <1>1, <4>1
    <3>2. CASE j \in 1..Len(rs)
      <4>1. i \in 1..Len(rs)
        BY <1>1, <2>2, <3>2
      <4>2. qs[i] = rs[i] /\ qs[j] = rs[j]
        BY <1>2, <3>2, <4>1
      <4> QED BY <2>2, <3>2, <4>1, <4>2 DEF Aligned, SlotsAt
    <3> QED BY <1>4, <3>1, <3>2
  <2> QED BY <1>2, <2>1, <2>2 DEF SlotsAt
<1>7. DepthsAt(fr, un, qs)
  <2> SUFFICES ASSUME NEW f \in 1..Len(fr)
               PROVE  /\ fr[f].unwind <= Len(un) /\ fr[f].resources <= Len(qs)
                      /\ \A i \in 1..Len(un) : un[i] < fr[f].act <=> i <= fr[f].unwind
                      /\ \A i \in 1..Len(qs) : qs[i].act < fr[f].act <=> i <= fr[f].resources
    BY DEF DepthsAt
  <2>1. /\ fr[f].unwind <= Len(un) /\ fr[f].resources <= Len(rs)
        /\ \A i \in 1..Len(un) : un[i] < fr[f].act <=> i <= fr[f].unwind
        /\ \A i \in 1..Len(rs) : rs[i].act < fr[f].act <=> i <= fr[f].resources
    BY DEF Aligned, DepthsAt
  <2>2. fr[f].act \in 1..Len(cs)
    BY DEF Aligned, FramesAt
  <2>3. fr[f].resources \in Nat
    <3>1. fr[f] \in Frames
      BY <1>1
    <3> QED BY <3>1 DEF Frames
  <2>4. ASSUME NEW i \in 1..Len(qs) PROVE qs[i].act < fr[f].act <=> i <= fr[f].resources
    <3>1. CASE i \in 1..Len(rs)
      <4>1. qs[i] = rs[i]
        BY <1>2, <3>1
      <4> QED BY <2>1, <3>1, <4>1
    <3>2. CASE i = Len(rs) + 1
      <4>1. qs[i].act = Len(cs)
        BY <1>3, <3>2
      <4> QED BY <1>1, <2>1, <2>2, <2>3, <3>2, <4>1
    <3> QED BY <1>4, <3>1, <3>2
  <2>5. fr[f].resources <= Len(qs)
    <3>1. Len(qs) = Len(rs) + 1
      BY <1>2
    <3> QED BY <1>1, <2>1, <2>3, <3>1
  <2> QED BY <2>1, <2>4, <2>5
<1> QED BY <1>6, <1>7 DEF Aligned, qs

LEMMA PushOpen ==
  ASSUME NEW rs \in Seq(Slots), NEW op, OpenOnce(rs, op), NEW e \in Slots, e.res \notin op
  PROVE  OpenOnce(Append(rs, e), op \cup {e.res})
<1> DEFINE qs == Append(rs, e)
<1>1. Len(rs) \in Nat /\ qs \in Seq(Slots) /\ Len(qs) = Len(rs) + 1 /\ \A i \in 1..Len(rs) : qs[i] = rs[i]
  BY LenNat, PushSeq
<1>2. qs[Len(rs) + 1] = e
  BY PushSeq
<1> HIDE DEF qs
<1>3. \A i : i \in 1..Len(qs) <=> i \in 1..Len(rs) \/ i = Len(rs) + 1
  <2>1. Len(qs) = Len(rs) + 1
    BY <1>1
  <2>2. Len(rs) \in Nat
    BY <1>1
  <2> QED BY <2>1, <2>2
<1>4. op = {rs[i].res : i \in 1..Len(rs)} /\ \A i, j \in 1..Len(rs) : rs[i].res = rs[j].res => i = j
  BY DEF OpenOnce
<1>5. op \cup {e.res} = {qs[i].res : i \in 1..Len(qs)}
  BY <1>1, <1>2, <1>3, <1>4
<1>6. \A i \in 1..Len(rs) : rs[i].res # e.res
  BY <1>4
<1>7. \A i, j \in 1..Len(qs) : qs[i].res = qs[j].res => i = j
  BY <1>1, <1>2, <1>3, <1>4, <1>6
<1> QED BY <1>5, <1>7 DEF OpenOnce, qs

LEMMA CutOpen ==
  ASSUME NEW rs \in Seq(Slots), NEW op, OpenOnce(rs, op), NEW c \in 0..Len(rs)
  PROVE  OpenOnce(SubSeq(rs, 1, c), op \ {rs[i].res : i \in (c + 1)..Len(rs)})
<1> DEFINE qs == SubSeq(rs, 1, c)
<1>1. Len(rs) \in Nat /\ Len(qs) = c /\ \A i \in 1..c : qs[i] = rs[i]
  BY LenNat, CutSeq
<1> HIDE DEF qs
<1>2. op = {rs[i].res : i \in 1..Len(rs)} /\ \A i, j \in 1..Len(rs) : rs[i].res = rs[j].res => i = j
  BY DEF OpenOnce
<1>3. \A i \in 1..Len(rs) : i \in 1..c \/ i \in (c + 1)..Len(rs)
  BY <1>1
<1>4. \A i \in 1..c : i \in 1..Len(rs) /\ i \notin (c + 1)..Len(rs)
  BY <1>1
<1>5. \A i \in (c + 1)..Len(rs) : i \in 1..Len(rs)
  BY <1>1
<1>6. op \ {rs[i].res : i \in (c + 1)..Len(rs)} = {rs[i].res : i \in 1..c}
  BY <1>2, <1>3, <1>4, <1>5
<1>7. {rs[i].res : i \in 1..c} = {qs[i].res : i \in 1..c}
  BY <1>1
<1>8. \A i, j \in 1..c : qs[i].res = qs[j].res => i = j
  BY <1>1, <1>2, <1>4
<1> QED BY <1>1, <1>6, <1>7, <1>8 DEF OpenOnce, qs

LEMMA WholeSeq == \A S : \A s \in Seq(S) : SubSeq(s, 1, Len(s)) = s
OBVIOUS

\* The native frame on top is gone, and with it what points at it.
LEMMA PopRegister ==
  ASSUME NEW cs, NEW fr, NEW un, NEW rs, cs \in Seq(Activations), Len(cs) > 0,
         Aligned(cs, fr, un, rs), Registers(cs[Len(cs)]), \A i \in 1..Len(rs) : rs[i].act # Len(cs)
  PROVE  Aligned(SubSeq(cs, 1, Len(cs) - 1), fr, SubSeq(un, 1, Len(un) - 1), rs)
<1> DEFINE h == Len(cs)
<1>1. /\ h \in Nat /\ fr \in Seq(Frames) /\ Len(fr) \in Nat /\ un \in Seq(Nat) /\ Len(un) \in Nat
      /\ rs \in Seq(Slots) /\ Len(rs) \in Nat
  BY LenNat DEF Aligned, FramesAt, UnwindAt, SlotsAt
<1>2. SubSeq(fr, 1, Len(fr)) = fr /\ SubSeq(rs, 1, Len(rs)) = rs
  BY <1>1, WholeSeq
<1>3. PICK p \in 1..Len(un) : un[p] = h
  <2>1. h \in 1..h
    BY <1>1
  <2> QED BY <2>1 DEF Aligned, UnwindAt
<1>4. \A i \in 1..Len(un) : un[i] \in 1..h
  BY DEF Aligned, UnwindAt
<1>5. p = Len(un)
  <2>1. CASE p < Len(un)
    <3>1. Len(un) \in 1..Len(un)
      BY <1>1, <2>1
    <3>2. un[p] < un[Len(un)] /\ un[Len(un)] \in 1..h
      BY <1>4, <2>1, <3>1 DEF Aligned, UnwindAt
    <3> QED BY <1>1, <1>3, <3>2
  <2> QED BY <1>1, <2>1
<1>6. \A i \in 1..Len(fr) : fr[i].act <= h - 1 <=> i <= Len(fr)
  <2> SUFFICES ASSUME NEW i \in 1..Len(fr) PROVE fr[i].act <= h - 1 /\ i <= Len(fr)
    OBVIOUS
  <2>1. fr[i].act \in 1..h /\ Catches(cs[fr[i].act])
    BY DEF Aligned, FramesAt
  <2>2. fr[i].act # h
    BY <2>1 DEF Catches, Registers
  <2> QED BY <1>1, <2>1, <2>2
<1>7. \A i \in 1..Len(un) : un[i] <= h - 1 <=> i <= Len(un) - 1
  <2> SUFFICES ASSUME NEW i \in 1..Len(un) PROVE un[i] <= h - 1 <=> i <= Len(un) - 1
    OBVIOUS
  <2>1. un[i] \in 1..h
    BY <1>4
  <2>2. CASE i = p
    BY <1>1, <1>3, <1>5, <2>2
  <2>3. CASE i < p
    <3>1. un[i] < un[p]
      BY <2>3 DEF Aligned, UnwindAt
    <3> QED BY <1>1, <1>3, <1>5, <2>1, <2>3, <3>1
  <2> QED BY <1>1, <1>5, <2>2, <2>3
<1>8. \A i \in 1..Len(rs) : rs[i].act <= h - 1 <=> i <= Len(rs)
  <2> SUFFICES ASSUME NEW i \in 1..Len(rs) PROVE rs[i].act <= h - 1 /\ i <= Len(rs)
    OBVIOUS
  <2>1. rs[i].act \in 1..h
    BY DEF Aligned, SlotsAt
  <2> QED BY <1>1, <2>1
<1>9. h - 1 \in 0..Len(cs) /\ Len(fr) \in 0..Len(fr) /\ Len(un) - 1 \in 0..Len(un) /\ Len(rs) \in 0..Len(rs)
  BY <1>1, <1>5
<1>10. Aligned(SubSeq(cs, 1, h - 1), SubSeq(fr, 1, Len(fr)), SubSeq(un, 1, Len(un) - 1), SubSeq(rs, 1, Len(rs)))
  BY <1>6, <1>7, <1>8, <1>9, CutAligned
<1> QED BY <1>2, <1>10

LEMMA PopCatch ==
  ASSUME NEW cs, NEW fr, NEW un, NEW rs, cs \in Seq(Activations), Len(cs) > 0,
         Aligned(cs, fr, un, rs), Catches(cs[Len(cs)])
  PROVE  Aligned(SubSeq(cs, 1, Len(cs) - 1), SubSeq(fr, 1, Len(fr) - 1), un, rs) /\ Len(fr) > 0
<1> DEFINE h == Len(cs)
<1>1. /\ h \in Nat /\ fr \in Seq(Frames) /\ Len(fr) \in Nat /\ un \in Seq(Nat) /\ Len(un) \in Nat
      /\ rs \in Seq(Slots) /\ Len(rs) \in Nat
  BY LenNat DEF Aligned, FramesAt, UnwindAt, SlotsAt
<1>2. SubSeq(un, 1, Len(un)) = un /\ SubSeq(rs, 1, Len(rs)) = rs
  BY <1>1, WholeSeq
<1>3. PICK p \in 1..Len(fr) : fr[p].act = h
  <2>1. h \in 1..h
    BY <1>1
  <2> QED BY <2>1 DEF Aligned, FramesAt
<1>4. \A i \in 1..Len(fr) : fr[i].act \in 1..h
  BY DEF Aligned, FramesAt
<1>5. p = Len(fr)
  <2>1. CASE p < Len(fr)
    <3>1. Len(fr) \in 1..Len(fr)
      BY <1>1, <2>1
    <3>2. fr[p].act < fr[Len(fr)].act /\ fr[Len(fr)].act \in 1..h
      BY <1>4, <2>1, <3>1 DEF Aligned, FramesAt
    <3> QED BY <1>1, <1>3, <3>2
  <2> QED BY <1>1, <2>1
<1>6. \A i \in 1..Len(un) : un[i] <= h - 1 <=> i <= Len(un)
  <2> SUFFICES ASSUME NEW i \in 1..Len(un) PROVE un[i] <= h - 1 /\ i <= Len(un)
    OBVIOUS
  <2>1. un[i] \in 1..h /\ Registers(cs[un[i]])
    BY DEF Aligned, UnwindAt
  <2>2. un[i] # h
    BY <2>1 DEF Catches, Registers
  <2> QED BY <1>1, <2>1, <2>2
<1>7. \A i \in 1..Len(fr) : fr[i].act <= h - 1 <=> i <= Len(fr) - 1
  <2> SUFFICES ASSUME NEW i \in 1..Len(fr) PROVE fr[i].act <= h - 1 <=> i <= Len(fr) - 1
    OBVIOUS
  <2>1. fr[i].act \in 1..h
    BY <1>4
  <2>2. CASE i = p
    BY <1>1, <1>3, <1>5, <2>2
  <2>3. CASE i < p
    <3>1. fr[i].act < fr[p].act
      BY <2>3 DEF Aligned, FramesAt
    <3> QED BY <1>1, <1>3, <1>5, <2>1, <2>3, <3>1
  <2> QED BY <1>1, <1>5, <2>2, <2>3
<1>8. \A i \in 1..Len(rs) : rs[i].act <= h - 1 <=> i <= Len(rs)
  <2> SUFFICES ASSUME NEW i \in 1..Len(rs) PROVE rs[i].act <= h - 1 /\ i <= Len(rs)
    OBVIOUS
  <2>1. rs[i].act \in 1..h /\ cs[rs[i].act].kind = "fn"
    BY DEF Aligned, SlotsAt
  <2>2. rs[i].act # h
    BY <2>1 DEF Catches
  <2> QED BY <1>1, <2>1, <2>2
<1>9. h - 1 \in 0..Len(cs) /\ Len(un) \in 0..Len(un) /\ Len(fr) - 1 \in 0..Len(fr) /\ Len(rs) \in 0..Len(rs)
  BY <1>1, <1>5
<1>10. Aligned(SubSeq(cs, 1, h - 1), SubSeq(fr, 1, Len(fr) - 1), SubSeq(un, 1, Len(un)), SubSeq(rs, 1, Len(rs)))
  BY <1>6, <1>7, <1>8, <1>9, CutAligned
<1>11. Len(fr) > 0
  BY <1>1, <1>5
<1> QED BY <1>2, <1>10, <1>11

\* The try that a jump goes to.
Innermost(fr, f) == Len(fr) > 0 /\ f = fr[Len(fr)]

\* What its frame remembers is where a jump cuts the stacks.
LEMMA JumpAligned ==
  ASSUME NEW cs, NEW fr, NEW un, NEW rs, cs \in Seq(Activations),
         Aligned(cs, fr, un, rs), NEW f, Innermost(fr, f)
  PROVE  /\ f \in Frames /\ f.act \in 1..Len(cs) /\ Catches(cs[f.act])
         /\ f.unwind \in 0..Len(un) /\ f.resources \in 0..Len(rs)
         /\ \A c \in 1..Len(cs) : Catches(cs[c]) => c <= f.act
         /\ \A i \in 1..Len(un) : un[i] < f.act <=> i <= f.unwind
         /\ \A i \in 1..Len(rs) : rs[i].act < f.act <=> i <= f.resources
         /\ Aligned(SubSeq(cs, 1, f.act - 1), SubSeq(fr, 1, Len(fr) - 1),
                    SubSeq(un, 1, f.unwind), SubSeq(rs, 1, f.resources))
<1>1. /\ Len(cs) \in Nat /\ fr \in Seq(Frames) /\ Len(fr) \in Nat /\ un \in Seq(Nat) /\ Len(un) \in Nat
      /\ rs \in Seq(Slots) /\ Len(rs) \in Nat /\ Len(fr) > 0
  BY LenNat DEF Aligned, FramesAt, UnwindAt, SlotsAt, Innermost
<1>2. Len(fr) \in 1..Len(fr) /\ f = fr[Len(fr)]
  BY <1>1 DEF Innermost
<1>3. f \in Frames /\ f.act \in 1..Len(cs) /\ Catches(cs[f.act])
  BY <1>1, <1>2 DEF Aligned, FramesAt
<1>4. f.act \in Nat /\ f.unwind \in Nat /\ f.resources \in Nat
  BY <1>3 DEF Frames
<1>5. /\ f.unwind <= Len(un) /\ f.resources <= Len(rs)
      /\ \A i \in 1..Len(un) : un[i] < f.act <=> i <= f.unwind
      /\ \A i \in 1..Len(rs) : rs[i].act < f.act <=> i <= f.resources
  BY <1>2 DEF Aligned, DepthsAt
<1>6. \A i \in 1..Len(fr) : fr[i].act <= f.act - 1 <=> i <= Len(fr) - 1
  <2> SUFFICES ASSUME NEW i \in 1..Len(fr) PROVE fr[i].act <= f.act - 1 <=> i <= Len(fr) - 1
    OBVIOUS
  <2>1. fr[i].act \in 1..Len(cs)
    BY DEF Aligned, FramesAt
  <2>2. i < Len(fr) => fr[i].act < f.act
    <3>1. \A x, y \in 1..Len(fr) : x < y => fr[x].act < fr[y].act
      BY DEF Aligned, FramesAt
    <3> QED BY <1>2, <3>1
  <2>3. i = Len(fr) => fr[i].act = f.act
    BY <1>2
  <2> QED BY <1>1, <1>4, <2>1, <2>2, <2>3
<1>7. \A i \in 1..Len(un) : un[i] <= f.act - 1 <=> i <= f.unwind
  <2> SUFFICES ASSUME NEW i \in 1..Len(un) PROVE un[i] <= f.act - 1 <=> i <= f.unwind
    OBVIOUS
  <2>1. un[i] \in Nat
    BY <1>1
  <2> QED BY <1>4, <1>5, <2>1
<1>8. \A i \in 1..Len(rs) : rs[i].act <= f.act - 1 <=> i <= f.resources
  <2> SUFFICES ASSUME NEW i \in 1..Len(rs) PROVE rs[i].act <= f.act - 1 <=> i <= f.resources
    OBVIOUS
  <2>1. rs[i].act \in 1..Len(cs)
    BY DEF Aligned, SlotsAt
  <2> QED BY <1>1, <1>4, <1>5, <2>1
<1>9. /\ f.act - 1 \in 0..Len(cs) /\ Len(fr) - 1 \in 0..Len(fr)
      /\ f.unwind \in 0..Len(un) /\ f.resources \in 0..Len(rs)
  BY <1>1, <1>3, <1>4, <1>5
<1>10. Aligned(SubSeq(cs, 1, f.act - 1), SubSeq(fr, 1, Len(fr) - 1),
               SubSeq(un, 1, f.unwind), SubSeq(rs, 1, f.resources))
  BY <1>6, <1>7, <1>8, <1>9, CutAligned
<1>11. ASSUME NEW c \in 1..Len(cs), Catches(cs[c]) PROVE c <= f.act
  <2>1. PICK i \in 1..Len(fr) : fr[i].act = c
    BY <1>11 DEF Aligned, FramesAt
  <2>2. i < Len(fr) => fr[i].act < f.act
    <3>1. \A x, y \in 1..Len(fr) : x < y => fr[x].act < fr[y].act
      BY DEF Aligned, FramesAt
    <3> QED BY <1>2, <3>1
  <2>3. i = Len(fr) \/ i < Len(fr)
    BY <1>1
  <2>4. i = Len(fr) => fr[i].act = f.act
    BY <1>2
  <2> QED BY <1>4, <2>1, <2>2, <2>3, <2>4
<1> QED BY <1>3, <1>5, <1>9, <1>10, <1>11

-----------------------------------------------------------------------------
(* What a step does to the four stacks                                       *)

TopAs(cs, a) == [cs EXCEPT ![Len(cs)] = a]
Under(cs)    == SubSeq(cs, 1, Len(cs) - 1)

LEMMA StackTypes ==
  ASSUME NEW cs, NEW fr, NEW un, NEW rs, Stacks(cs, fr, un, rs)
  PROVE  /\ cs \in Seq(Activations) /\ Len(cs) \in Nat /\ Len(cs) > 0 /\ Len(cs) \in 1..Len(cs)
         /\ fr \in Seq(Frames) /\ Len(fr) \in Nat /\ un \in Seq(Nat) /\ Len(un) \in Nat
         /\ rs \in Seq(Slots) /\ Len(rs) \in Nat /\ MaxCalls \in Nat /\ MaxTry \in Nat
         /\ Sound(cs[Len(cs)]) /\ cs[Len(cs)] \in Activations
<1>1. /\ cs \in Seq(Activations) /\ fr \in Seq(Frames) /\ un \in Seq(Nat) /\ rs \in Seq(Slots)
  BY DEF Stacks, Nested, Aligned, FramesAt, UnwindAt, SlotsAt
<1>2. MaxCalls \in Nat /\ MaxTry \in Nat
  BY BoundsAssumption
<1>3. Len(cs) \in Nat /\ Len(fr) \in Nat /\ Len(un) \in Nat /\ Len(rs) \in Nat
  BY <1>1, LenNat
<1>4. Len(cs) \in 1..MaxCalls
  BY DEF Stacks
<1>5. Len(cs) > 0 /\ Len(cs) \in 1..Len(cs)
  BY <1>2, <1>3, <1>4
<1>6. Sound(cs[Len(cs)])
  BY <1>5 DEF Stacks, Nested
<1> QED BY <1>1, <1>2, <1>3, <1>5, <1>6 DEF Sound

LEMMA ReplaceTop ==
  ASSUME NEW cs \in Seq(Activations), Len(cs) > 0, NEW a \in Activations
  PROVE  /\ TopAs(cs, a) \in Seq(Activations) /\ Len(TopAs(cs, a)) = Len(cs)
         /\ TopAs(cs, a)[Len(cs)] = a
         /\ \A i \in 1..Len(cs) : i # Len(cs) => TopAs(cs, a)[i] = cs[i]
<1>1. Len(cs) \in Nat /\ Len(cs) \in 1..Len(cs)
  BY LenNat
<1> QED BY <1>1, ExceptSeq DEF TopAs

\* Words or code of the frame on top change.
LEMMA TopNested ==
  ASSUME NEW cs, Nested(cs), Len(cs) > 0, NEW a, Sound(a), a.kind = cs[Len(cs)].kind,
         a.mutex = cs[Len(cs)].mutex
  PROVE  Nested(TopAs(cs, a)) /\ Mutexed(TopAs(cs, a)) = Mutexed(cs)
<1> DEFINE ds == TopAs(cs, a)
           h == Len(cs)
<1>1. cs \in Seq(Activations) /\ h \in Nat /\ a \in Activations /\ h > 0
  BY LenNat DEF Nested, Sound
<1>2. ds \in Seq(Activations) /\ Len(ds) = h /\ ds[h] = a /\ \A i \in 1..h : i # h => ds[i] = cs[i]
  BY <1>1, ReplaceTop
<1> HIDE DEF ds
<1>3. \A i \in 1..h : ds[i].kind = cs[i].kind /\ ds[i].mutex = cs[i].mutex
  BY <1>2
<1>4. \A i \in 1..h : Sound(ds[i])
  BY <1>2 DEF Nested
<1>5. \A i \in 1..h : ds[i].kind # "fn" => i > 1 /\ ds[i - 1].kind = "fn"
  <2> SUFFICES ASSUME NEW i \in 1..h, ds[i].kind # "fn" PROVE i > 1 /\ ds[i - 1].kind = "fn"
    OBVIOUS
  <2>1. i > 1 /\ cs[i - 1].kind = "fn"
    BY <1>3 DEF Nested
  <2>2. i - 1 \in 1..h
    BY <1>1, <2>1
  <2> QED BY <1>3, <2>1, <2>2
<1>6. \A i \in 1..(h - 1) : Idle(ds[i])
  <2> SUFFICES ASSUME NEW i \in 1..(h - 1) PROVE Idle(ds[i])
    OBVIOUS
  <2>1. i \in 1..h /\ i # h
    BY <1>1
  <2> QED BY <1>2, <2>1 DEF Nested
<1>7. \A i, j \in 1..h : ds[i].mutex = ds[j].mutex /\ ds[i].mutex # Null => i = j
  BY <1>3 DEF Nested
<1>8. Mutexed(ds) = Mutexed(cs)
  BY <1>2, <1>3 DEF Mutexed
<1> QED BY <1>2, <1>4, <1>5, <1>6, <1>7, <1>8 DEF Nested, ds

LEMMA TopStacks ==
  ASSUME NEW cs, NEW fr, NEW un, NEW rs, Stacks(cs, fr, un, rs), NEW a, Sound(a),
         a.kind = cs[Len(cs)].kind, a.mutex = cs[Len(cs)].mutex, a.err = cs[Len(cs)].err
  PROVE  /\ Stacks(TopAs(cs, a), fr, un, rs) /\ Mutexed(TopAs(cs, a)) = Mutexed(cs)
         /\ Last(TopAs(cs, a)) = a
<1>1. cs \in Seq(Activations) /\ Len(cs) > 0 /\ a \in Activations
  BY StackTypes DEF Sound
<1>2. /\ Len(TopAs(cs, a)) = Len(cs) /\ TopAs(cs, a)[Len(cs)] = a
      /\ \A i \in 1..Len(cs) : i # Len(cs) => TopAs(cs, a)[i] = cs[i]
  BY <1>1, ReplaceTop
<1>3. \A i \in 1..Len(cs) : TopAs(cs, a)[i].kind = cs[i].kind /\ TopAs(cs, a)[i].err = cs[i].err
  BY <1>2
<1>4. Aligned(TopAs(cs, a), fr, un, rs)
  BY <1>2, <1>3, SameAligned DEF Stacks
<1>5. Nested(TopAs(cs, a)) /\ Mutexed(TopAs(cs, a)) = Mutexed(cs)
  BY <1>1, TopNested DEF Stacks
<1> QED BY <1>2, <1>4, <1>5 DEF Stacks, Last

\* A new frame on top.
LEMMA PushMutexed ==
  ASSUME NEW cs \in Seq(Activations), NEW a \in Activations
  PROVE  Mutexed(Append(cs, a)) = Mutexed(cs) \cup ({a.mutex} \ {Null})
<1>1. Len(cs) \in Nat
  BY LenNat
<1>2. /\ Len(Append(cs, a)) = Len(cs) + 1 /\ Append(cs, a)[Len(cs) + 1] = a
      /\ \A i \in 1..Len(cs) : Append(cs, a)[i] = cs[i]
  BY PushSeq
<1>3. \A i : i \in 1..(Len(cs) + 1) <=> i \in 1..Len(cs) \/ i = Len(cs) + 1
  BY <1>1
<1> DEFINE ds == Append(cs, a)
<1>4. Len(ds) = Len(cs) + 1 /\ ds[Len(cs) + 1] = a /\ \A i \in 1..Len(cs) : ds[i] = cs[i]
  BY <1>2
<1> HIDE DEF ds
<1>5. {ds[i].mutex : i \in 1..(Len(cs) + 1)} = {cs[i].mutex : i \in 1..Len(cs)} \cup {a.mutex}
  BY <1>3, <1>4
<1>6. Mutexed(ds) = Mutexed(cs) \cup ({a.mutex} \ {Null})
  <2>1. Mutexed(ds) = {ds[i].mutex : i \in 1..(Len(cs) + 1)} \ {Null}
    BY <1>4 DEF Mutexed
  <2> QED BY <1>5, <2>1 DEF Mutexed
<1> QED BY ONLY <1>6 DEF ds

LEMMA LastPushed == \A S : \A s \in Seq(S), x \in S : Last(Append(s, x)) = x
BY DEF Last

LEMMA PushRegisterStacks ==
  ASSUME NEW cs, NEW fr, NEW un, NEW rs, Stacks(cs, fr, un, rs), Len(cs) < MaxCalls, Idle(cs[Len(cs)]),
         NEW a, Sound(a), Registers(a), a.kind # "fn" => cs[Len(cs)].kind = "fn", a.mutex = Null,
         NEW h, h = Len(cs) + 1
  PROVE  /\ Stacks(Append(cs, a), fr, Append(un, h), rs) /\ Mutexed(Append(cs, a)) = Mutexed(cs)
         /\ Last(Append(cs, a)) = a
<1>1. cs \in Seq(Activations) /\ Len(cs) \in Nat /\ Len(cs) > 0 /\ MaxCalls \in Nat /\ a \in Activations
  BY StackTypes DEF Sound
<1>2. Nested(Append(cs, a))
  BY <1>1, PushNested DEF Stacks
<1>3. Aligned(Append(cs, a), fr, Append(un, h), rs)
  BY <1>1, PushRegister DEF Stacks
<1>4. Len(Append(cs, a)) = Len(cs) + 1
  BY <1>1, PushSeq
<1>5. Len(Append(cs, a)) \in 1..MaxCalls
  BY <1>1, <1>4
<1>6. Mutexed(Append(cs, a)) = Mutexed(cs)
  <2>1. Mutexed(Append(cs, a)) = Mutexed(cs) \cup ({a.mutex} \ {Null})
    BY <1>1, PushMutexed
  <2> QED BY <2>1
<1> QED BY <1>1, <1>2, <1>3, <1>5, <1>6, LastPushed DEF Stacks

LEMMA PushCatchStacks ==
  ASSUME NEW cs, NEW fr, NEW un, NEW rs, Stacks(cs, fr, un, rs), Len(cs) < MaxCalls, Idle(cs[Len(cs)]),
         Len(fr) < MaxTry, NEW a, Sound(a), Catches(a), cs[Len(cs)].kind = "fn",
         a.mutex # Null => a.mutex \notin Mutexed(cs),
         NEW f, f = [act |-> Len(cs) + 1, unwind |-> Len(un), resources |-> Len(rs)]
  PROVE  /\ Stacks(Append(cs, a), Append(fr, f), un, rs)
         /\ Mutexed(Append(cs, a)) = Mutexed(cs) \cup ({a.mutex} \ {Null})
         /\ Last(Append(cs, a)) = a
<1>1. /\ cs \in Seq(Activations) /\ Len(cs) \in Nat /\ Len(cs) > 0 /\ MaxCalls \in Nat /\ MaxTry \in Nat
      /\ a \in Activations /\ fr \in Seq(Frames) /\ Len(fr) \in Nat /\ Len(un) \in Nat /\ Len(rs) \in Nat
  BY StackTypes DEF Sound
<1>2. Nested(Append(cs, a))
  BY <1>1, PushNested DEF Stacks
<1>3. f \in Frames /\ f.act = Len(cs) + 1 /\ f.unwind = Len(un) /\ f.resources = Len(rs)
  BY <1>1 DEF Frames
<1>4. Aligned(Append(cs, a), Append(fr, f), un, rs)
  BY <1>1, <1>3, PushCatch DEF Stacks
<1>5. Len(Append(cs, a)) = Len(cs) + 1 /\ Len(Append(fr, f)) = Len(fr) + 1
  BY <1>1, <1>3, PushSeq
<1>6. Len(Append(cs, a)) \in 1..MaxCalls /\ Len(Append(fr, f)) <= MaxTry
  BY <1>1, <1>5
<1>7. Mutexed(Append(cs, a)) = Mutexed(cs) \cup ({a.mutex} \ {Null})
  BY <1>1, PushMutexed
<1> QED BY <1>1, <1>2, <1>4, <1>6, <1>7, LastPushed DEF Stacks

\* The frame on top is gone.
LEMMA CutMutexed ==
  ASSUME NEW cs, Nested(cs), Len(cs) > 0
  PROVE  Mutexed(Under(cs)) = Mutexed(cs) \ {cs[Len(cs)].mutex}
<1>1. cs \in Seq(Activations) /\ Len(cs) \in Nat /\ Len(cs) \in 1..Len(cs) /\ Len(cs) - 1 \in 0..Len(cs)
  BY LenNat DEF Nested
<1>2. Len(Under(cs)) = Len(cs) - 1 /\ \A i \in 1..(Len(cs) - 1) : Under(cs)[i] = cs[i]
  BY <1>1, CutSeq DEF Under
<1>3. \A i : i \in 1..Len(cs) <=> i \in 1..(Len(cs) - 1) \/ i = Len(cs)
  BY <1>1
<1>4. \A i \in 1..(Len(cs) - 1) : i # Len(cs) /\ i \in 1..Len(cs)
  BY <1>1
<1>5. \A i \in 1..(Len(cs) - 1) : cs[i].mutex = cs[Len(cs)].mutex => cs[i].mutex = Null
  BY <1>1, <1>4 DEF Nested
<1>6. Mutexed(Under(cs)) = {cs[i].mutex : i \in 1..(Len(cs) - 1)} \ {Null}
  BY <1>2 DEF Mutexed
<1> QED BY <1>3, <1>5, <1>6 DEF Mutexed

LEMMA PopRegisterStacks ==
  ASSUME NEW cs, NEW fr, NEW un, NEW rs, Stacks(cs, fr, un, rs), Len(cs) > 1, Registers(cs[Len(cs)]),
         \A i \in 1..Len(rs) : rs[i].act # Len(cs)
  PROVE  /\ Stacks(Under(cs), fr, Front(un), rs) /\ Mutexed(Under(cs)) = Mutexed(cs)
         /\ Len(Under(cs)) = Len(cs) - 1 /\ Idle(Last(Under(cs)))
         /\ \A i \in 1..(Len(cs) - 1) : Under(cs)[i] = cs[i]
<1>1. cs \in Seq(Activations) /\ Len(cs) \in Nat /\ MaxCalls \in Nat /\ Sound(cs[Len(cs)]) /\ Len(cs) > 0
  BY StackTypes
<1>2. Len(cs) - 1 \in 0..Len(cs) /\ Len(cs) - 1 > 0 /\ Len(cs) - 1 < Len(cs)
  BY <1>1
<1>3. Nested(Under(cs)) /\ Idle(Under(cs)[Len(cs) - 1])
  BY <1>2, CutNested DEF Under, Stacks
<1>4. Len(Under(cs)) = Len(cs) - 1 /\ \A i \in 1..(Len(cs) - 1) : Under(cs)[i] = cs[i]
  BY <1>1, <1>2, CutSeq DEF Under
<1>5. Aligned(Under(cs), fr, Front(un), rs)
  BY <1>1, PopRegister DEF Under, Front, Stacks
<1>6. Len(Under(cs)) \in 1..MaxCalls
  BY <1>1, <1>2, <1>4 DEF Stacks
<1>7. cs[Len(cs)].mutex = Null
  BY <1>1 DEF Sound, Registers
<1>8. Mutexed(Under(cs)) = Mutexed(cs)
  BY <1>1, <1>7, CutMutexed DEF Stacks, Mutexed
<1> QED BY <1>3, <1>4, <1>5, <1>6, <1>8 DEF Stacks, Last

LEMMA PopCatchStacks ==
  ASSUME NEW cs, NEW fr, NEW un, NEW rs, Stacks(cs, fr, un, rs), Len(cs) > 1, Catches(cs[Len(cs)])
  PROVE  /\ Stacks(Under(cs), Front(fr), un, rs) /\ Mutexed(Under(cs)) = Mutexed(cs) \ {cs[Len(cs)].mutex}
         /\ Len(Under(cs)) = Len(cs) - 1 /\ Idle(Last(Under(cs)))
         /\ \A i \in 1..(Len(cs) - 1) : Under(cs)[i] = cs[i]
<1>1. /\ cs \in Seq(Activations) /\ Len(cs) \in Nat /\ MaxCalls \in Nat /\ Len(cs) > 0
      /\ fr \in Seq(Frames) /\ Len(fr) \in Nat /\ MaxTry \in Nat
  BY StackTypes
<1>2. Len(cs) - 1 \in 0..Len(cs) /\ Len(cs) - 1 > 0 /\ Len(cs) - 1 < Len(cs)
  BY <1>1
<1>3. Nested(Under(cs)) /\ Idle(Under(cs)[Len(cs) - 1])
  BY <1>2, CutNested DEF Under, Stacks
<1>4. Len(Under(cs)) = Len(cs) - 1 /\ \A i \in 1..(Len(cs) - 1) : Under(cs)[i] = cs[i]
  BY <1>1, <1>2, CutSeq DEF Under
<1>5. Aligned(Under(cs), Front(fr), un, rs) /\ Len(fr) > 0
  BY <1>1, PopCatch DEF Under, Front, Stacks
<1>6. Len(Under(cs)) \in 1..MaxCalls
  BY <1>1, <1>2, <1>4 DEF Stacks
<1>7. Len(Front(fr)) <= MaxTry
  <2>1. Len(fr) - 1 \in 0..Len(fr)
    BY <1>1, <1>5
  <2>2. Len(Front(fr)) = Len(fr) - 1
    BY <1>1, <2>1, CutSeq DEF Front
  <2>3. Len(fr) <= MaxTry
    BY DEF Stacks
  <2> QED BY <1>1, <2>2, <2>3
<1>8. Mutexed(Under(cs)) = Mutexed(cs) \ {cs[Len(cs)].mutex}
  BY <1>1, CutMutexed DEF Stacks
<1> QED BY <1>3, <1>4, <1>5, <1>6, <1>7, <1>8 DEF Stacks, Last

LEMMA Fresh ==
  ASSUME NEW kind \in Kinds, NEW words \in Seq(Values), NEW m \in Mutexes \cup {Null}
  PROVE  /\ Activation(kind, words, m) \in Activations
         /\ Activation(kind, words, m).kind = kind /\ Activation(kind, words, m).words = words
         /\ Activation(kind, words, m).mutex = m /\ Activation(kind, words, m).err = Null
         /\ Activation(kind, words, m).code = "none"
BY DEF Activation, Activations, Codes

\* What a jump makes of the frame that waited for it.
LEMMA LandedSound ==
  ASSUME NEW a, Sound(a), Idle(a), Catches(a), NEW v \in Values
  PROVE  /\ Sound(Landed(a, v)) /\ Landed(a, v) \in Activations
         /\ ~Catches(Landed(a, v)) /\ Landed(a, v).kind # "fn" /\ Landed(a, v).mutex = a.mutex
         /\ Landed(a, v).code = "none"
         /\ a.kind = "try" => Registers(Landed(a, v))
         /\ a.kind # "try" => ~Registers(Landed(a, v))
<1> DEFINE b == Landed(a, v)
<1>1. v # Null /\ a \in Activations
  BY NullAssumption DEF Sound
<1>2. CASE a.kind = "try"
  <2>1. <<v>> \in Seq(Values) /\ Len(<<v>>) > 0
    OBVIOUS
  <2>2. b = Activation("handler", <<v>>, Null)
    BY <1>2 DEF Landed
  <2>3. /\ b \in Activations /\ b.kind = "handler" /\ b.words = <<v>> /\ b.mutex = Null
        /\ b.err = Null /\ b.code = "none"
    <3>1. "handler" \in Kinds /\ Null \in Mutexes \cup {Null}
      BY DEF Kinds
    <3> DEFINE c == Activation("handler", <<v>>, Null)
    <3>2. /\ c \in Activations /\ c.kind = "handler" /\ c.words = <<v>> /\ c.mutex = Null
          /\ c.err = Null /\ c.code = "none"
      BY <2>1, <3>1 DEF Activation, Activations, Codes
    <3> HIDE DEF c
    <3>3. b = c
      BY <2>2 DEF c
    <3> HIDE DEF b
    <3> QED BY <3>2, <3>3
  <2>4. a.mutex = Null
    BY <1>2 DEF Sound
  <2> HIDE DEF b
  <2>5. Sound(b) /\ ~Catches(b) /\ b.kind # "fn" /\ b.mutex = a.mutex /\ b.code = "none" /\ Registers(b)
    BY <2>1, <2>3, <2>4 DEF Sound, Catches, Registers
  <2> QED BY <1>2, <2>3, <2>5 DEF b
<1>3. CASE a.kind # "try"
  <2>1. a.kind = "lock"
    BY <1>3 DEF Catches
  <2>2. b = [a EXCEPT !.err = v]
    BY <1>3 DEF Landed
  <2>3. /\ b \in Activations /\ b.kind = "lock" /\ b.words = a.words /\ b.mutex = a.mutex
        /\ b.err = v /\ b.code = "none"
    BY <1>1, <2>1, <2>2 DEF Activations, Idle
  <2> HIDE DEF b
  <2>4. Sound(b) /\ ~Catches(b) /\ ~Registers(b)
    BY <1>1, <2>1, <2>3 DEF Sound, Catches, Registers
  <2> QED BY <1>3, <2>3, <2>4 DEF b
<1> QED BY <1>2, <1>3

\* The native stack and UNWIND after a jump to f.
Jumped(cs, un, f, v, ds, vn) ==
  LET below == SubSeq(un, 1, f.unwind)
  IN /\ ds = Append(SubSeq(cs, 1, f.act - 1), Landed(cs[f.act], v))
     /\ vn = IF cs[f.act].kind = "try" THEN Append(below, f.act) ELSE below

\* A jump: the native stack below the innermost frame that waits, and what
\* that frame becomes.
LEMMA JumpStacks ==
  ASSUME NEW cs, NEW fr, NEW un, NEW rs, Stacks(cs, fr, un, rs), ~Catches(cs[Len(cs)]),
         NEW v \in Values, NEW f, Innermost(fr, f), NEW ds, NEW vn, Jumped(cs, un, f, v, ds, vn)
  PROVE  /\ Stacks(ds, Front(fr), vn, SubSeq(rs, 1, f.resources))
         /\ Mutexed(ds) = Mutexed(cs) \ {cs[Len(cs)].mutex}
         /\ Last(ds).code = "none" /\ Last(ds) = Landed(cs[f.act], v) /\ Len(ds) = f.act
<1> DEFINE t == cs[f.act]
           b == Landed(t, v)
           bs == SubSeq(cs, 1, f.act - 1)
<1>1. /\ cs \in Seq(Activations) /\ Len(cs) \in Nat /\ Len(cs) > 0 /\ fr \in Seq(Frames)
      /\ Len(fr) \in Nat /\ MaxCalls \in Nat /\ MaxTry \in Nat /\ Len(cs) \in 1..Len(cs) /\ Len(fr) > 0
  BY StackTypes DEF Innermost
<1>2. /\ f \in Frames /\ f.act \in 1..Len(cs) /\ Catches(cs[f.act])
      /\ \A c \in 1..Len(cs) : Catches(cs[c]) => c <= f.act
      /\ Aligned(bs, Front(fr), SubSeq(un, 1, f.unwind), SubSeq(rs, 1, f.resources))
  <2>1. Aligned(cs, fr, un, rs)
    BY DEF Stacks
  <2> QED BY <1>1, <2>1, JumpAligned DEF Front
<1>3. f.act \in Nat /\ f.act < Len(cs) /\ f.act \in 1..(Len(cs) - 1)
  <2>1. f.act # Len(cs)
    BY <1>2
  <2> QED BY <1>1, <1>2, <2>1
<1>4. Sound(t) /\ Idle(t) /\ Catches(t)
  BY <1>2, <1>3 DEF Stacks, Nested
<1>5. /\ Sound(b) /\ b \in Activations /\ ~Catches(b) /\ b.kind # "fn" /\ b.mutex = t.mutex
      /\ b.code = "none" /\ (t.kind = "try" => Registers(b)) /\ (t.kind # "try" => ~Registers(b))
  BY <1>4, LandedSound
<1>6. f.act - 1 \in 0..Len(cs)
  BY <1>1, <1>3
<1>7. bs \in Seq(Activations) /\ Len(bs) = f.act - 1 /\ \A i \in 1..(f.act - 1) : bs[i] = cs[i]
  BY <1>1, <1>6, CutSeq
<1>8. Nested(bs) /\ (f.act - 1 > 0 => Idle(bs[f.act - 1]))
  <2>1. f.act - 1 < Len(cs)
    BY <1>1, <1>3
  <2> QED BY <1>6, <2>1, CutNested DEF Stacks
<1>9. /\ ds = Append(bs, b)
      /\ t.kind = "try" => vn = Append(SubSeq(un, 1, f.unwind), f.act)
      /\ t.kind # "try" => vn = SubSeq(un, 1, f.unwind)
  BY DEF Jumped
<1> HIDE DEF b, bs
<1>10. Len(bs) > 0 /\ bs[Len(bs)].kind = "fn"
  <2>1. t.kind # "fn"
    BY <1>4 DEF Catches
  <2>2. f.act > 1 /\ cs[f.act - 1].kind = "fn"
    BY <1>2, <2>1 DEF Stacks, Nested
  <2>3. f.act - 1 \in 1..(f.act - 1)
    BY <1>3, <2>2
  <2>4. bs[f.act - 1] = cs[f.act - 1] /\ Len(bs) = f.act - 1
    BY <1>7, <2>3
  <2>5. f.act - 1 > 0
    BY <1>3, <2>2
  <2> QED BY <2>2, <2>4, <2>5
<1>11. \A i \in 1..(f.act - 1) : i \in 1..Len(cs) /\ i # f.act
  BY <1>1, <1>3
<1>12. t.mutex # Null => t.mutex \notin Mutexed(bs)
  <2>1. \A i \in 1..(f.act - 1) : cs[i].mutex = t.mutex => t.mutex = Null
    BY <1>2, <1>11 DEF Stacks, Nested
  <2>2. Mutexed(bs) = {cs[i].mutex : i \in 1..(f.act - 1)} \ {Null}
    BY <1>7 DEF Mutexed
  <2> QED BY <2>1, <2>2
<1>13. Nested(ds)
  <2>1. Len(bs) > 0 => Idle(bs[Len(bs)])
    BY <1>7, <1>8
  <2> HIDE DEF t
  <2>2. Nested(Append(bs, b))
    BY <1>5, <1>8, <1>10, <1>12, <2>1, PushNested
  <2> QED BY <1>9, <2>2
<1>14. Len(ds) = f.act /\ Last(ds) = b
  <2>1. Len(ds) = Len(bs) + 1 /\ Last(ds) = b
    <3>1. Len(Append(bs, b)) = Len(bs) + 1 /\ Last(Append(bs, b)) = b
      BY <1>5, <1>7, PushSeq, LastPushed
    <3> QED BY <1>9, <3>1
  <2> QED BY <1>3, <1>7, <2>1
<1>15. Len(ds) \in 1..MaxCalls
  BY <1>1, <1>2, <1>3, <1>14 DEF Stacks
<1>16. Len(Front(fr)) <= MaxTry
  <2>1. Len(fr) - 1 \in 0..Len(fr)
    BY <1>1
  <2>2. Len(Front(fr)) = Len(fr) - 1
    BY <1>1, <2>1, CutSeq DEF Front
  <2>3. Len(fr) <= MaxTry
    BY DEF Stacks
  <2> QED BY <1>1, <2>2, <2>3
<1>17. Aligned(ds, Front(fr), vn, SubSeq(rs, 1, f.resources))
  <2>1. CASE t.kind = "try"
    <3>1. f.act = Len(bs) + 1
      BY <1>3, <1>7
    <3>2. Aligned(Append(bs, b), Front(fr), Append(SubSeq(un, 1, f.unwind), f.act), SubSeq(rs, 1, f.resources))
      BY <1>2, <1>5, <1>7, <2>1, <3>1, PushRegister
    <3> QED BY <1>9, <2>1, <3>2
  <2>2. CASE t.kind # "try"
    <3>1. Aligned(Append(bs, b), Front(fr), SubSeq(un, 1, f.unwind), SubSeq(rs, 1, f.resources))
      BY <1>2, <1>5, <1>7, <2>2, PushPlain
    <3> QED BY <1>9, <2>2, <3>1
  <2> QED BY <2>1, <2>2
<1>18. Mutexed(ds) = Mutexed(cs) \ {cs[Len(cs)].mutex}
  <2>1. Mutexed(ds) = Mutexed(bs) \cup ({t.mutex} \ {Null})
    BY <1>5, <1>7, <1>9, PushMutexed
  <2>2. \A i \in 1..Len(cs) : i \in 1..(f.act - 1) \/ i = f.act \/ (i > f.act /\ i \in 1..(Len(cs) - 1)) \/ i = Len(cs)
    BY <1>1, <1>3
  <2>3. ASSUME NEW i \in 1..(Len(cs) - 1), i > f.act PROVE cs[i].mutex = Null
    <3>1. i \in 1..Len(cs) /\ ~(i <= f.act)
      BY <1>1, <1>3, <2>3
    <3>2. ~Catches(cs[i]) /\ Idle(cs[i]) /\ Sound(cs[i])
      BY <1>2, <2>3, <3>1 DEF Stacks, Nested
    <3> QED BY <3>2 DEF Catches, Idle, Sound
  <2>4. \A i \in 1..Len(cs) : i # Len(cs) /\ cs[i].mutex = cs[Len(cs)].mutex => cs[i].mutex = Null
    BY <1>1 DEF Stacks, Nested
  <2>5. Mutexed(bs) = {cs[i].mutex : i \in 1..(f.act - 1)} \ {Null}
    BY <1>7 DEF Mutexed
  <2>6. ASSUME NEW x \in Mutexed(ds) PROVE x \in Mutexed(cs) \ {cs[Len(cs)].mutex}
    <3>1. PICK i \in 1..Len(cs) : x = cs[i].mutex /\ i # Len(cs)
      <4>1. CASE x = t.mutex
        BY <1>1, <1>2, <1>3, <4>1
      <4>2. CASE x \in Mutexed(bs)
        <5>1. PICK i \in 1..(f.act - 1) : x = cs[i].mutex
          BY <2>5, <4>2
        <5>2. i \in 1..Len(cs) /\ i # Len(cs)
          BY <1>1, <1>3, <5>1
        <5> QED BY <5>1, <5>2
      <4> QED BY <2>1, <2>6, <4>1, <4>2
    <3>2. x # Null
      BY <2>6 DEF Mutexed
    <3> QED BY <2>4, <3>1, <3>2 DEF Mutexed
  <2>7. ASSUME NEW x \in Mutexed(cs), x # cs[Len(cs)].mutex PROVE x \in Mutexed(ds)
    <3>1. PICK i \in 1..Len(cs) : x = cs[i].mutex /\ x # Null
      BY DEF Mutexed
    <3>2. i \in 1..(f.act - 1) \/ i = f.act
      BY <2>2, <2>3, <2>7, <3>1
    <3> QED BY <2>1, <2>5, <3>1, <3>2
  <2> QED BY <2>6, <2>7
<1> QED BY <1>5, <1>13, <1>14, <1>15, <1>16, <1>17, <1>18 DEF Stacks, b, t

-----------------------------------------------------------------------------
(* The steps                                                                 *)

LEMMA Facts ==
  ASSUME IInv
  PROVE  /\ calls \in Seq(Activations) /\ Here \in Nat /\ Here > 0 /\ Here = Len(calls)
         /\ Top = calls[Here] /\ Top \in Activations /\ Sound(Top) /\ Top.words \in Seq(Values)
         /\ Here \in 1..Here /\ frames \in Seq(Frames) /\ Len(frames) \in Nat
         /\ unwind \in Seq(Nat) /\ Len(unwind) \in Nat /\ resources \in Seq(Slots)
         /\ Len(resources) \in Nat /\ MaxCalls \in Nat /\ MaxTry \in Nat
         /\ Visible \subseteq Values /\ Null \notin Values /\ Null \notin Mutexes
<1>1. Stacks(calls, frames, unwind, resources)
  BY DEF IInv
<1>2. /\ calls \in Seq(Activations) /\ Len(calls) \in Nat /\ Len(calls) > 0 /\ Len(calls) \in 1..Len(calls)
      /\ frames \in Seq(Frames) /\ Len(frames) \in Nat
      /\ unwind \in Seq(Nat) /\ Len(unwind) \in Nat /\ resources \in Seq(Slots)
      /\ Len(resources) \in Nat /\ MaxCalls \in Nat /\ MaxTry \in Nat
  BY <1>1, StackTypes
<1>3. Sound(calls[Len(calls)]) /\ calls[Len(calls)] \in Activations
  BY <1>1, StackTypes
<1>4. Here = Len(calls) /\ Top = calls[Here]
  BY DEF Here, Top, Last
<1>5. \A a \in Activations : a.words \in Seq(Values)
  BY DEF Activations
<1>6. \A i \in 1..Len(calls) : calls[i].words \in Seq(Values)
  BY <1>2, <1>5
<1>7. \A ws \in Seq(Values) : ToSet(ws) \subseteq Values
  BY DEF ToSet
<1>8. Visible \subseteq Values
  <2>1. Here > 1 => Here - 1 \in 1..Len(calls)
    BY <1>2, <1>4
  <2>2. ToSet(Top.words) \subseteq Values /\ (Here > 1 => ToSet(calls[Here - 1].words) \subseteq Values)
    BY <1>2, <1>4, <1>6, <1>7, <2>1
  <2> QED BY <2>2 DEF Visible
<1> QED BY <1>2, <1>3, <1>4, <1>5, <1>8, NullAssumption

LEMMA Assemble ==
  ASSUME Types', Stacks(calls', frames', unwind', resources'), OpenOnce(resources', open'),
         pc' = "run" => locked' = Mutexed(calls'), returned' # Null => Last(calls').code = "return"
  PROVE  IInv'
BY DEF IInv, Top

LEMMA CountTypes ==
  /\ \A cnt \in [Values -> Int] : \A v \in Values : Retained(cnt, v) \in [Values -> Int]
  /\ \A cnt \in [Values -> Int] : \A times \in [Values -> Int] : Released(cnt, times) \in [Values -> Int]
BY DEF Retained, Released

LEMMA TimesType == \A ws \in Seq(Values) : Times(ws) \in [Values -> Nat]
<1> SUFFICES ASSUME NEW ws \in Seq(Values), NEW v \in Values
             PROVE  Cardinality({j \in DOMAIN ws : ws[j] = v}) \in Nat
  BY DEF Times
<1>1. Len(ws) \in Nat /\ DOMAIN ws = 1..Len(ws)
  BY LenNat
<1>2. IsFiniteSet(1..Len(ws))
  BY <1>1, FS_Interval
<1>3. {j \in DOMAIN ws : ws[j] = v} \subseteq 1..Len(ws)
  BY <1>1
<1>4. IsFiniteSet({j \in DOMAIN ws : ws[j] = v})
  BY <1>2, <1>3, FS_Subset
<1> QED BY <1>4, FS_CardinalityType

LEMMA ReleasedType ==
  \A cnt \in [Values -> Int] : \A ws \in Seq(Values) : Released(cnt, Times(ws)) \in [Values -> Int]
<1>1. \A ws \in Seq(Values) : Times(ws) \in [Values -> Int]
  BY TimesType
<1> QED BY <1>1, CountTypes

\* The frame on top runs, so no value waits in TRY_RETURN.
LEMMA Running ==
  ASSUME IInv, NEW kinds, Runs(kinds)
  PROVE  pc = "run" /\ Idle(calls[Len(calls)]) /\ returned = Null /\ Top.kind \in kinds /\ Top.code = "none"
BY Facts DEF Runs, IInv, Idle

LEMMA CallStep == ASSUME IInv, Call PROVE IInv'
<1> DEFINE a == Activation("fn", <<>>, Null)
<1>1. Runs({"fn", "new", "try", "handler", "lock"}) /\ Here < MaxCalls /\ calls' = Append(calls, a)
      /\ unwind' = Append(unwind, Here + 1)
      /\ UNCHANGED <<pc, frames, resources, open, locked, count, returned, stray>>
  BY DEF Call
<1>2. pc = "run" /\ Idle(calls[Len(calls)]) /\ returned = Null
  BY <1>1, Running
<1>3. Sound(a) /\ Registers(a) /\ a.mutex = Null /\ a.kind = "fn"
  <2>1. <<>> \in Seq(Values)
    OBVIOUS
  <2> QED BY <2>1 DEF Activation, Activations, Codes, Kinds, Sound, Registers
<1> HIDE DEF a
<1>4. Stacks(calls, frames, unwind, resources) /\ Len(calls) < MaxCalls /\ Here + 1 = Len(calls) + 1
  BY <1>1, Facts DEF IInv
<1>5. Stacks(calls', frames, unwind', resources) /\ Mutexed(calls') = Mutexed(calls)
  BY <1>1, <1>2, <1>3, <1>4, PushRegisterStacks
<1>6. Types'
  BY <1>1 DEF IInv, Types
<1> QED BY <1>1, <1>2, <1>5, <1>6, Assemble DEF IInv

LEMMA NewStep == ASSUME IInv, New PROVE IInv'
<1>1. PICK v \in Values :
        /\ Runs({"fn"}) /\ Here < MaxCalls /\ calls' = Append(calls, Activation("new", <<v>>, Null))
        /\ unwind' = Append(unwind, Here + 1) /\ count' = Retained(count, v)
        /\ UNCHANGED <<pc, frames, resources, open, locked, returned, stray>>
  BY DEF New
<1> DEFINE a == Activation("new", <<v>>, Null)
<1>2. pc = "run" /\ Idle(calls[Len(calls)]) /\ returned = Null /\ Top.kind = "fn"
  BY <1>1, Running
<1>3. Sound(a) /\ Registers(a) /\ a.mutex = Null
  <2>1. <<v>> \in Seq(Values)
    OBVIOUS
  <2> QED BY <2>1 DEF Activation, Activations, Codes, Kinds, Sound, Registers
<1> HIDE DEF a
<1>4. calls' = Append(calls, a)
  BY <1>1 DEF a
<1>5. Stacks(calls, frames, unwind, resources) /\ Len(calls) < MaxCalls /\ Here + 1 = Len(calls) + 1
      /\ calls[Len(calls)].kind = "fn"
  BY <1>1, <1>2, Facts DEF IInv
<1>6. Stacks(calls', frames, unwind', resources) /\ Mutexed(calls') = Mutexed(calls)
  BY <1>1, <1>2, <1>3, <1>4, <1>5, PushRegisterStacks
<1>7. Types'
  BY <1>1, CountTypes DEF IInv, Types
<1> QED BY <1>1, <1>2, <1>6, <1>7, Assemble DEF IInv

\* One word more in the function on top.
LEMMA WordStep ==
  ASSUME IInv, NewLocal \/ Bind
  PROVE  IInv'
<1>1. PICK v \in Values :
        /\ Runs({"fn"}) /\ calls' = [calls EXCEPT ![Here].words = Append(@, v)] /\ count' = Retained(count, v)
        /\ UNCHANGED <<pc, frames, unwind, resources, open, locked, returned, stray>>
  BY Facts DEF NewLocal, Bind
<1> DEFINE a == [Top EXCEPT !.words = Append(@, v)]
<1>2. pc = "run" /\ returned = Null /\ Top.kind = "fn"
  BY <1>1, Running
<1>3. Sound(a) /\ a.kind = Top.kind /\ a.mutex = Top.mutex /\ a.err = Top.err
  <2>1. Append(Top.words, v) \in Seq(Values)
    BY Facts
  <2> QED BY <1>2, <2>1, Facts DEF Activations, Sound
<1>4. calls' = TopAs(calls, a)
  BY <1>1, Facts DEF TopAs
<1> HIDE DEF a
<1>5. Stacks(calls', frames, unwind, resources) /\ Mutexed(calls') = Mutexed(calls)
  BY <1>3, <1>4, Facts, TopStacks DEF IInv
<1>6. Types'
  BY <1>1, CountTypes DEF IInv, Types
<1> QED BY <1>1, <1>2, <1>5, <1>6, Assemble DEF IInv

LEMMA OpenStep == ASSUME IInv, Open PROVE IInv'
<1>1. PICK r \in Resources \ open :
        /\ Runs({"fn"}) /\ open' = open \cup {r} /\ resources' = Append(resources, [res |-> r, act |-> Here])
        /\ UNCHANGED <<pc, calls, frames, unwind, locked, count, returned, stray>>
  BY DEF Open
<1> DEFINE e == [res |-> r, act |-> Here]
<1>2. e \in Slots /\ e.res = r /\ e.act = Len(calls)
  BY Facts DEF Slots
<1>3. pc = "run" /\ returned = Null /\ calls[Len(calls)].kind = "fn"
  BY <1>1, Running, Facts
<1>4. resources' = Append(resources, e)
  BY <1>1
<1> HIDE DEF e
<1>5. Aligned(calls, frames, unwind, resources')
  BY <1>2, <1>3, <1>4, PushSlot, Facts DEF IInv, Stacks
<1>6. OpenOnce(resources', open')
  <2>1. OpenOnce(Append(resources, e), open \cup {e.res})
    BY <1>1, <1>2, PushOpen, Facts DEF IInv
  <2> QED BY <1>1, <1>2, <1>4, <2>1
<1>7. Stacks(calls', frames', unwind', resources')
  BY <1>1, <1>5 DEF IInv, Stacks
<1>8. Types'
  BY <1>1 DEF IInv, Types
<1> QED BY <1>1, <1>3, <1>6, <1>7, <1>8, Assemble DEF IInv

\* The function on top closes some of its resources.
LEMMA Dropped ==
  ASSUME IInv, NEW S, S \subseteq Own
  PROVE  /\ Stacks(calls, frames, unwind, OthersOf(S)) /\ OpenOnce(OthersOf(S), open \ S)
         /\ S = Own => \A i \in 1..Len(OthersOf(S)) : OthersOf(S)[i].act # Len(calls)
<1>1. resources \in Seq(Slots) /\ Here = Len(calls) /\ calls \in Seq(Activations)
  BY Facts
<1>2. Spares(resources, Len(resources), S, OthersOf(S))
  BY <1>1, OthersSpare
<1>3. Own = At(resources, Len(calls))
  <2>1. DOMAIN resources = 1..Len(resources)
    BY <1>1
  <2> QED BY <1>1, <2>1 DEF Own, ToSet, At
<1>4. OpenOnce(resources, open) /\ Aligned(calls, frames, unwind, resources)
  BY DEF IInv, Stacks
<1>5. \A i \in 1..Len(resources) : resources[i].res \in S => resources[i].act = Len(calls)
  <2> SUFFICES ASSUME NEW i \in 1..Len(resources), resources[i].res \in S PROVE resources[i].act = Len(calls)
    OBVIOUS
  <2>1. PICK j \in 1..Len(resources) : resources[j].act = Len(calls) /\ resources[j].res = resources[i].res
    BY <1>3 DEF At
  <2>2. \A x, y \in 1..Len(resources) : resources[x].res = resources[y].res => x = y
    BY <1>4 DEF OpenOnce
  <2>3. i = j
    BY <2>1, <2>2
  <2> QED BY <2>1, <2>3
<1>6. Aligned(calls, frames, unwind, OthersOf(S))
  BY <1>1, <1>2, <1>4, <1>5, DropAligned
<1>7. OpenOnce(OthersOf(S), open \ S)
  BY <1>1, <1>2, <1>4, DropOpen
<1>8. ASSUME S = Own PROVE \A i \in 1..Len(OthersOf(S)) : OthersOf(S)[i].act # Len(calls)
  <2> DEFINE qs == OthersOf(S)
  <2>1. S = At(resources, Len(calls))
    BY <1>3, <1>8
  <2>2. Spares(resources, Len(resources), At(resources, Len(calls)), qs)
    BY <1>2, <2>1
  <2> HIDE DEF qs
  <2>3. \A i \in 1..Len(qs) : qs[i].act # Len(calls)
    BY <1>1, <1>4, <2>2, DropOwn
  <2> QED BY <2>3 DEF qs
<1> QED BY <1>6, <1>7, <1>8 DEF IInv, Stacks

LEMMA CloseStep == ASSUME IInv, Close PROVE IInv'
<1>1. PICK r \in Own :
        /\ Runs({"fn"}) /\ open' = open \ {r} /\ resources' = OthersOf({r})
        /\ UNCHANGED <<pc, calls, frames, unwind, locked, count, returned, stray>>
  BY DEF Close
<1>2. Stacks(calls, frames, unwind, resources') /\ OpenOnce(resources', open')
  <2>1. {r} \subseteq Own
    OBVIOUS
  <2>2. Stacks(calls, frames, unwind, OthersOf({r})) /\ OpenOnce(OthersOf({r}), open \ {r})
    BY <2>1, Dropped
  <2> QED BY <1>1, <2>2
<1>3. pc = "run" /\ returned = Null
  BY <1>1, Running
<1>4. Types'
  BY <1>1 DEF IInv, Types
<1>5. Stacks(calls', frames', unwind', resources')
  BY <1>1, <1>2
<1> QED BY <1>1, <1>2, <1>3, <1>4, <1>5, Assemble DEF IInv

\* The function on top is left: what remains below it.
LEMMA LeaveStacks ==
  ASSUME IInv, Here > 1, Top.kind = "fn", NEW cnt, LeaveFunction(cnt)
  PROVE  /\ Stacks(Under(calls), frames, unwind', resources') /\ OpenOnce(resources', open')
         /\ Mutexed(Under(calls)) = Mutexed(calls) /\ Idle(Last(Under(calls)))
         /\ Front(calls) = Under(calls) /\ Last(Under(calls)) = calls[Here - 1]
         /\ Len(Under(calls)) = Here - 1 /\ Here - 1 \in 1..Here
         /\ \A i \in 1..(Here - 1) : Under(calls)[i] = calls[i]
<1>1. unwind' = Front(unwind) /\ open' = open \ Own /\ resources' = OthersOf(Own)
  BY DEF LeaveFunction
<1>2. /\ Stacks(calls, frames, unwind, resources') /\ OpenOnce(resources', open')
      /\ \A i \in 1..Len(resources') : resources'[i].act # Len(calls)
  BY <1>1, Dropped
<1>3. Len(calls) > 1 /\ Here = Len(calls) /\ Here \in Nat /\ Registers(calls[Len(calls)])
  BY Facts DEF Registers
<1>4. /\ Stacks(Under(calls), frames, Front(unwind), resources')
      /\ Mutexed(Under(calls)) = Mutexed(calls)
      /\ Len(Under(calls)) = Len(calls) - 1 /\ Idle(Last(Under(calls)))
      /\ \A i \in 1..(Len(calls) - 1) : Under(calls)[i] = calls[i]
  BY <1>2, <1>3, PopRegisterStacks
<1>5. Here - 1 \in 1..(Here - 1) /\ Here - 1 \in 1..Here
  BY <1>3
<1>6. Front(calls) = Under(calls)
  BY DEF Front, Under
<1>7. Last(Under(calls)) = calls[Here - 1]
  BY <1>3, <1>4, <1>5 DEF Last
<1> QED BY <1>1, <1>2, <1>3, <1>4, <1>5, <1>6, <1>7

\* The function on top is left with this code.
LEMMA PoppedStacks ==
  ASSUME IInv, Here > 1, Top.kind = "fn", NEW cnt, LeaveFunction(cnt), NEW code \in Codes,
         calls' = Popped(code), calls[Here - 1].kind \in {"new", "lock"} => code \in {"none", "normal"}
  PROVE  /\ Stacks(calls', frames', unwind', resources') /\ OpenOnce(resources', open')
         /\ Mutexed(calls') = Mutexed(calls)
         /\ calls[Here - 1].kind # "fn" => Last(calls').code = code
<1>1. /\ Stacks(Under(calls), frames, unwind', resources') /\ OpenOnce(resources', open')
      /\ Mutexed(Under(calls)) = Mutexed(calls) /\ Idle(Last(Under(calls)))
      /\ Front(calls) = Under(calls) /\ Last(Under(calls)) = calls[Here - 1]
      /\ Len(Under(calls)) = Here - 1 /\ Here - 1 \in 1..Here
  BY LeaveStacks
<1>2. frames' = frames
  BY DEF LeaveFunction
<1>3. CASE calls[Here - 1].kind = "fn"
  BY <1>1, <1>2, <1>3 DEF Popped
<1>4. CASE calls[Here - 1].kind # "fn"
  <2> DEFINE below == calls[Here - 1]
             a == [below EXCEPT !.code = code]
  <2>1. below \in Activations /\ Sound(below) /\ below = Under(calls)[Len(Under(calls))]
    <3>1. Here = Len(calls)
      BY Facts
    <3>2. Sound(below)
      BY <1>1, <3>1 DEF IInv, Stacks, Nested
    <3> QED BY <1>1, <3>2 DEF Sound, Last
  <2>2. below.err = Null
    BY <1>1 DEF Idle
  <2>3. Sound(a) /\ a.kind = below.kind /\ a.mutex = below.mutex /\ a.err = below.err /\ a.code = code
    BY <1>4, <2>1, <2>2 DEF Activations, Sound
  <2>4. calls' = TopAs(Under(calls), a)
    <3>1. calls' = [Under(calls) EXCEPT ![Here - 1].code = code]
      BY <1>1, <1>4 DEF Popped
    <3>2. Under(calls)[Here - 1] = below
      BY <1>1, <2>1
    <3> QED BY <1>1, <3>1, <3>2 DEF TopAs
  <2> HIDE DEF a, below
  <2>5. Stacks(calls', frames, unwind', resources') /\ Mutexed(calls') = Mutexed(Under(calls)) /\ Last(calls') = a
    BY <1>1, <2>1, <2>3, <2>4, TopStacks
  <2> QED BY <1>1, <1>2, <2>3, <2>5
<1> QED BY <1>3, <1>4

LEMMA LeaveTypes ==
  ASSUME IInv, NEW cnt \in [Values -> Int], LeaveFunction(cnt), pc' = pc \/ pc' = "run",
         returned' \in Values \cup {Null}
  PROVE  Types'
<1>1. count' \in [Values -> Int]
  BY Facts, ReleasedType DEF LeaveFunction
<1> QED BY <1>1 DEF IInv, Types, LeaveFunction

LEMMA InTryAbove == ASSUME IInv, InTry PROVE Here > 1 /\ calls[Here - 1].kind \in {"try", "handler"}
BY DEF InTry

LEMMA ReturnStep == ASSUME IInv, Return PROVE IInv'
<1>1. /\ Runs({"fn"}) /\ Here > 1 /\ LeaveFunction(count) /\ calls' = Popped("normal") /\ returned' = returned
  BY DEF Return
<1>2. pc = "run" /\ returned = Null /\ Top.kind = "fn"
  BY <1>1, Running
<1>3. /\ Stacks(calls', frames', unwind', resources') /\ OpenOnce(resources', open')
      /\ Mutexed(calls') = Mutexed(calls)
  BY <1>1, <1>2, PoppedStacks DEF Codes
<1>4. pc' = pc /\ locked' = locked
  BY <1>1 DEF LeaveFunction
<1>5. count \in [Values -> Int] /\ returned \in Values \cup {Null}
  BY DEF IInv, Types
<1>6. Types'
  BY <1>1, <1>4, <1>5, LeaveTypes
<1> QED BY <1>1, <1>2, <1>3, <1>4, <1>6, Assemble DEF IInv

LEMMA ReturnInTryStep == ASSUME IInv, ReturnInTry PROVE IInv'
<1>1. PICK v \in Visible :
        /\ Runs({"fn"}) /\ InTry /\ LeaveFunction(Retained(count, v))
        /\ calls' = Popped("return") /\ returned' = v
  BY DEF ReturnInTry
<1>2. pc = "run" /\ Top.kind = "fn"
  BY <1>1, Running
<1>3. Here > 1 /\ calls[Here - 1].kind \in {"try", "handler"}
  BY <1>1, InTryAbove
<1>4. /\ Stacks(calls', frames', unwind', resources') /\ OpenOnce(resources', open')
      /\ Mutexed(calls') = Mutexed(calls) /\ Last(calls').code = "return"
  <2>1. calls[Here - 1].kind # "fn" /\ calls[Here - 1].kind \notin {"new", "lock"} /\ "return" \in Codes
    BY <1>3 DEF Codes
  <2> QED BY <1>1, <1>2, <1>3, <2>1, PoppedStacks
<1>5. pc' = pc /\ locked' = locked
  BY <1>1 DEF LeaveFunction
<1>6. v \in Values
  BY <1>1, Facts
<1>7. Retained(count, v) \in [Values -> Int]
  BY <1>6, CountTypes DEF IInv, Types
<1>8. Types'
  BY <1>1, <1>5, <1>6, <1>7, LeaveTypes
<1> QED BY <1>2, <1>4, <1>5, <1>8, Assemble DEF IInv

LEMMA ExitInTryStep == ASSUME IInv, ExitInTry PROVE IInv'
<1>1. PICK code \in {"return", "break"} :
        /\ Runs({"fn"}) /\ InTry /\ LeaveFunction(count) /\ calls' = Popped(code) /\ returned' = returned
  BY DEF ExitInTry
<1>2. pc = "run" /\ returned = Null /\ Top.kind = "fn"
  BY <1>1, Running
<1>3. Here > 1 /\ calls[Here - 1].kind \in {"try", "handler"}
  BY <1>1, InTryAbove
<1>4. /\ Stacks(calls', frames', unwind', resources') /\ OpenOnce(resources', open')
      /\ Mutexed(calls') = Mutexed(calls)
  <2>1. calls[Here - 1].kind \notin {"new", "lock"} /\ code \in Codes
    BY <1>3 DEF Codes
  <2> QED BY <1>1, <1>2, <1>3, <2>1, PoppedStacks
<1>5. pc' = pc /\ locked' = locked
  BY <1>1 DEF LeaveFunction
<1>6. count \in [Values -> Int] /\ returned \in Values \cup {Null}
  BY DEF IInv, Types
<1>7. Types'
  BY <1>1, <1>5, <1>6, LeaveTypes
<1> QED BY <1>1, <1>2, <1>4, <1>5, <1>7, Assemble DEF IInv

LEMMA PassOnStep == ASSUME IInv, PassOn PROVE IInv'
<1>1. /\ Back({"fn"}) /\ InTry /\ LeaveFunction(count) /\ calls' = Popped(Top.code) /\ returned' = returned
  BY DEF PassOn
<1>2. pc = "run" /\ Top.kind = "fn" /\ Top.code \in Codes
  BY <1>1, Facts DEF Back, Activations
<1>3. Here > 1 /\ calls[Here - 1].kind \in {"try", "handler"}
  BY <1>1, InTryAbove
<1>4. /\ Stacks(calls', frames', unwind', resources') /\ OpenOnce(resources', open')
      /\ Mutexed(calls') = Mutexed(calls) /\ Last(calls').code = Top.code
  <2>1. calls[Here - 1].kind # "fn" /\ calls[Here - 1].kind \notin {"new", "lock"}
    BY <1>3
  <2> QED BY <1>1, <1>2, <1>3, <2>1, PoppedStacks
<1>5. pc' = pc /\ locked' = locked
  BY <1>1 DEF LeaveFunction
<1>6. count \in [Values -> Int] /\ returned \in Values \cup {Null}
  BY DEF IInv, Types
<1>7. Types'
  BY <1>1, <1>5, <1>6, LeaveTypes
<1>8. returned' # Null => Last(calls').code = "return"
  BY <1>1, <1>4 DEF IInv
<1> QED BY <1>2, <1>4, <1>5, <1>7, <1>8, Assemble DEF IInv

\* A return that comes out of its tries: the caller keeps the value, or drops it.
LEMMA ReturnFromTryStep == ASSUME IInv, ReturnFromTry PROVE IInv'
<1> DEFINE value == IF returned = Null THEN <<>> ELSE <<returned>>
<1>1. PICK keeps \in BOOLEAN :
        /\ Back({"fn"}) /\ ~InTry /\ Here > 1
        /\ keeps => calls[Here - 1].kind = "fn"
        /\ LeaveFunction(IF keeps THEN count ELSE Released(count, Times(value)))
        /\ calls' = IF keeps THEN [Front(calls) EXCEPT ![Here - 1].words = @ \o value] ELSE Popped("normal")
        /\ returned' = Null
  BY DEF ReturnFromTry
<1>2. pc = "run" /\ Top.kind = "fn"
  BY <1>1 DEF Back
<1>3. value \in Seq(Values)
  BY DEF IInv, Types
<1> HIDE DEF value
<1> DEFINE cnt == IF keeps THEN count ELSE Released(count, Times(value))
<1>4. cnt \in [Values -> Int]
  BY <1>3, ReleasedType DEF IInv, Types
<1>5. LeaveFunction(cnt)
  BY <1>1
<1> HIDE DEF cnt
<1>6. pc' = pc /\ locked' = locked
  BY <1>5 DEF LeaveFunction
<1>7. Types'
  BY <1>1, <1>4, <1>5, <1>6, LeaveTypes
<1>8. CASE ~keeps
  <2>1. /\ Stacks(calls', frames', unwind', resources') /\ OpenOnce(resources', open')
        /\ Mutexed(calls') = Mutexed(calls)
    BY <1>1, <1>2, <1>5, <1>8, PoppedStacks DEF Codes
  <2> QED BY <1>1, <1>2, <1>6, <1>7, <2>1, Assemble DEF IInv
<1>9. CASE keeps
  <2> DEFINE below == calls[Here - 1]
             a == [below EXCEPT !.words = @ \o value]
  <2>1. /\ Stacks(Under(calls), frames, unwind', resources') /\ OpenOnce(resources', open')
        /\ Mutexed(Under(calls)) = Mutexed(calls) /\ Idle(Last(Under(calls)))
        /\ Front(calls) = Under(calls) /\ Last(Under(calls)) = below
        /\ Len(Under(calls)) = Here - 1 /\ Here - 1 \in 1..Here
    BY <1>1, <1>2, <1>5, LeaveStacks
  <2>2. Sound(below) /\ below = Under(calls)[Len(Under(calls))] /\ below.kind = "fn"
    <3>1. Here = Len(calls)
      BY Facts
    <3>2. Sound(below)
      BY <2>1, <3>1 DEF IInv, Stacks, Nested
    <3> QED BY <1>1, <1>9, <2>1, <3>2 DEF Last
  <2>3. Sound(a) /\ a.kind = below.kind /\ a.mutex = below.mutex /\ a.err = below.err
    <3>1. below \in Activations /\ below.words \o value \in Seq(Values)
      BY <1>3, <2>2 DEF Sound, Activations
    <3> QED BY <2>2, <3>1 DEF Activations, Sound
  <2>4. calls' = TopAs(Under(calls), a)
    <3>1. calls' = [Under(calls) EXCEPT ![Here - 1].words = @ \o value]
      BY <1>1, <1>9, <2>1
    <3>2. Under(calls)[Here - 1] = below
      BY <2>1, <2>2
    <3> QED BY <2>1, <3>1, <3>2 DEF TopAs
  <2> HIDE DEF a, below
  <2>5. Stacks(calls', frames, unwind', resources') /\ Mutexed(calls') = Mutexed(Under(calls))
    BY <2>1, <2>2, <2>3, <2>4, TopStacks
  <2>6. frames' = frames
    BY <1>5 DEF LeaveFunction
  <2> QED BY <1>1, <1>2, <1>6, <1>7, <2>1, <2>5, <2>6, Assemble DEF IInv
<1> QED BY <1>8, <1>9

\* No resource belongs to what is not an Ocara function.
LEMMA NoneOwned ==
  ASSUME IInv, Top.kind # "fn"
  PROVE  /\ Here > 1 /\ Here - 1 \in 1..Here /\ calls[Here - 1].kind = "fn" /\ Idle(calls[Here - 1])
         /\ Sound(calls[Here - 1]) /\ \A i \in 1..Len(resources) : resources[i].act # Len(calls)
<1>1. Here \in Nat /\ Here = Len(calls) /\ Top = calls[Here] /\ Here \in 1..Here
  BY Facts
<1>2. Nested(calls) /\ SlotsAt(calls, resources)
  BY DEF IInv, Stacks, Aligned
<1>3. Here > 1 /\ calls[Here - 1].kind = "fn"
  BY <1>1, <1>2 DEF Nested
<1>4. Here - 1 \in 1..Here /\ Here - 1 \in 1..(Here - 1)
  BY <1>1, <1>3
<1>5. Idle(calls[Here - 1]) /\ Sound(calls[Here - 1])
  BY <1>1, <1>2, <1>4 DEF Nested
<1>6. \A i \in 1..Len(resources) : resources[i].act # Len(calls)
  BY <1>1, <1>2 DEF SlotsAt
<1> QED BY <1>3, <1>4, <1>5, <1>6

LEMMA EndNewStep == ASSUME IInv, EndNew PROVE IInv'
<1> DEFINE below == calls[Here - 1]
           a == [below EXCEPT !.words = @ \o Top.words]
<1>1. /\ Back({"new"}) /\ calls' = [Front(calls) EXCEPT ![Here - 1].words = @ \o Top.words]
      /\ unwind' = Front(unwind)
      /\ UNCHANGED <<pc, frames, resources, open, locked, count, returned, stray>>
  BY DEF EndNew
<1>2. pc = "run" /\ Top.kind = "new" /\ Top.code \in {"none", "normal"} /\ Registers(Top)
  BY <1>1, Facts DEF Back, Sound, Registers
<1>3. returned = Null
  BY <1>2 DEF IInv
<1>4. /\ Here > 1 /\ Here - 1 \in 1..Here /\ below.kind = "fn" /\ Idle(below) /\ Sound(below)
      /\ \A i \in 1..Len(resources) : resources[i].act # Len(calls)
  BY <1>2, NoneOwned
<1>5. Here = Len(calls) /\ Top = calls[Len(calls)] /\ Here \in Nat /\ Top.words \in Seq(Values)
  BY Facts
<1>6. Stacks(calls, frames, unwind, resources)
  BY DEF IInv
<1>7. /\ Stacks(Under(calls), frames, unwind', resources) /\ Mutexed(Under(calls)) = Mutexed(calls)
      /\ Len(Under(calls)) = Here - 1 /\ \A i \in 1..(Here - 1) : Under(calls)[i] = calls[i]
  BY <1>1, <1>2, <1>4, <1>5, <1>6, PopRegisterStacks
<1>8. Under(calls)[Here - 1] = below
  BY <1>4, <1>5, <1>7
<1>9. Sound(a) /\ a.kind = below.kind /\ a.mutex = below.mutex /\ a.err = below.err
  <2>1. below \in Activations /\ below.words \o Top.words \in Seq(Values)
    BY <1>4, <1>5 DEF Sound, Activations
  <2> QED BY <1>4, <2>1 DEF Activations, Sound
<1>10. calls' = TopAs(Under(calls), a)
  BY <1>1, <1>7, <1>8 DEF TopAs, Front, Under
<1> HIDE DEF a, below
<1>11. Stacks(calls', frames, unwind', resources) /\ Mutexed(calls') = Mutexed(calls)
  BY <1>7, <1>8, <1>9, <1>10, TopStacks
<1>12. Types'
  BY <1>1 DEF IInv, Types
<1> QED BY <1>1, <1>2, <1>3, <1>11, <1>12, Assemble DEF IInv

\* The trampoline of a try is left: the function that the try is in gets the code.
LEMMA HandedStacks ==
  ASSUME IInv, Top.kind \in {"try", "handler"}, Top.code # "none", calls' = Handed,
         NEW fr, NEW un, Stacks(Under(calls), fr, un, resources),
         Mutexed(Under(calls)) = Mutexed(calls), Len(Under(calls)) = Here - 1,
         \A i \in 1..(Here - 1) : Under(calls)[i] = calls[i]
  PROVE  /\ Stacks(calls', fr, un, resources) /\ Mutexed(calls') = Mutexed(calls)
         /\ Top.code = "return" => Last(calls').code = "return"
<1> DEFINE below == calls[Here - 1]
           code == IF Top.code = "normal" THEN "none" ELSE Top.code
           a == [below EXCEPT !.code = code]
<1>1. /\ Here > 1 /\ Here - 1 \in 1..Here /\ below.kind = "fn" /\ Idle(below) /\ Sound(below)
  BY NoneOwned
<1>2. Top.code \in Codes /\ Here \in Nat
  BY Facts DEF Activations
<1>3. Under(calls)[Here - 1] = below
  BY <1>1, <1>2
<1>4. /\ Sound(a) /\ a.kind = below.kind /\ a.mutex = below.mutex /\ a.err = below.err
      /\ a.code = code
  <2>1. below \in Activations /\ code \in Codes /\ code # "normal"
    BY <1>1, <1>2 DEF Sound, Codes
  <2> QED BY <1>1, <2>1 DEF Activations, Sound, Idle
<1>5. calls' = TopAs(Under(calls), a)
  BY <1>3 DEF Handed, TopAs, Front, Under
<1>6. Top.code = "return" => code = "return"
  OBVIOUS
<1> HIDE DEF a, below, code
<1>7. Stacks(calls', fr, un, resources) /\ Mutexed(calls') = Mutexed(Under(calls)) /\ Last(calls') = a
  BY <1>3, <1>4, <1>5, TopStacks
<1> QED BY <1>4, <1>6, <1>7

LEMMA EndTryStep == ASSUME IInv, EndTry PROVE IInv'
<1>1. /\ Back({"try"}) /\ calls' = Handed /\ frames' = Front(frames)
      /\ UNCHANGED <<pc, unwind, resources, open, locked, count, returned, stray>>
  BY DEF EndTry
<1>2. pc = "run" /\ Top.kind = "try" /\ Top.code # "none" /\ Catches(Top)
  BY <1>1, Facts DEF Back, Sound, Catches
<1>3. Here > 1 /\ Here = Len(calls) /\ Top = calls[Len(calls)]
  BY <1>2, NoneOwned, Facts
<1>4. Stacks(calls, frames, unwind, resources) /\ Top.mutex = Null
  BY <1>2, Facts DEF IInv, Sound
<1>5. /\ Stacks(Under(calls), frames', unwind, resources) /\ Mutexed(Under(calls)) = Mutexed(calls) \ {Null}
      /\ Len(Under(calls)) = Here - 1 /\ \A i \in 1..(Here - 1) : Under(calls)[i] = calls[i]
  BY <1>1, <1>2, <1>3, <1>4, PopCatchStacks
<1>6. Mutexed(Under(calls)) = Mutexed(calls)
  BY <1>5 DEF Mutexed
<1>7. /\ Stacks(calls', frames', unwind, resources) /\ Mutexed(calls') = Mutexed(calls)
      /\ Top.code = "return" => Last(calls').code = "return"
  BY <1>1, <1>2, <1>5, <1>6, HandedStacks
<1>8. Types'
  BY <1>1 DEF IInv, Types
<1> QED BY <1>1, <1>2, <1>7, <1>8, Assemble DEF IInv

LEMMA EndHandlerStep == ASSUME IInv, EndHandler PROVE IInv'
<1>1. /\ Back({"handler"}) /\ calls' = Handed /\ unwind' = Front(unwind)
      /\ count' = Released(count, Times(Top.words))
      /\ UNCHANGED <<pc, frames, resources, open, locked, returned, stray>>
  BY DEF EndHandler
<1>2. pc = "run" /\ Top.kind = "handler" /\ Top.code # "none" /\ Registers(Top)
  BY <1>1, Facts DEF Back, Sound, Registers
<1>3. /\ Here > 1 /\ Here = Len(calls) /\ Top = calls[Len(calls)] /\ Top.words \in Seq(Values)
      /\ \A i \in 1..Len(resources) : resources[i].act # Len(calls)
  BY <1>2, NoneOwned, Facts
<1>4. Stacks(calls, frames, unwind, resources)
  BY DEF IInv
<1>5. /\ Stacks(Under(calls), frames, unwind', resources) /\ Mutexed(Under(calls)) = Mutexed(calls)
      /\ Len(Under(calls)) = Here - 1 /\ \A i \in 1..(Here - 1) : Under(calls)[i] = calls[i]
  BY <1>1, <1>2, <1>3, <1>4, PopRegisterStacks
<1>6. /\ Stacks(calls', frames, unwind', resources) /\ Mutexed(calls') = Mutexed(calls)
      /\ Top.code = "return" => Last(calls').code = "return"
  BY <1>1, <1>2, <1>5, HandedStacks
<1>7. Types'
  BY <1>1, <1>3, ReleasedType DEF IInv, Types
<1> QED BY <1>1, <1>2, <1>6, <1>7, Assemble DEF IInv

LEMMA EndLockStep == ASSUME IInv, EndLock PROVE IInv'
<1>1. /\ Back({"lock"}) /\ calls' = Front(calls) /\ frames' = Front(frames)
      /\ locked' = locked \ {Top.mutex}
      /\ UNCHANGED <<pc, unwind, resources, open, count, returned, stray>>
  BY DEF EndLock
<1>2. /\ pc = "run" /\ Top.kind = "lock" /\ Top.code \in {"none", "normal"} /\ Top.err = Null
  BY <1>1, Facts DEF Back, Sound
<1>3. returned = Null
  BY <1>2 DEF IInv
<1>4. Here > 1 /\ Here = Len(calls) /\ Top = calls[Len(calls)] /\ Catches(Top)
  BY <1>2, NoneOwned, Facts DEF Catches
<1>5. Stacks(calls, frames, unwind, resources)
  BY DEF IInv
<1>6. /\ Stacks(Under(calls), frames', unwind, resources) /\ Mutexed(Under(calls)) = Mutexed(calls) \ {Top.mutex}
  BY <1>1, <1>4, <1>5, PopCatchStacks
<1>7. calls' = Under(calls)
  BY <1>1 DEF Front, Under
<1>8. Types'
  BY <1>1 DEF IInv, Types
<1> QED BY <1>1, <1>2, <1>3, <1>6, <1>7, <1>8, Assemble DEF IInv

LEMMA Halves ==
  ASSUME NEW S, NEW ws \in Seq(S), NEW n \in 0..Len(ws)
  PROVE  SubSeq(ws, 1, n) \in Seq(S) /\ SubSeq(ws, n + 1, Len(ws)) \in Seq(S)
<1>1. Len(ws) \in Nat /\ n \in Nat
  BY LenNat
<1>2. \A i \in 1..n : ws[i] \in S
  BY <1>1
<1>3. \A i \in (n + 1)..Len(ws) : ws[i] \in S
  BY <1>1
<1>4. SubSeq(ws, 1, n) \in Seq(S)
  BY <1>1, <1>2, SubSeqProperties
<1>5. SubSeq(ws, n + 1, Len(ws)) \in Seq(S)
  BY <1>1, <1>3, SubSeqProperties
<1> QED BY <1>4, <1>5

LEMMA LeaveLoopStep == ASSUME IInv, LeaveLoop PROVE IInv'
<1>1. PICK n \in 0..Len(Top.words), S \in SUBSET Own :
        /\ Back({"fn"}) /\ Top.code = "break"
        /\ calls' = [calls EXCEPT ![Here].words = SubSeq(@, 1, n), ![Here].code = "none"]
        /\ count' = Released(count, Times(SubSeq(Top.words, n + 1, Len(Top.words))))
        /\ open' = open \ S /\ resources' = OthersOf(S)
        /\ UNCHANGED <<pc, frames, unwind, locked, returned, stray>>
  BY DEF LeaveLoop
<1> DEFINE a == [Top EXCEPT !.words = SubSeq(@, 1, n), !.code = "none"]
<1>2. pc = "run" /\ Top.kind = "fn" /\ returned = Null
  BY <1>1 DEF Back, IInv
<1>3. Top.words \in Seq(Values) /\ Len(Top.words) \in Nat
  BY Facts, LenNat
<1>4. SubSeq(Top.words, 1, n) \in Seq(Values) /\ SubSeq(Top.words, n + 1, Len(Top.words)) \in Seq(Values)
  BY <1>3, Halves
<1>5. Sound(a) /\ a.kind = Top.kind /\ a.mutex = Top.mutex /\ a.err = Top.err
  <2>1. a \in Activations
    BY <1>4, Facts DEF Activations, Codes
  <2> QED BY <1>2, <2>1, Facts DEF Activations, Sound
<1>6. calls' = TopAs(calls, a)
  <2> DEFINE mid == [calls EXCEPT ![Here].words = SubSeq(@, 1, n)]
             b == [Top EXCEPT !.words = SubSeq(@, 1, n)]
  <2>1. calls' = [mid EXCEPT ![Here].code = "none"]
    BY <1>1
  <2>2. mid = [calls EXCEPT ![Here] = b]
    BY Facts
  <2>3. mid[Here] = b /\ Here \in DOMAIN calls /\ DOMAIN mid = DOMAIN calls
    BY <2>2, Facts
  <2>4. a = [b EXCEPT !.code = "none"]
    OBVIOUS
  <2> HIDE DEF a, b, mid
  <2>5. calls' = [mid EXCEPT ![Here] = a]
    BY <2>1, <2>3, <2>4
  <2>6. calls' = [calls EXCEPT ![Here] = a]
    BY <2>2, <2>5
  <2> QED BY <2>6, Facts DEF TopAs
<1> HIDE DEF a
<1>7. Stacks(calls, frames, unwind, resources') /\ OpenOnce(resources', open')
  <2>1. Stacks(calls, frames, unwind, OthersOf(S)) /\ OpenOnce(OthersOf(S), open \ S)
    BY Dropped
  <2> QED BY <1>1, <2>1
<1>8. Stacks(calls', frames, unwind, resources') /\ Mutexed(calls') = Mutexed(calls)
  BY <1>5, <1>6, <1>7, Facts, TopStacks
<1>9. Types'
  BY <1>1, <1>4, ReleasedType DEF IInv, Types
<1> QED BY <1>1, <1>2, <1>7, <1>8, <1>9, Assemble DEF IInv

\* Entering a try or withLock.
LEMMA PushStep ==
  ASSUME IInv, NEW a, Runs({"fn"}), Here < MaxCalls, Push(a), Sound(a), Catches(a),
         a.mutex # Null => a.mutex \notin locked,
         UNCHANGED <<unwind, resources, open, count, returned, stray>>, locked' \subseteq Mutexes,
         locked' = IF pc' = "run" THEN locked \cup ({a.mutex} \ {Null}) ELSE locked
  PROVE  IInv'
<1>1. pc = "run" /\ Idle(calls[Len(calls)]) /\ returned = Null /\ Top.kind = "fn"
  BY Running
<1>2. /\ Stacks(calls, frames, unwind, resources) /\ locked = Mutexed(calls) /\ Here = Len(calls)
      /\ Top = calls[Len(calls)] /\ Len(frames) \in Nat /\ MaxTry \in Nat
  BY <1>1, Facts DEF IInv
<1>3. CASE Len(frames) >= MaxTry
  <2>1. pc' = "exit" /\ calls' = calls /\ frames' = frames
    BY <1>3 DEF Push
  <2>2. Types'
    BY <2>1 DEF IInv, Types
  <2> QED BY <1>1, <1>2, <2>1, <2>2, Assemble DEF IInv
<1>4. CASE ~(Len(frames) >= MaxTry)
  <2> DEFINE f == Frame(Here + 1)
  <2>1. calls' = Append(calls, a) /\ frames' = Append(frames, f) /\ pc' = pc
    BY <1>4 DEF Push
  <2>2. f = [act |-> Len(calls) + 1, unwind |-> Len(unwind), resources |-> Len(resources)]
    BY <1>2 DEF Frame
  <2> HIDE DEF f
  <2>3. Len(frames) < MaxTry
    BY <1>2, <1>4
  <2>4. /\ Stacks(Append(calls, a), Append(frames, f), unwind, resources)
        /\ Mutexed(Append(calls, a)) = Mutexed(calls) \cup ({a.mutex} \ {Null})
    BY <1>1, <1>2, <2>2, <2>3, PushCatchStacks
  <2>5. Types'
    BY <2>1 DEF IInv, Types
  <2>6. Stacks(calls', frames', unwind', resources') /\ Mutexed(calls') = locked'
    BY <1>1, <1>2, <2>1, <2>4
  <2> QED BY <1>1, <2>5, <2>6, Assemble DEF IInv
<1> QED BY <1>3, <1>4

LEMMA TryStep == ASSUME IInv, Try PROVE IInv'
<1> DEFINE a == Activation("try", <<>>, Null)
<1>1. Runs({"fn"}) /\ Here < MaxCalls /\ Push(a) /\ UNCHANGED <<unwind, resources, open, locked, count, returned, stray>>
  BY DEF Try
<1>2. Sound(a) /\ Catches(a) /\ a.mutex = Null
  <2>1. <<>> \in Seq(Values)
    OBVIOUS
  <2> QED BY <2>1 DEF Activation, Activations, Codes, Kinds, Sound, Catches
<1> HIDE DEF a
<1>3. locked' = locked /\ locked \subseteq Mutexes /\ {a.mutex} \ {Null} = {}
  BY <1>1, <1>2 DEF IInv, Types
<1>4. locked' = IF pc' = "run" THEN locked \cup ({a.mutex} \ {Null}) ELSE locked
  BY <1>3
<1> QED BY <1>1, <1>2, <1>3, <1>4, PushStep

LEMMA WithLockStep == ASSUME IInv, WithLock PROVE IInv'
<1>1. PICK m \in Mutexes \ locked :
        /\ Runs({"fn"}) /\ Here < MaxCalls /\ Push(Activation("lock", <<>>, m))
        /\ locked' = IF pc' = "run" THEN locked \cup {m} ELSE locked
        /\ UNCHANGED <<unwind, resources, open, count, returned, stray>>
  BY DEF WithLock
<1> DEFINE a == Activation("lock", <<>>, m)
<1>2. Sound(a) /\ Catches(a) /\ a.mutex = m /\ m # Null
  <2>1. <<>> \in Seq(Values) /\ m # Null
    BY NullAssumption
  <2> QED BY <2>1 DEF Activation, Activations, Codes, Kinds, Sound, Catches
<1>3. Push(a)
  BY <1>1
<1> HIDE DEF a
<1>4. {a.mutex} \ {Null} = {m} /\ a.mutex \notin locked
  BY <1>2
<1>5. locked' = IF pc' = "run" THEN locked \cup ({a.mutex} \ {Null}) ELSE locked
  BY <1>1, <1>4
<1>6. locked' \subseteq Mutexes
  BY <1>1 DEF IInv, Types
<1> QED BY <1>1, <1>2, <1>3, <1>4, <1>5, <1>6, PushStep

-----------------------------------------------------------------------------
(* Jumping                                                                   *)

LEMMA ReferencesFinite ==
  ASSUME NEW cs \in Seq(Activations), NEW S, S \subseteq 1..Len(cs), NEW v
  PROVE  IsFiniteSet(References(cs, S, v)) /\ Cardinality(References(cs, S, v)) \in Nat
<1> DEFINE Part(i) == {i} \X {j \in DOMAIN cs[i].words : cs[i].words[j] = v}
           Parts == {Part(i) : i \in S}
<1>1. IsFiniteSet(S)
  <2>1. Len(cs) \in Nat
    BY LenNat
  <2>2. IsFiniteSet(1..Len(cs))
    BY <2>1, FS_Interval
  <2> QED BY <2>2, FS_Subset
<1>2. ASSUME NEW i \in S PROVE IsFiniteSet(Part(i))
  <2>1. cs[i] \in Activations
    BY <1>2
  <2>2. cs[i].words \in Seq(Values)
    BY <2>1 DEF Activations
  <2>3. Len(cs[i].words) \in Nat /\ DOMAIN cs[i].words = 1..Len(cs[i].words)
    BY <2>2, LenNat
  <2>4. IsFiniteSet(1..Len(cs[i].words))
    <3>1. 1 \in Int /\ Len(cs[i].words) \in Int
      BY <2>3
    <3> QED BY <3>1, FS_Interval
  <2>5. IsFiniteSet({j \in DOMAIN cs[i].words : cs[i].words[j] = v})
    BY <2>3, <2>4, FS_Subset
  <2>6. IsFiniteSet({i})
    BY FS_Singleton
  <2> QED BY <2>5, <2>6, FS_Product
<1>3. IsFiniteSet(Parts)
  <2> DEFINE part == [i \in S |-> Part(i)]
  <2> HIDE DEF Part
  <2>1. part \in [S -> Parts] /\ \A p \in Parts : \E i \in S : part[i] = p
    OBVIOUS
  <2>2. part \in Surjection(S, Parts)
    BY <2>1 DEF Surjection
  <2> QED BY <1>1, <2>2, FS_Surjection
<1>4. IsFiniteSet(UNION Parts)
  BY <1>2, <1>3, FS_UNION
<1>5. References(cs, S, v) = UNION Parts
  BY DEF References
<1> QED BY <1>4, <1>5, FS_CardinalityType

LEMMA TimesInType ==
  ASSUME NEW cs \in Seq(Activations), NEW S, S \subseteq 1..Len(cs)
  PROVE  TimesIn(cs, S) \in [Values -> Nat]
BY ReferencesFinite DEF TimesIn

\* raise, from a native stack on which the function on top keeps nothing.
LEMMA FailStep ==
  ASSUME IInv, NEW v \in Values, NEW cs, NEW opened, NEW registered, NEW cnt \in [Values -> Int],
         Fail(v, cs, opened, registered, cnt), Stacks(cs, frames, unwind, registered),
         OpenOnce(registered, opened), ~Catches(cs[Len(cs)]), returned = Null, returned' = returned,
         locked' \subseteq Mutexes, stray' \subseteq Values,
         locked' = Mutexed(cs) \ {cs[Len(cs)].mutex}
  PROVE  IInv'
<1>1. /\ frames \in Seq(Frames) /\ Len(frames) \in Nat /\ unwind \in Seq(Nat) /\ Len(unwind) \in Nat
      /\ cs \in Seq(Activations) /\ registered \in Seq(Slots)
  BY StackTypes
<1>2. CASE frames = <<>>
  <2>1. pc' = "exit" /\ UNCHANGED <<calls, frames, unwind, resources, open, count>>
    BY <1>2 DEF Fail
  <2>2. Types'
    BY <2>1 DEF IInv, Types
  <2> QED BY <2>1, <2>2, Assemble DEF IInv
<1>3. CASE frames # <<>>
  <2> DEFINE f == Last(frames)
             skipped == {unwind[i] : i \in (f.unwind + 1)..Len(unwind)}
  <2>1. /\ resources' = SubSeq(registered, 1, f.resources)
        /\ open' = opened \ {registered[i].res : i \in (f.resources + 1)..Len(registered)}
        /\ count' = Released(cnt, TimesIn(cs, skipped))
        /\ frames' = Front(frames) /\ pc' = pc
    BY <1>3 DEF Fail
  <2>2. Jumped(cs, unwind, f, v, calls', unwind')
    BY <1>3 DEF Fail, Jumped
  <2>3. Innermost(frames, f)
    BY <1>1, <1>3 DEF Innermost, Last
  <2>4. UnwindAt(cs, unwind)
    BY DEF Stacks, Aligned
  <2>5. f.unwind \in 0..Len(unwind) /\ f.resources \in 0..Len(registered)
    <3> HIDE DEF f
    <3>1. Aligned(cs, frames, unwind, registered)
      BY DEF Stacks
    <3> QED BY <1>1, <2>3, <3>1, JumpAligned
  <2>6. skipped \subseteq 1..Len(cs)
    BY <2>4, <2>5 DEF UnwindAt
  <2>7. count' \in [Values -> Int]
    <3> HIDE DEF f, skipped
    <3>1. TimesIn(cs, skipped) \in [Values -> Nat]
      BY <1>1, <2>6, TimesInType
    <3>2. TimesIn(cs, skipped) \in [Values -> Int]
      BY <3>1
    <3> QED BY <2>1, <3>2, CountTypes
  <2> HIDE DEF f, skipped
  <2>8. /\ Stacks(calls', frames', unwind', resources')
        /\ Mutexed(calls') = Mutexed(cs) \ {cs[Len(cs)].mutex}
    BY <2>1, <2>2, <2>3, JumpStacks
  <2>9. OpenOnce(resources', open')
    BY <1>1, <2>1, <2>5, CutOpen
  <2>10. Types'
    BY <2>1, <2>7 DEF IInv, Types
  <2> QED BY <2>8, <2>9, <2>10, Assemble
<1> QED BY <1>2, <1>3

LEMMA RaiseStep == ASSUME IInv, Raise PROVE IInv'
<1> DEFINE a == [Top EXCEPT !.words = <<>>]
           cs == TopAs(calls, a)
           rs == OthersOf(Own)
           op == open \ Own
<1>1. PICK v \in Visible \cup {x \in Values : count[x] = 0} :
        /\ Runs({"fn"})
        /\ Fail(v, [calls EXCEPT ![Here].words = <<>>], op, rs,
                Released(Retained(count, v), Times(Top.words)))
        /\ UNCHANGED <<locked, returned, stray>>
  BY DEF Raise
<1>2. /\ pc = "run" /\ Top.kind = "fn" /\ Top.code = "none" /\ returned = Null
  BY <1>1, Running
<1>3. v \in Values
  BY Facts
<1>4. Released(Retained(count, v), Times(Top.words)) \in [Values -> Int]
  <2>1. Retained(count, v) \in [Values -> Int]
    BY <1>3, CountTypes DEF IInv, Types
  <2> QED BY <2>1, Facts, ReleasedType
<1>5. [calls EXCEPT ![Here].words = <<>>] = cs
  BY Facts DEF TopAs
<1>6. Sound(a) /\ a.kind = Top.kind /\ a.mutex = Top.mutex /\ a.err = Top.err /\ a.mutex = Null
  <2>1. <<>> \in Seq(Values)
    OBVIOUS
  <2>2. a \in Activations
    BY <2>1, Facts DEF Activations
  <2> QED BY <1>2, <2>2, Facts DEF Activations, Sound
<1>7. ~Catches(a)
  BY <1>2, <1>6 DEF Catches
<1>8. Stacks(calls, frames, unwind, rs) /\ OpenOnce(rs, op)
  BY Dropped
<1> HIDE DEF a, rs, op
<1>9. Stacks(cs, frames, unwind, rs) /\ Mutexed(cs) = Mutexed(calls)
  BY <1>6, <1>8, Facts, TopStacks
<1>10. cs[Len(cs)] = a
  <2>1. cs[Len(calls)] = a /\ Len(cs) = Len(calls)
    BY <1>6, Facts, ReplaceTop DEF Sound
  <2> QED BY <2>1
<1> HIDE DEF cs
<1>11. locked' = Mutexed(cs) \ {cs[Len(cs)].mutex} /\ locked' \subseteq Mutexes /\ stray' \subseteq Values
  <2>1. locked = Mutexed(calls)
    BY <1>2 DEF IInv
  <2>2. Null \notin Mutexed(calls)
    BY DEF Mutexed
  <2> QED BY <1>1, <1>6, <1>9, <1>10, <2>1, <2>2 DEF IInv, Types
<1>12. Fail(v, cs, op, rs, Released(Retained(count, v), Times(Top.words)))
  BY <1>1, <1>5
<1> QED BY <1>1, <1>2, <1>3, <1>4, <1>7, <1>8, <1>9, <1>10, <1>11, <1>12, FailStep

\* A jump by the native frame on top, which changes nothing before.
LEMMA PlainFailStep ==
  ASSUME IInv, pc = "run", NEW v \in Values, NEW cnt \in [Values -> Int],
         Fail(v, calls, open, resources, cnt), ~Catches(Top), returned = Null, returned' = returned,
         locked' = locked \ {Top.mutex}, stray' \subseteq Values
  PROVE  IInv'
<1>1. Stacks(calls, frames, unwind, resources) /\ OpenOnce(resources, open) /\ locked = Mutexed(calls)
  BY DEF IInv
<1>2. Top = calls[Len(calls)]
  BY Facts
<1>3. locked' \subseteq Mutexes
  BY DEF IInv, Types
<1> QED BY <1>1, <1>2, <1>3, FailStep

LEMMA ThrowStep == ASSUME IInv, Throw PROVE IInv'
<1>1. PICK v \in Values : /\ Runs({"fn"}) /\ Fail(v, calls, open, resources, Retained(count, v))
                          /\ UNCHANGED <<locked, returned, stray>>
  BY DEF Throw
<1>2. pc = "run" /\ Top.kind = "fn" /\ returned = Null
  BY <1>1, Running
<1>3. ~Catches(Top) /\ Top.mutex = Null
  BY <1>2, Facts DEF Catches, Sound
<1>4. Retained(count, v) \in [Values -> Int]
  BY CountTypes DEF IInv, Types
<1>5. locked' = locked \ {Top.mutex} /\ stray' \subseteq Values
  <2>1. Null \notin locked
    BY Facts DEF IInv, Types
  <2> QED BY <1>1, <1>3, <2>1 DEF IInv, Types
<1> QED BY <1>1, <1>2, <1>3, <1>4, <1>5, PlainFailStep

LEMMA PropagateStep == ASSUME IInv, Propagate PROVE IInv'
<1>1. /\ Runs({"handler"}) /\ Fail(Top.words[1], calls, open, resources, count)
      /\ stray' = stray \cup {Top.words[1]} /\ UNCHANGED <<locked, returned>>
  BY DEF Propagate
<1>2. pc = "run" /\ Top.kind = "handler" /\ returned = Null
  BY <1>1, Running
<1>3. ~Catches(Top) /\ Top.mutex = Null
  BY <1>2, Facts DEF Catches, Sound
<1>4. Top.words[1] \in Values
  <2>1. Len(Top.words) > 0 /\ Top.words \in Seq(Values)
    BY <1>2, Facts DEF Sound
  <2> QED BY <2>1
<1>5. locked' = locked \ {Top.mutex} /\ stray' \subseteq Values
  <2>1. Null \notin locked
    BY Facts DEF IInv, Types
  <2> QED BY <1>1, <1>3, <1>4, <2>1 DEF IInv, Types
<1>6. count \in [Values -> Int]
  BY DEF IInv, Types
<1> QED BY <1>1, <1>2, <1>3, <1>4, <1>5, <1>6, PlainFailStep

LEMMA LockFailsStep == ASSUME IInv, LockFails PROVE IInv'
<1>1. /\ pc = "run" /\ Top.kind = "lock" /\ Top.err # Null /\ locked' = locked \ {Top.mutex}
      /\ Fail(Top.err, calls, open, resources, count) /\ UNCHANGED <<returned, stray>>
  BY DEF LockFails
<1>2. ~Catches(Top) /\ Top.code = "none" /\ Top.err \in Values
  BY <1>1, Facts DEF Catches, Sound, Activations
<1>3. returned = Null
  BY <1>2 DEF IInv
<1>4. count \in [Values -> Int] /\ stray' \subseteq Values
  BY <1>1 DEF IInv, Types
<1> QED BY <1>1, <1>2, <1>3, <1>4, PlainFailStep

-----------------------------------------------------------------------------
(* The invariant holds, and what follows from it                             *)

LEMMA InitIInv == Init => IInv
<1> SUFFICES ASSUME Init PROVE IInv
  OBVIOUS
<1> DEFINE a == Activation("fn", <<>>, Null)
<1>1. calls = <<a>> /\ frames = <<>> /\ unwind = <<1>> /\ resources = <<>>
  BY DEF Init
<1>2. a \in Activations /\ Sound(a) /\ ~Catches(a) /\ Registers(a) /\ a.kind = "fn" /\ a.mutex = Null
  <2>1. <<>> \in Seq(Values)
    OBVIOUS
  <2> QED BY <2>1 DEF Activation, Activations, Codes, Kinds, Sound, Catches, Registers
<1> HIDE DEF a
<1>3. calls \in Seq(Activations) /\ Len(calls) = 1 /\ calls[1] = a /\ \A i \in 1..1 : i = 1
  BY <1>1, <1>2
<1>4. /\ frames \in Seq(Frames) /\ Len(frames) = 0 /\ unwind \in Seq(Nat) /\ Len(unwind) = 1
      /\ unwind[1] = 1 /\ resources \in Seq(Slots) /\ Len(resources) = 0 /\ 1..0 = {}
  BY <1>1
<1>5. Nested(calls)
  <2>1. \A i \in 1..1 : calls[i] = a
    BY <1>3
  <2>2. \A i, j \in 1..1 : i = j
    OBVIOUS
  <2>3. 1..(1 - 1) = {}
    OBVIOUS
  <2> QED BY <1>2, <1>3, <2>1, <2>2, <2>3 DEF Nested
<1>6. FramesAt(calls, frames)
  BY <1>2, <1>3, <1>4 DEF FramesAt
<1>7. UnwindAt(calls, unwind)
  <2>1. \A i \in 1..1 : unwind[i] = 1
    BY <1>4
  <2>2. ~(1 < 1) /\ 1 \in 1..1
    OBVIOUS
  <2> QED BY <1>2, <1>3, <1>4, <2>1, <2>2 DEF UnwindAt
<1>8. SlotsAt(calls, resources) /\ DepthsAt(frames, unwind, resources)
  BY <1>4 DEF SlotsAt, DepthsAt
<1>9. Len(calls) \in 1..MaxCalls /\ Len(frames) <= MaxTry
  <2>1. MaxCalls \in Nat /\ MaxCalls > 0 /\ MaxTry \in Nat
    BY BoundsAssumption
  <2> QED BY <1>3, <1>4, <2>1
<1>10. Stacks(calls, frames, unwind, resources)
  BY <1>5, <1>6, <1>7, <1>8, <1>9 DEF Stacks, Aligned
<1>11. OpenOnce(resources, open)
  BY <1>4 DEF Init, OpenOnce
<1>12. Mutexed(calls) = {}
  BY <1>2, <1>3 DEF Mutexed
<1>13. Types
  BY DEF Types, Init
<1> QED BY <1>10, <1>11, <1>12, <1>13 DEF IInv, Init

LEMMA NextIInv == IInv /\ [Next]_vars => IInv'
<1>1. ASSUME IInv, UNCHANGED vars PROVE IInv'
  BY <1>1 DEF vars, IInv, Types, Top
<1>2. ASSUME IInv, Next PROVE IInv'
  BY <1>2, CallStep, WordStep, OpenStep, CloseStep, ReturnStep, NewStep, EndNewStep, TryStep,
     ReturnInTryStep, ExitInTryStep, EndTryStep, PassOnStep, LeaveLoopStep, ReturnFromTryStep,
     WithLockStep, EndLockStep, RaiseStep, ThrowStep, EndHandlerStep, PropagateStep, LockFailsStep
     DEF Next
<1> QED BY <1>1, <1>2

LEMMA Invariance == Spec => []IInv
BY InitIInv, NextIInv, PTL DEF Spec

\* TRY_STACK lists the native frames that wait for a jump, and UNWIND those
\* that registered words, each once and in their order, in whatever way the
\* functions above them were left.
THEOREM JumpsLand == Spec => []StacksExact
<1>1. ASSUME IInv PROVE StacksExact
  <2> USE <1>1
  <2>1. /\ calls \in Seq(Activations) /\ frames \in Seq(Frames) /\ unwind \in Seq(Nat)
        /\ resources \in Seq(Slots) /\ Len(calls) \in 1..MaxCalls /\ Len(frames) <= MaxTry
    BY Facts DEF IInv, Stacks
  <2>2. open \subseteq Resources
    <3>1. \A i \in 1..Len(resources) : resources[i].res \in Resources
      <4>1. \A i \in 1..Len(resources) : resources[i] \in Slots
        BY <2>1
      <4> QED BY <4>1 DEF Slots
    <3> QED BY <3>1 DEF IInv, OpenOnce
  <2>3. TypeOK
    BY <2>1, <2>2 DEF TypeOK, IInv, Types, Frames, Slots
  <2>4. /\ DOMAIN calls = 1..Len(calls) /\ DOMAIN frames = 1..Len(frames)
        /\ DOMAIN unwind = 1..Len(unwind)
    BY <2>1
  <2>5. LandsAlive
    <3>1. FramesAt(calls, frames)
      BY DEF IInv, Stacks, Aligned
    <3> DEFINE s == [i \in DOMAIN frames |-> frames[i].act]
               S == {i \in DOMAIN calls : Catches(calls[i])}
    <3>2. \A i, j \in DOMAIN s : i < j => s[i] < s[j]
      BY <2>4, <3>1 DEF FramesAt
    <3>3. \A i \in DOMAIN s : s[i] \in S
      BY <2>4, <3>1 DEF FramesAt
    <3>4. ASSUME NEW c \in S PROVE \E i \in DOMAIN s : s[i] = c
      <4>1. c \in 1..Len(calls) /\ Catches(calls[c])
        BY <2>4, <3>4
      <4>2. PICK i \in 1..Len(frames) : frames[i].act = c
        BY <3>1, <4>1 DEF FramesAt
      <4> QED BY <2>4, <4>2
    <3>5. {s[i] : i \in DOMAIN s} = S
      <4> HIDE DEF s, S
      <4> QED BY <3>3, <3>4
    <3> QED BY <3>2, <3>5 DEF Enumerates, LandsAlive
  <2>6. UnwindExact
    <3>1. UnwindAt(calls, unwind)
      BY DEF IInv, Stacks, Aligned
    <3> DEFINE S == {i \in DOMAIN calls : Registers(calls[i])}
    <3>2. \A i, j \in DOMAIN unwind : i < j => unwind[i] < unwind[j]
      BY <2>4, <3>1 DEF UnwindAt
    <3>3. \A i \in DOMAIN unwind : unwind[i] \in S
      BY <2>4, <3>1 DEF UnwindAt
    <3>4. \A c \in S : \E i \in DOMAIN unwind : unwind[i] = c
      BY <2>4, <3>1 DEF UnwindAt
    <3>5. {unwind[i] : i \in DOMAIN unwind} = S
      <4> HIDE DEF S
      <4> QED BY <3>3, <3>4
    <3> QED BY <3>2, <3>5 DEF Enumerates, UnwindExact
  <2> QED BY <2>3, <2>5, <2>6 DEF StacksExact
<1> QED BY <1>1, Invariance, PTL

\* What a function opened or locked is given back once, whichever way the
\* function is left: by its end, by a close, by a return out of a try, or by an
\* exception that jumps over it.
THEOREM GivenBack == Spec => []GivenBackOnce
<1>1. ASSUME IInv PROVE GivenBackOnce
  <2> USE <1>1
  <2>1. /\ resources \in Seq(Slots) /\ Len(resources) \in Nat /\ DOMAIN resources = 1..Len(resources)
        /\ calls \in Seq(Activations)
    BY Facts
  <2>2. OpenOnce(resources, open)
    BY DEF IInv
  <2>3. ToSet(resources) = {resources[i] : i \in 1..Len(resources)}
    BY <2>1 DEF ToSet
  <2>4. open = {e.res : e \in ToSet(resources)}
    BY <2>2, <2>3 DEF OpenOnce
  <2>5. Cardinality(open) = Len(resources)
    <3> DEFINE slot == [i \in 1..Len(resources) |-> resources[i].res]
    <3>1. slot \in [1..Len(resources) -> open] /\ \A o \in open : \E i \in 1..Len(resources) : slot[i] = o
      BY <2>2 DEF OpenOnce
    <3>2. \A i, j \in 1..Len(resources) : slot[i] = slot[j] => i = j
      BY <2>2 DEF OpenOnce
    <3> HIDE DEF slot
    <3>3. slot \in Bijection(1..Len(resources), open)
      <4>1. slot \in Surjection(1..Len(resources), open)
        BY <3>1 DEF Surjection
      <4>2. slot \in Injection(1..Len(resources), open)
        BY <3>1, <3>2 DEF Injection, IsInjective
      <4> QED BY <4>1, <4>2 DEF Bijection
    <3>4. ExistsBijection(1..Len(resources), open)
      BY <3>3 DEF ExistsBijection
    <3> QED BY <2>1, <3>4, FS_CountingElements
  <2>6. \A e \in ToSet(resources) : e.act <= Len(calls) /\ calls[e.act].kind = "fn"
    <3>1. SlotsAt(calls, resources)
      BY DEF IInv, Stacks, Aligned
    <3>2. \A i \in 1..Len(resources) : resources[i].act <= Len(calls) /\ calls[resources[i].act].kind = "fn"
      BY <3>1 DEF SlotsAt
    <3> QED BY <2>3, <3>2
  <2>7. LockHeld
    BY DEF LockHeld, IInv, Mutexed
  <2> QED BY <2>4, <2>5, <2>6, <2>7 DEF GivenBackOnce, ClosedOnce
<1> QED BY <1>1, Invariance, PTL

\* Whose resource it is that goes.
LEMMA OwnerOf ==
  ASSUME IInv, NEW e \in ToSet(resources)
  PROVE  e.res \in open /\ e.act \in Nat /\ (e.res \in Own => e.act = Here)
<1>1. resources \in Seq(Slots) /\ DOMAIN resources = 1..Len(resources) /\ OpenOnce(resources, open)
  BY Facts DEF IInv
<1>2. PICK i \in 1..Len(resources) : resources[i] = e
  BY <1>1 DEF ToSet
<1>3. e.res \in open
  BY <1>1, <1>2 DEF OpenOnce
<1>4. e \in Slots
  BY <1>1, <1>2
<1>5. ASSUME e.res \in Own PROVE e.act = Here
  <2>1. PICK x \in ToSet(resources) : x.act = Here /\ x.res = e.res
    BY <1>5 DEF Own
  <2>2. PICK j \in 1..Len(resources) : resources[j] = x
    BY <1>1, <2>1 DEF ToSet
  <2>3. i = j
    BY <1>1, <1>2, <2>1, <2>2 DEF OpenOnce
  <2> QED BY <1>2, <2>1, <2>2, <2>3
<1> QED BY <1>3, <1>4, <1>5 DEF Slots

Kept == \A e \in ToSet(resources) : e.res \notin open' => e.act >= Len(calls')

LEMMA OwnKept ==
  ASSUME IInv, NEW S, S \subseteq Own, open' = open \ S, Len(calls') \in Nat, Len(calls') <= Here
  PROVE  Kept
<1> SUFFICES ASSUME NEW e \in ToSet(resources), e.res \notin open' PROVE e.act >= Len(calls')
  BY DEF Kept
<1>1. e.act = Here
  BY OwnerOf
<1> QED BY <1>1, Facts

LEMMA MoreKept ==
  ASSUME IInv, open \subseteq open'
  PROVE  Kept
BY OwnerOf DEF Kept

LEMMA FailKept ==
  ASSUME IInv, NEW v \in Values, NEW cs, NEW S, NEW registered, NEW cnt,
         Fail(v, cs, open \ S, registered, cnt), Stacks(cs, frames, unwind, registered),
         ~Catches(cs[Len(cs)]), Len(cs) = Here, S \subseteq Own,
         \A i \in 1..Len(registered) : \E j \in 1..Len(resources) : registered[i] = resources[j]
  PROVE  Kept
<1>1. CASE frames = <<>>
  BY <1>1, MoreKept DEF Fail
<1>2. CASE frames # <<>>
  <2> DEFINE f == Last(frames)
  <2>1. frames \in Seq(Frames) /\ Len(frames) \in Nat
    BY Facts
  <2>2. Innermost(frames, f)
    BY <1>2, <2>1 DEF Innermost, Last
  <2>3. Jumped(cs, unwind, f, v, calls', unwind')
    BY <1>2 DEF Fail, Jumped
  <2>4. open' = (open \ S) \ {registered[i].res : i \in (f.resources + 1)..Len(registered)}
    BY <1>2 DEF Fail
  <2> HIDE DEF f
  <2>5. /\ Aligned(cs, frames, unwind, registered) /\ cs \in Seq(Activations) /\ registered \in Seq(Slots)
        /\ Len(registered) \in Nat
    BY StackTypes DEF Stacks
  <2>6. /\ f.act \in 1..Len(cs) /\ f.resources \in 0..Len(registered)
        /\ \A i \in 1..Len(registered) : registered[i].act < f.act <=> i <= f.resources
    BY <2>2, <2>5, JumpAligned
  <2>7. Len(calls') = f.act
    BY <2>2, <2>3, JumpStacks
  <2> SUFFICES ASSUME NEW e \in ToSet(resources), e.res \notin open' PROVE e.act >= f.act
    BY <2>7 DEF Kept
  <2>8. e.res \in open /\ e.act \in Nat /\ (e.res \in Own => e.act = Here)
    BY OwnerOf
  <2>9. CASE e.res \in S
    BY <2>6, <2>8, <2>9, Facts
  <2>10. CASE e.res \notin S
    <3>1. PICK i \in (f.resources + 1)..Len(registered) : registered[i].res = e.res
      BY <2>4, <2>8, <2>10
    <3>2. i \in 1..Len(registered) /\ ~(i <= f.resources) /\ f.act \in Nat
      BY <2>5, <2>6, <3>1
    <3>3. ~(registered[i].act < f.act) /\ registered[i].act \in Nat
      <4>1. registered[i] \in Slots
        BY <2>5, <3>2
      <4>2. registered[i].act \in Nat
        BY <4>1 DEF Slots
      <4> QED BY <2>6, <3>2, <4>2
    <3>4. PICK j \in 1..Len(resources) : registered[i] = resources[j]
      BY <3>2
    <3>5. resources[j] = e
      <4>1. OpenOnce(resources, open) /\ DOMAIN resources = 1..Len(resources)
        BY Facts DEF IInv
      <4>2. PICK k \in 1..Len(resources) : resources[k] = e
        BY <4>1 DEF ToSet
      <4>3. j = k
        BY <3>1, <3>4, <4>1, <4>2 DEF OpenOnce
      <4> QED BY <4>2, <4>3
    <3> QED BY <2>8, <3>2, <3>3, <3>4, <3>5
  <2> QED BY <2>9, <2>10
<1> QED BY <1>1, <1>2

\* An exception, like the end of a function, closes nothing of the functions
\* that survive it.
THEOREM SurvivorsKeep == Spec => CallersKept
<1>1. ASSUME IInv, Next PROVE Kept
  <2> USE <1>1
  <2>1. /\ Here = Len(calls) /\ Here \in Nat /\ Here > 0 /\ calls \in Seq(Activations)
        /\ resources \in Seq(Slots) /\ Stacks(calls, frames, unwind, resources)
    BY Facts DEF IInv
  <2>2. ASSUME NEW cnt, LeaveFunction(cnt), NEW code, calls' = Popped(code), Top.kind = "fn", Here > 1
        PROVE  Kept
    <3>1. Front(calls) = Under(calls) /\ Under(calls) \in Seq(Activations) /\ Len(Under(calls)) = Here - 1
      <4>1. Stacks(Under(calls), frames, unwind', resources') /\ Front(calls) = Under(calls)
            /\ Len(Under(calls)) = Here - 1
        BY <2>2, LeaveStacks
      <4> QED BY <4>1, StackTypes
    <3>2. Len(calls') = Here - 1
      BY <2>1, <2>2, <3>1 DEF Popped
    <3>3. open' = open \ Own
      BY <2>2 DEF LeaveFunction
    <3>4. Len(calls') \in Nat /\ Len(calls') <= Here
      BY <2>1, <2>2, <3>2
    <3> QED BY <3>3, <3>4, OwnKept
  <2>3. CASE Call \/ NewLocal \/ Bind \/ Open \/ New \/ EndNew \/ Try \/ EndTry \/ WithLock \/ EndLock
             \/ EndHandler
    <3>1. open \subseteq open'
      BY <2>3 DEF Call, NewLocal, Bind, Open, New, EndNew, Try, EndTry, WithLock, EndLock, EndHandler
    <3> QED BY <3>1, MoreKept
  <2>4. CASE Close
    <3>1. PICK r \in Own : open' = open \ {r} /\ calls' = calls
      BY <2>4 DEF Close
    <3>2. {r} \subseteq Own /\ Len(calls') \in Nat /\ Len(calls') <= Here
      BY <2>1, <3>1
    <3> QED BY <3>1, <3>2, OwnKept
  <2>5. CASE Return
    BY <2>2, <2>5 DEF Return, Runs
  <2>6. CASE ReturnInTry
    BY <2>2, <2>6 DEF ReturnInTry, Runs, InTry
  <2>7. CASE ExitInTry
    BY <2>2, <2>7 DEF ExitInTry, Runs, InTry
  <2>8. CASE PassOn
    BY <2>2, <2>8 DEF PassOn, Back, InTry
  <2>9. CASE LeaveLoop
    <3>1. PICK n \in 0..Len(Top.words), S \in SUBSET Own :
            /\ calls' = [calls EXCEPT ![Here].words = SubSeq(@, 1, n), ![Here].code = "none"]
            /\ open' = open \ S
      BY <2>9 DEF LeaveLoop
    <3>2. Len(calls') = Len(calls)
      <4>1. DOMAIN calls' = DOMAIN calls /\ DOMAIN calls = 1..Len(calls)
        BY <2>1, <3>1
      <4>2. IInv'
        BY <2>9, LeaveLoopStep
      <4>3. calls' \in Seq(Activations)
        BY <4>2, StackTypes DEF IInv
      <4>4. DOMAIN calls' = 1..Len(calls') /\ Len(calls') \in Nat
        BY <4>3
      <4> QED BY <2>1, <4>1, <4>4
    <3>3. S \subseteq Own /\ Len(calls') \in Nat /\ Len(calls') <= Here
      BY <2>1, <3>2
    <3> QED BY <3>1, <3>3, OwnKept
  <2>10. CASE ReturnFromTry
    <3> DEFINE value == IF returned = Null THEN <<>> ELSE <<returned>>
    <3>1. PICK keeps \in BOOLEAN :
            /\ Back({"fn"}) /\ Here > 1
            /\ LeaveFunction(IF keeps THEN count ELSE Released(count, Times(value)))
            /\ calls' = IF keeps THEN [Front(calls) EXCEPT ![Here - 1].words = @ \o value]
                        ELSE Popped("normal")
      BY <2>10 DEF ReturnFromTry
    <3>2. Top.kind = "fn"
      BY <3>1 DEF Back
    <3> HIDE DEF value
    <3>3. CASE ~keeps
      BY <2>2, <3>1, <3>2, <3>3
    <3>4. CASE keeps
      <4>1. LeaveFunction(count) /\ calls' = [Front(calls) EXCEPT ![Here - 1].words = @ \o value]
        BY <3>1, <3>4
      <4>2. /\ Stacks(Under(calls), frames, unwind', resources') /\ Front(calls) = Under(calls)
            /\ Len(Under(calls)) = Here - 1
        BY <3>1, <3>2, <4>1, LeaveStacks
      <4>3. Under(calls) \in Seq(Activations)
        BY <4>2, StackTypes
      <4>4. Len(calls') = Here - 1
        <5>1. DOMAIN calls' = 1..(Here - 1)
          BY <4>1, <4>2, <4>3
        <5>2. IInv'
          BY <2>10, ReturnFromTryStep
        <5>3. calls' \in Seq(Activations)
          BY <5>2, StackTypes DEF IInv
        <5>4. DOMAIN calls' = 1..Len(calls') /\ Len(calls') \in Nat
          BY <5>3
        <5> QED BY <2>1, <3>1, <5>1, <5>4
      <4>5. open' = open \ Own
        BY <4>1 DEF LeaveFunction
      <4>6. Len(calls') \in Nat /\ Len(calls') <= Here
        BY <2>1, <3>1, <4>4
      <4> QED BY <4>5, <4>6, OwnKept
    <3> QED BY <3>3, <3>4
  <2>11. CASE Raise
    <3> DEFINE a == [Top EXCEPT !.words = <<>>]
               cs == TopAs(calls, a)
               rs == OthersOf(Own)
    <3>1. PICK v \in Visible \cup {x \in Values : count[x] = 0} :
            /\ Runs({"fn"})
            /\ Fail(v, [calls EXCEPT ![Here].words = <<>>], open \ Own, rs,
                    Released(Retained(count, v), Times(Top.words)))
      BY <2>11 DEF Raise
    <3>2. Top.kind = "fn" /\ v \in Values
      BY <3>1, Facts DEF Runs
    <3>3. [calls EXCEPT ![Here].words = <<>>] = cs
      BY Facts DEF TopAs
    <3>4. Sound(a) /\ a.kind = Top.kind /\ a.mutex = Top.mutex /\ a.err = Top.err /\ a \in Activations
      <4>1. <<>> \in Seq(Values)
        OBVIOUS
      <4>2. a \in Activations
        BY <4>1, Facts DEF Activations
      <4> QED BY <3>2, <4>2, Facts DEF Activations, Sound
    <3>5. ~Catches(a)
      BY <3>2, <3>4 DEF Catches
    <3>6. Stacks(calls, frames, unwind, rs)
      BY Dropped
    <3>7. Fail(v, cs, open \ Own, rs, Released(Retained(count, v), Times(Top.words)))
      BY <3>1, <3>3
    <3>8. \A i \in 1..Len(rs) : \E j \in 1..Len(resources) : rs[i] = resources[j]
      <4>1. Spares(resources, Len(resources), Own, rs)
        BY <2>1, OthersSpare
      <4> HIDE DEF rs
      <4> QED BY <4>1 DEF Spares, Places
    <3> HIDE DEF a, rs
    <3>9. Stacks(cs, frames, unwind, rs)
      BY <3>4, <3>6, Facts, TopStacks
    <3>10. cs[Len(cs)] = a /\ Len(cs) = Here
      <4>1. cs[Len(calls)] = a /\ Len(cs) = Len(calls)
        BY <2>1, <3>4, ReplaceTop
      <4> QED BY <2>1, <4>1
    <3> HIDE DEF cs
    <3> QED BY <3>2, <3>5, <3>7, <3>8, <3>9, <3>10, FailKept
  <2>12. ASSUME NEW v \in Values, NEW cnt, Fail(v, calls, open, resources, cnt), ~Catches(Top)
         PROVE  Kept
    <3> DEFINE none == {}
    <3>1. open = open \ none /\ none \subseteq Own
      OBVIOUS
    <3> HIDE DEF none
    <3>2. Fail(v, calls, open \ none, resources, cnt)
      BY <2>12, <3>1
    <3>3. \A i \in 1..Len(resources) : \E j \in 1..Len(resources) : resources[i] = resources[j]
      OBVIOUS
    <3>4. ~Catches(calls[Len(calls)])
      BY <2>12, Facts
    <3> QED BY <2>1, <3>1, <3>2, <3>3, <3>4, FailKept
  <2>13. CASE Throw
    <3>1. PICK v \in Values : Runs({"fn"}) /\ Fail(v, calls, open, resources, Retained(count, v))
      BY <2>13 DEF Throw
    <3>2. ~Catches(Top)
      BY <3>1 DEF Runs, Catches
    <3> QED BY <2>12, <3>1, <3>2
  <2>14. CASE Propagate
    <3>1. Runs({"handler"}) /\ Fail(Top.words[1], calls, open, resources, count)
      BY <2>14 DEF Propagate
    <3>2. ~Catches(Top) /\ Top.kind = "handler"
      BY <3>1 DEF Runs, Catches
    <3>3. Top.words[1] \in Values
      <4>1. Len(Top.words) > 0 /\ Top.words \in Seq(Values)
        BY <3>2, Facts DEF Sound
      <4> QED BY <4>1
    <3> QED BY <2>12, <3>1, <3>2, <3>3
  <2>15. CASE LockFails
    <3>1. Top.err # Null /\ Fail(Top.err, calls, open, resources, count)
      BY <2>15 DEF LockFails
    <3>2. ~Catches(Top) /\ Top.err \in Values
      BY <3>1, Facts DEF Catches, Activations
    <3> QED BY <2>12, <3>1, <3>2
  <2> QED BY <2>3, <2>4, <2>5, <2>6, <2>7, <2>8, <2>9, <2>10, <2>11, <2>13, <2>14, <2>15 DEF Next
<1>2. ASSUME IInv, [Next]_vars
      PROVE  [\A e \in ToSet(resources) : e.res \notin open' => e.act >= Len(calls')]_vars
  BY <1>1, <1>2 DEF Kept
<1> QED BY <1>2, Invariance, PTL DEF Spec, CallersKept

-----------------------------------------------------------------------------
(* Counting references                                                       *)

\* The references to v of the whole native stack.
Tally(cs, v) == Cardinality(References(cs, 1..Len(cs), v))

LEMMA Apart ==
  ASSUME NEW cs \in Seq(Activations), NEW S, NEW T, S \subseteq 1..Len(cs), T \subseteq 1..Len(cs),
         S \cap T = {}, NEW v
  PROVE  Cardinality(References(cs, S \cup T, v))
           = Cardinality(References(cs, S, v)) + Cardinality(References(cs, T, v))
<1> DEFINE A == References(cs, S, v)
           B == References(cs, T, v)
<1>1. References(cs, S \cup T, v) = A \cup B
  BY DEF References
<1>2. A \cap B = {}
  <2>1. \A x \in A : x[1] \in S
    BY DEF References
  <2>2. \A x \in B : x[1] \in T
    BY DEF References
  <2> QED BY <2>1, <2>2
<1>3. /\ IsFiniteSet(A) /\ IsFiniteSet(B) /\ Cardinality(A) \in Nat /\ Cardinality(B) \in Nat
  BY ReferencesFinite
<1> HIDE DEF A, B
<1>4. Cardinality(A \cup B) = Cardinality(A) + Cardinality(B) - Cardinality(A \cap B)
  BY <1>3, FS_Union
<1>5. Cardinality(A \cap B) = 0
  BY <1>2, FS_EmptySet
<1>6. Cardinality(A \cup B) = Cardinality(A) + Cardinality(B)
  BY <1>3, <1>4, <1>5
<1> QED BY <1>1, <1>6 DEF A, B

LEMMA OfOne ==
  ASSUME NEW cs \in Seq(Activations), NEW i \in 1..Len(cs), NEW v \in Values
  PROVE  Cardinality(References(cs, {i}, v)) = Times(cs[i].words)[v]
<1> DEFINE P == {j \in DOMAIN cs[i].words : cs[i].words[j] = v}
<1>1. References(cs, {i}, v) = {i} \X P
  BY DEF References
<1>2. IsFiniteSet(P) /\ Cardinality(P) \in Nat
  <2>1. cs[i] \in Activations
    OBVIOUS
  <2>2. cs[i].words \in Seq(Values)
    BY <2>1 DEF Activations
  <2>3. Len(cs[i].words) \in Nat /\ DOMAIN cs[i].words = 1..Len(cs[i].words)
    BY <2>2, LenNat
  <2>4. IsFiniteSet(1..Len(cs[i].words))
    <3>1. 1 \in Int /\ Len(cs[i].words) \in Int
      BY <2>3
    <3> QED BY <3>1, FS_Interval
  <2>5. IsFiniteSet(P)
    BY <2>3, <2>4, FS_Subset
  <2> QED BY <2>5, FS_CardinalityType
<1>3. Times(cs[i].words)[v] = Cardinality(P)
  BY DEF Times
<1> HIDE DEF P
<1>4. IsFiniteSet({i}) /\ Cardinality({i}) = 1
  BY FS_Singleton
<1>5. Cardinality({i} \X P) = Cardinality({i}) * Cardinality(P)
  BY <1>2, <1>4, FS_Product
<1>6. Cardinality({i} \X P) = Cardinality(P)
  BY <1>2, <1>4, <1>5
<1> QED BY <1>1, <1>3, <1>6

LEMMA SameWords ==
  ASSUME NEW cs, NEW ds, NEW S, NEW v, \A i \in S : ds[i].words = cs[i].words
  PROVE  References(ds, S, v) = References(cs, S, v)
BY DEF References

LEMMA TallyType ==
  ASSUME NEW cs \in Seq(Activations), NEW v
  PROVE  Tally(cs, v) \in Nat
BY ReferencesFinite DEF Tally

LEMMA TallySame ==
  ASSUME NEW cs \in Seq(Activations), NEW ds, Len(ds) = Len(cs),
         \A i \in 1..Len(cs) : ds[i].words = cs[i].words, NEW v
  PROVE  Tally(ds, v) = Tally(cs, v)
BY SameWords DEF Tally

\* The frame on top, and what is under it.
LEMMA TallyTop ==
  ASSUME NEW cs \in Seq(Activations), Len(cs) > 0, NEW v \in Values
  PROVE  /\ Tally(cs, v) = Tally(Under(cs), v) + Times(cs[Len(cs)].words)[v]
         /\ Tally(Under(cs), v) \in Nat /\ Times(cs[Len(cs)].words)[v] \in Nat
<1> DEFINE n == Len(cs)
           b == Under(cs)
<1>1. n \in Nat /\ n - 1 \in 0..n /\ n \in 1..n
  BY LenNat
<1>2. b \in Seq(Activations) /\ Len(b) = n - 1 /\ \A i \in 1..(n - 1) : b[i] = cs[i]
  BY <1>1, CutSeq DEF Under
<1>3. /\ 1..n = (1..(n - 1)) \cup {n} /\ (1..(n - 1)) \cap {n} = {}
      /\ 1..(n - 1) \subseteq 1..n /\ {n} \subseteq 1..n
  BY <1>1
<1>4. Tally(cs, v) = Cardinality(References(cs, 1..(n - 1), v)) + Cardinality(References(cs, {n}, v))
  <2> DEFINE S == 1..(n - 1)
             T == {n}
  <2>1. 1..n = S \cup T /\ S \cap T = {} /\ S \subseteq 1..Len(cs) /\ T \subseteq 1..Len(cs)
    BY <1>3
  <2> HIDE DEF S, T
  <2>2. Cardinality(References(cs, S \cup T, v))
          = Cardinality(References(cs, S, v)) + Cardinality(References(cs, T, v))
    BY <2>1, Apart
  <2> QED BY <2>1, <2>2 DEF S, T, Tally
<1>5. Cardinality(References(cs, {n}, v)) = Times(cs[n].words)[v]
  BY <1>1, OfOne
<1>6. Cardinality(References(cs, 1..(n - 1), v)) = Tally(b, v)
  <2>1. References(b, 1..(n - 1), v) = References(cs, 1..(n - 1), v)
    BY <1>2, SameWords
  <2> QED BY <1>2, <2>1 DEF Tally
<1>7. Tally(b, v) \in Nat
  BY <1>2, TallyType
<1>8. Times(cs[n].words)[v] \in Nat
  <2>1. cs[n] \in Activations
    BY <1>1
  <2>2. cs[n].words \in Seq(Values)
    BY <2>1 DEF Activations
  <2> QED BY <2>2, TimesType
<1> QED BY <1>4, <1>5, <1>6, <1>7, <1>8

LEMMA UnderPush ==
  ASSUME NEW cs \in Seq(Activations), NEW a \in Activations
  PROVE  Under(Append(cs, a)) = cs
BY DEF Under

LEMMA TallyPush ==
  ASSUME NEW cs \in Seq(Activations), NEW a \in Activations, NEW v \in Values
  PROVE  Tally(Append(cs, a), v) = Tally(cs, v) + Times(a.words)[v] /\ Times(a.words)[v] \in Nat
<1> DEFINE ds == Append(cs, a)
<1>1. /\ ds \in Seq(Activations) /\ Len(ds) = Len(cs) + 1 /\ ds[Len(cs) + 1] = a /\ Len(cs) \in Nat
  BY PushSeq, LenNat
<1>2. Under(ds) = cs
  BY UnderPush
<1> HIDE DEF ds
<1>3. Len(ds) > 0 /\ ds[Len(ds)] = a
  BY <1>1
<1>4. Tally(ds, v) = Tally(Under(ds), v) + Times(ds[Len(ds)].words)[v] /\ Times(ds[Len(ds)].words)[v] \in Nat
  BY <1>1, <1>3, TallyTop
<1> QED BY <1>2, <1>3, <1>4 DEF ds

LEMMA UnderTopAs ==
  ASSUME NEW cs \in Seq(Activations), Len(cs) > 0, NEW a \in Activations
  PROVE  Under(TopAs(cs, a)) = Under(cs)
<1> DEFINE ds == TopAs(cs, a)
<1>1. /\ ds \in Seq(Activations) /\ Len(ds) = Len(cs) /\ Len(cs) \in Nat
      /\ \A i \in 1..Len(cs) : i # Len(cs) => ds[i] = cs[i]
  BY ReplaceTop, LenNat
<1> HIDE DEF ds
<1>2. Len(cs) - 1 \in 0..Len(cs)
  BY <1>1
<1>3. /\ Under(cs) \in Seq(Activations) /\ Len(Under(cs)) = Len(cs) - 1
      /\ \A i \in 1..(Len(cs) - 1) : Under(cs)[i] = cs[i]
  BY <1>2, CutSeq DEF Under
<1>4. /\ Under(ds) \in Seq(Activations) /\ Len(Under(ds)) = Len(cs) - 1
      /\ \A i \in 1..(Len(cs) - 1) : Under(ds)[i] = ds[i]
  BY <1>1, <1>2, CutSeq DEF Under
<1>5. \A i \in 1..(Len(cs) - 1) : Under(ds)[i] = Under(cs)[i]
  BY <1>1, <1>3, <1>4
<1>6. Under(ds) = Under(cs)
  BY <1>3, <1>4, <1>5, SeqEqual
<1> QED BY <1>6 DEF ds

LEMMA TallyTopAs ==
  ASSUME NEW cs \in Seq(Activations), Len(cs) > 0, NEW a \in Activations, NEW v \in Values
  PROVE  Tally(TopAs(cs, a), v) = Tally(Under(cs), v) + Times(a.words)[v] /\ Times(a.words)[v] \in Nat
<1> DEFINE ds == TopAs(cs, a)
<1>1. ds \in Seq(Activations) /\ Len(ds) = Len(cs) /\ ds[Len(cs)] = a
  BY ReplaceTop
<1>2. Under(ds) = Under(cs)
  BY UnderTopAs
<1> HIDE DEF ds
<1>3. Tally(ds, v) = Tally(Under(ds), v) + Times(ds[Len(ds)].words)[v] /\ Times(ds[Len(ds)].words)[v] \in Nat
  BY <1>1, TallyTop
<1> QED BY <1>1, <1>2, <1>3 DEF ds

LEMMA OccursFinite ==
  ASSUME NEW ws \in Seq(Values), NEW v
  PROVE  /\ IsFiniteSet({j \in DOMAIN ws : ws[j] = v})
         /\ Cardinality({j \in DOMAIN ws : ws[j] = v}) \in Nat
<1>1. Len(ws) \in Nat /\ DOMAIN ws = 1..Len(ws)
  BY LenNat
<1>2. IsFiniteSet(1..Len(ws))
  BY <1>1, FS_Interval
<1>3. {j \in DOMAIN ws : ws[j] = v} \subseteq 1..Len(ws)
  BY <1>1
<1>4. IsFiniteSet({j \in DOMAIN ws : ws[j] = v})
  BY <1>2, <1>3, FS_Subset
<1> QED BY <1>4, FS_CardinalityType

LEMMA TimesEmpty == \A v \in Values : Times(<<>>)[v] = 0
<1> SUFFICES ASSUME NEW v \in Values PROVE Cardinality({j \in DOMAIN <<>> : <<>>[j] = v}) = 0
  BY DEF Times
<1>1. {j \in DOMAIN <<>> : <<>>[j] = v} = {}
  OBVIOUS
<1> QED BY <1>1, FS_EmptySet

LEMMA TimesOne == \A v, x \in Values : Times(<<x>>)[v] = IF v = x THEN 1 ELSE 0
<1> SUFFICES ASSUME NEW v \in Values, NEW x \in Values
             PROVE  Cardinality({j \in DOMAIN <<x>> : <<x>>[j] = v}) = IF v = x THEN 1 ELSE 0
  BY DEF Times
<1> DEFINE P == {j \in DOMAIN <<x>> : <<x>>[j] = v}
<1>1. v = x => P = {1}
  OBVIOUS
<1>2. v # x => P = {}
  OBVIOUS
<1> HIDE DEF P
<1>3. v = x => Cardinality(P) = 1
  BY <1>1, FS_Singleton
<1>4. v # x => Cardinality(P) = 0
  BY <1>2, FS_EmptySet
<1>5. Cardinality(P) = IF v = x THEN 1 ELSE 0
  BY <1>3, <1>4
<1> QED BY <1>5 DEF P

LEMMA TimesBoth ==
  ASSUME NEW ws \in Seq(Values), NEW us \in Seq(Values), NEW v \in Values
  PROVE  /\ Times(ws \o us)[v] = Times(ws)[v] + Times(us)[v]
         /\ Times(ws)[v] \in Nat /\ Times(us)[v] \in Nat
<1> DEFINE m == Len(ws)
           A == {j \in DOMAIN ws : ws[j] = v}
           B == {j \in DOMAIN us : us[j] = v}
           D == {m + j : j \in B}
           both == ws \o us
<1>1. /\ m \in Nat /\ Len(us) \in Nat /\ DOMAIN ws = 1..m /\ DOMAIN us = 1..Len(us)
      /\ both \in Seq(Values) /\ Len(both) = m + Len(us) /\ DOMAIN both = 1..(m + Len(us))
      /\ \A j \in 1..m : both[j] = ws[j]
      /\ \A j \in 1..Len(us) : both[m + j] = us[j]
  BY LenNat
<1> HIDE DEF both, m
<1>2. A \subseteq 1..m /\ B \subseteq 1..Len(us)
  BY <1>1
<1>3. D \subseteq (m + 1)..(m + Len(us))
  BY <1>1, <1>2
<1>4. {j \in DOMAIN both : both[j] = v} = A \cup D
  <2>1. ASSUME NEW j \in DOMAIN both, both[j] = v PROVE j \in A \cup D
    <3>1. CASE j <= m
      <4>1. j \in 1..m
        BY <1>1, <3>1
      <4> QED BY <1>1, <2>1, <4>1
    <3>2. CASE ~(j <= m)
      <4>1. j - m \in 1..Len(us) /\ m + (j - m) = j
        BY <1>1, <3>2
      <4>2. us[j - m] = v
        BY <1>1, <2>1, <4>1
      <4>3. j - m \in B
        BY <1>1, <4>1, <4>2
      <4> QED BY <4>1, <4>3
    <3> QED BY <3>1, <3>2
  <2>2. ASSUME NEW j \in A PROVE j \in DOMAIN both /\ both[j] = v
    BY <1>1
  <2>3. ASSUME NEW k \in B PROVE m + k \in DOMAIN both /\ both[m + k] = v
    BY <1>1
  <2> QED BY <2>1, <2>2, <2>3
<1>5. A \cap D = {}
  BY <1>1, <1>2, <1>3
<1>6. IsFiniteSet(A) /\ Cardinality(A) \in Nat /\ IsFiniteSet(B) /\ Cardinality(B) \in Nat
  BY OccursFinite
<1>7. IsFiniteSet(D) /\ Cardinality(D) = Cardinality(B)
  <2> DEFINE f == [j \in B |-> m + j]
  <2>1. f \in [B -> D]
    OBVIOUS
  <2>2. \A j, k \in B : f[j] = f[k] => j = k
    BY <1>1, <1>2
  <2>3. \A d \in D : \E j \in B : f[j] = d
    OBVIOUS
  <2> HIDE DEF f, B, D
  <2>4. f \in Surjection(B, D)
    BY <2>1, <2>3 DEF Surjection
  <2>5. f \in Injection(B, D)
    BY <2>1, <2>2 DEF Injection, IsInjective
  <2>6. ExistsBijection(B, D)
    BY <2>4, <2>5 DEF ExistsBijection, Bijection
  <2> QED BY <1>6, <2>6, FS_Bijection
<1>8. Times(ws)[v] = Cardinality(A) /\ Times(us)[v] = Cardinality(B)
  BY DEF Times
<1>9. Times(both)[v] = Cardinality(A \cup D)
  BY <1>4 DEF Times
<1> HIDE DEF A, B, D
<1>10. Cardinality(A \cup D) = Cardinality(A) + Cardinality(D) - Cardinality(A \cap D)
  BY <1>6, <1>7, FS_Union
<1>11. Cardinality(A \cap D) = 0
  BY <1>5, FS_EmptySet
<1>12. Cardinality(A \cup D) = Cardinality(A) + Cardinality(B)
  BY <1>6, <1>7, <1>10, <1>11
<1> QED BY <1>6, <1>8, <1>9, <1>12 DEF both

LEMMA TimesMore ==
  ASSUME NEW ws \in Seq(Values), NEW x \in Values, NEW v \in Values
  PROVE  Times(Append(ws, x))[v] = Times(ws)[v] + (IF v = x THEN 1 ELSE 0) /\ Times(ws)[v] \in Nat
<1>1. Append(ws, x) = ws \o <<x>> /\ <<x>> \in Seq(Values)
  OBVIOUS
<1>2. Times(ws \o <<x>>)[v] = Times(ws)[v] + Times(<<x>>)[v] /\ Times(ws)[v] \in Nat
  BY <1>1, TimesBoth
<1>3. Times(<<x>>)[v] = IF v = x THEN 1 ELSE 0
  BY TimesOne
<1> QED BY <1>1, <1>2, <1>3

LEMMA TimesHalves ==
  ASSUME NEW ws \in Seq(Values), NEW n \in 0..Len(ws), NEW v \in Values
  PROVE  /\ Times(ws)[v] = Times(SubSeq(ws, 1, n))[v] + Times(SubSeq(ws, n + 1, Len(ws)))[v]
         /\ Times(SubSeq(ws, 1, n))[v] \in Nat /\ Times(SubSeq(ws, n + 1, Len(ws)))[v] \in Nat
<1> DEFINE us == SubSeq(ws, 1, n)
           xs == SubSeq(ws, n + 1, Len(ws))
<1>1. us \in Seq(Values) /\ xs \in Seq(Values)
  BY Halves
<1>2. us \o xs = ws
  <2>1. Len(ws) \in Nat /\ n \in Nat /\ n <= Len(ws)
    BY LenNat
  <2>2. Len(us) = n /\ \A i \in 1..n : us[i] = ws[i]
    BY CutSeq
  <2>3. /\ Len(xs) = Len(ws) - n
        /\ \A i \in 1..(Len(ws) - n) : xs[i] = ws[n + i]
    BY <2>1
  <2> HIDE DEF us, xs
  <2>4. Len(us \o xs) = Len(ws) /\ us \o xs \in Seq(Values)
    BY <1>1, <2>1, <2>2, <2>3
  <2>5. \A i \in 1..Len(ws) : (us \o xs)[i] = ws[i]
    <3> SUFFICES ASSUME NEW i \in 1..Len(ws) PROVE (us \o xs)[i] = ws[i]
      OBVIOUS
    <3>1. (us \o xs)[i] = IF i <= Len(us) THEN us[i] ELSE xs[i - Len(us)]
      BY <1>1, <2>1, <2>2, <2>3, ConcatProperties
    <3>2. CASE i <= n
      BY <2>1, <2>2, <3>1, <3>2
    <3>3. CASE ~(i <= n)
      <4>1. i - n \in 1..(Len(ws) - n) /\ n + (i - n) = i
        BY <2>1, <3>3
      <4>2. xs[i - n] = ws[i]
        BY <2>3, <4>1
      <4> QED BY <2>1, <2>2, <3>1, <3>3, <4>2
    <3> QED BY <3>2, <3>3
  <2> QED BY <2>4, <2>5, SeqEqual
<1> HIDE DEF us, xs
<1>3. Times(us \o xs)[v] = Times(us)[v] + Times(xs)[v] /\ Times(us)[v] \in Nat /\ Times(xs)[v] \in Nat
  BY <1>1, TimesBoth
<1> QED BY <1>2, <1>3 DEF us, xs

\* The native frames that UNWIND names above its depth w.
Skipped(un, w) == {un[i] : i \in (w + 1)..Len(un)}

\* What a jump skips: all the words above the frame that it lands in.
LEMMA TallyCut ==
  ASSUME NEW cs, NEW un, Nested(cs), UnwindAt(cs, un), NEW h \in 1..Len(cs),
         NEW w \in 0..Len(un), \A i \in 1..Len(un) : un[i] < h <=> i <= w,
         NEW v \in Values
  PROVE  /\ Tally(cs, v) = Tally(SubSeq(cs, 1, h - 1), v) + Cardinality(References(cs, Skipped(un, w), v))
         /\ Tally(SubSeq(cs, 1, h - 1), v) \in Nat
         /\ Cardinality(References(cs, Skipped(un, w), v)) \in Nat
<1> DEFINE S == Skipped(un, w)
           low == 1..(h - 1)
           high == h..Len(cs)
           b == SubSeq(cs, 1, h - 1)
<1>1. /\ cs \in Seq(Activations) /\ Len(cs) \in Nat /\ h \in Nat /\ h - 1 \in 0..Len(cs)
      /\ un \in Seq(Nat) /\ Len(un) \in Nat /\ w \in Nat
  BY LenNat DEF Nested, UnwindAt
<1>2. /\ low \cup high = 1..Len(cs) /\ low \cap high = {} /\ low \subseteq 1..Len(cs) /\ high \subseteq 1..Len(cs)
  BY <1>1
<1>3. S \subseteq high
  <2> SUFFICES ASSUME NEW i \in (w + 1)..Len(un) PROVE un[i] \in high
    BY DEF Skipped
  <2>1. i \in 1..Len(un) /\ ~(i <= w)
    BY <1>1
  <2>2. un[i] \in 1..Len(cs) /\ ~(un[i] < h)
    BY <2>1 DEF UnwindAt
  <2> QED BY <1>1, <2>2
<1> HIDE DEF S
<1>4. \A c \in high \ S : cs[c].words = <<>>
  <2> SUFFICES ASSUME NEW c \in high \ S PROVE cs[c].words = <<>>
    OBVIOUS
  <2>1. c \in 1..Len(cs) /\ ~(c < h)
    BY <1>1
  <2>2. CASE Registers(cs[c])
    <3>1. PICK i \in 1..Len(un) : un[i] = c
      BY <2>1, <2>2 DEF UnwindAt
    <3>2. ~(i <= w)
      BY <2>1, <3>1
    <3>3. i \in (w + 1)..Len(un)
      BY <1>1, <3>1, <3>2
    <3> QED BY <3>1, <3>3 DEF S, Skipped
  <2>3. CASE ~Registers(cs[c])
    <3>1. Sound(cs[c]) /\ cs[c].kind \in {"try", "lock"}
      BY <2>1, <2>3 DEF Nested, Sound, Activations, Kinds, Registers
    <3> QED BY <3>1 DEF Sound
  <2> QED BY <2>2, <2>3
<1>5. References(cs, high, v) = References(cs, S, v)
  <2>1. \A c \in high \ S : {j \in DOMAIN cs[c].words : cs[c].words[j] = v} = {}
    BY <1>4
  <2> DEFINE Part(i) == {i} \X {j \in DOMAIN cs[i].words : cs[i].words[j] = v}
  <2>2. \A c \in high \ S : Part(c) = {}
    BY <2>1
  <2> HIDE DEF Part, high
  <2>3. UNION {Part(i) : i \in high} = UNION {Part(i) : i \in S}
    BY <1>3, <2>2
  <2> QED BY <2>3 DEF References, Part
<1>6. /\ b \in Seq(Activations) /\ Len(b) = h - 1 /\ \A i \in 1..(h - 1) : b[i] = cs[i]
  BY <1>1, CutSeq
<1>7. Tally(b, v) = Cardinality(References(cs, low, v))
  <2>1. \A i \in low : b[i].words = cs[i].words
    BY <1>6
  <2> HIDE DEF low, b
  <2>2. References(b, low, v) = References(cs, low, v)
    BY <2>1, SameWords
  <2> QED BY <1>6, <2>2 DEF Tally, low
<1> HIDE DEF low, high, b
<1>8. Cardinality(References(cs, low \cup high, v))
        = Cardinality(References(cs, low, v)) + Cardinality(References(cs, high, v))
  BY <1>1, <1>2, Apart
<1>9. Tally(b, v) \in Nat /\ Cardinality(References(cs, high, v)) \in Nat
  BY <1>1, <1>2, <1>6, TallyType, ReferencesFinite
<1> QED BY <1>2, <1>5, <1>7, <1>8, <1>9 DEF Tally, b, S

\* What the count of v owes to the native stack, to the exception that waits
\* on top of it, and to TRY_RETURN.
Owed(cs, ret, v) == Tally(cs, v) + (IF Last(cs).err = v THEN 1 ELSE 0) + (IF ret = v THEN 1 ELSE 0)

CInv == pc = "run" => \A v \in Values \ stray : count[v] = Owed(calls, returned, v)

LEMMA Moved ==
  /\ \A cnt \in [Values -> Int], u, v \in Values :
       Retained(cnt, v)[u] = cnt[u] + (IF u = v THEN 1 ELSE 0)
  /\ \A cnt, times, u : \A x, y \in Nat :
       u \in Values /\ cnt[u] = x + y /\ times[u] = y => Released(cnt, times)[u] = x
BY DEF Retained, Released

\* The program runs: nothing is owed but to the native stack.
LEMMA CountedHere ==
  ASSUME IInv, CInv, pc = "run", Top.err = Null, NEW u \in Values \ stray
  PROVE  /\ count[u] = Tally(calls, u) + (IF returned = u THEN 1 ELSE 0) /\ u \in Values /\ u # Null
         /\ Tally(calls, u) \in Nat /\ count \in [Values -> Int]
<1>1. Last(calls) = Top /\ u # Null /\ Tally(calls, u) \in Nat
  BY NullAssumption, Facts, TallyType DEF Top
<1>2. count[u] = Owed(calls, returned, u)
  BY DEF CInv
<1>3. Last(calls).err # u
  BY <1>1
<1> QED BY <1>1, <1>2, <1>3 DEF Owed, IInv, Types

\* The same after a step: what is to be shown of it.
LEMMA CountedThere ==
  ASSUME \A u \in Values \ stray' :
           /\ Last(calls').err # u /\ Tally(calls', u) \in Nat
           /\ count'[u] = Tally(calls', u) + (IF returned' = u THEN 1 ELSE 0)
  PROVE  CInv'
BY DEF CInv, Owed

LEMMA Relabelled ==
  ASSUME NEW cs \in Seq(Activations), Len(cs) > 0, NEW a \in Activations,
         a.words = cs[Len(cs)].words, NEW u \in Values
  PROVE  Tally(TopAs(cs, a), u) = Tally(cs, u)
BY TallyTop, TallyTopAs

\* A frame without words is pushed.
LEMMA PushCounted ==
  ASSUME IInv, CInv, pc = "run", Top.err = Null, NEW a \in Activations, a.words = <<>>, a.err = Null,
         calls' = Append(calls, a), UNCHANGED <<count, returned, stray>>
  PROVE  CInv'
<1> SUFFICES ASSUME NEW u \in Values \ stray'
             PROVE  /\ Last(calls').err # u /\ Tally(calls', u) \in Nat
                    /\ count'[u] = Tally(calls', u) + (IF returned' = u THEN 1 ELSE 0)
  BY CountedThere
<1>1. /\ count[u] = Tally(calls, u) + (IF returned = u THEN 1 ELSE 0) /\ u \in Values /\ u # Null
      /\ Tally(calls, u) \in Nat
  BY CountedHere
<1>2. Tally(calls', u) = Tally(calls, u) + Times(<<>>)[u]
  BY <1>1, Facts, TallyPush
<1>3. Times(<<>>)[u] = 0
  BY <1>1, TimesEmpty
<1>4. Last(calls') = a
  BY Facts, LastPushed
<1> QED BY <1>1, <1>2, <1>3, <1>4

LEMMA CallCounted == ASSUME IInv, CInv, Call PROVE CInv'
<1> DEFINE a == Activation("fn", <<>>, Null)
<1>1. pc = "run" /\ Top.err = Null /\ calls' = Append(calls, a) /\ UNCHANGED <<count, returned, stray>>
  BY DEF Call, Runs
<1>2. a \in Activations /\ a.words = <<>> /\ a.err = Null
  <2>1. <<>> \in Seq(Values)
    OBVIOUS
  <2> QED BY <2>1 DEF Activation, Activations, Codes, Kinds
<1> HIDE DEF a
<1> QED BY <1>1, <1>2, PushCounted

LEMMA TryCounted == ASSUME IInv, CInv, Try \/ WithLock PROVE CInv'
<1>1. PICK a \in Activations : /\ a.words = <<>> /\ a.err = Null /\ Push(a)
                               /\ pc = "run" /\ Top.err = Null /\ UNCHANGED <<count, returned, stray>>
  <2>1. <<>> \in Seq(Values)
    OBVIOUS
  <2>2. CASE Try
    <3> DEFINE a == Activation("try", <<>>, Null)
    <3>1. a \in Activations /\ a.words = <<>> /\ a.err = Null
      BY <2>1 DEF Activation, Activations, Codes, Kinds
    <3>2. Push(a) /\ pc = "run" /\ Top.err = Null /\ UNCHANGED <<count, returned, stray>>
      BY <2>2 DEF Try, Runs
    <3> HIDE DEF a
    <3> QED BY <3>1, <3>2
  <2>3. CASE WithLock
    <3>1. PICK m \in Mutexes : /\ Push(Activation("lock", <<>>, m)) /\ Runs({"fn"})
                               /\ UNCHANGED <<count, returned, stray>>
      BY <2>3 DEF WithLock
    <3> DEFINE a == Activation("lock", <<>>, m)
    <3>2. a \in Activations /\ a.words = <<>> /\ a.err = Null
      BY <2>1 DEF Activation, Activations, Codes, Kinds
    <3>3. Push(a) /\ pc = "run" /\ Top.err = Null
      BY <3>1 DEF Runs
    <3> HIDE DEF a
    <3> QED BY <3>1, <3>2, <3>3
  <2> QED BY <2>2, <2>3
<1>2. CASE Len(frames) >= MaxTry
  BY <1>1, <1>2 DEF Push, CInv
<1>3. CASE ~(Len(frames) >= MaxTry)
  <2>1. calls' = Append(calls, a)
    BY <1>1, <1>3 DEF Push
  <2> QED BY <1>1, <2>1, PushCounted
<1> QED BY <1>2, <1>3

LEMMA NewCounted == ASSUME IInv, CInv, New PROVE CInv'
<1>1. PICK v \in Values : /\ Runs({"fn"}) /\ calls' = Append(calls, Activation("new", <<v>>, Null))
                          /\ count' = Retained(count, v) /\ UNCHANGED <<returned, stray>>
  BY DEF New
<1> DEFINE a == Activation("new", <<v>>, Null)
<1>2. a \in Activations /\ a.words = <<v>> /\ a.err = Null
  <2>1. <<v>> \in Seq(Values)
    OBVIOUS
  <2> QED BY <2>1 DEF Activation, Activations, Codes, Kinds
<1>3. calls' = Append(calls, a) /\ pc = "run" /\ Top.err = Null
  BY <1>1 DEF Runs
<1> HIDE DEF a
<1> SUFFICES ASSUME NEW u \in Values \ stray'
             PROVE  /\ Last(calls').err # u /\ Tally(calls', u) \in Nat
                    /\ count'[u] = Tally(calls', u) + (IF returned' = u THEN 1 ELSE 0)
  BY CountedThere
<1>4. /\ count[u] = Tally(calls, u) + (IF returned = u THEN 1 ELSE 0) /\ u \in Values /\ u # Null
      /\ Tally(calls, u) \in Nat /\ count \in [Values -> Int]
  BY <1>1, <1>3, CountedHere
<1>5. Tally(calls', u) = Tally(calls, u) + Times(<<v>>)[u]
  <2>1. Tally(Append(calls, a), u) = Tally(calls, u) + Times(a.words)[u]
    BY <1>2, <1>4, Facts, TallyPush
  <2> QED BY <1>2, <1>3, <2>1
<1>6. Times(<<v>>)[u] = IF u = v THEN 1 ELSE 0
  BY <1>4, TimesOne
<1>7. count'[u] = count[u] + (IF u = v THEN 1 ELSE 0)
  BY <1>1, <1>4, Moved
<1>8. Last(calls') = a
  BY <1>2, <1>3, Facts, LastPushed
<1> QED BY <1>1, <1>2, <1>4, <1>5, <1>6, <1>7, <1>8

LEMMA WordCounted == ASSUME IInv, CInv, NewLocal \/ Bind PROVE CInv'
<1>1. PICK v \in Values : /\ Runs({"fn"}) /\ calls' = [calls EXCEPT ![Here].words = Append(@, v)]
                          /\ count' = Retained(count, v) /\ UNCHANGED <<returned, stray>>
  BY Facts DEF NewLocal, Bind
<1> DEFINE a == [Top EXCEPT !.words = Append(@, v)]
<1>2. pc = "run" /\ Top.err = Null
  BY <1>1 DEF Runs
<1>3. a \in Activations /\ a.words = Append(Top.words, v) /\ a.err = Null
  <2>1. Append(Top.words, v) \in Seq(Values) /\ Top \in Activations
    BY Facts
  <2> QED BY <1>2, <2>1 DEF Activations
<1>4. calls' = TopAs(calls, a)
  BY <1>1, Facts DEF TopAs
<1> HIDE DEF a
<1>5. Last(calls') = a
  <2>1. Len(TopAs(calls, a)) = Len(calls) /\ TopAs(calls, a)[Len(calls)] = a
    BY <1>3, Facts, ReplaceTop
  <2> QED BY <1>4, <2>1 DEF Last
<1> SUFFICES ASSUME NEW u \in Values \ stray'
             PROVE  /\ Last(calls').err # u /\ Tally(calls', u) \in Nat
                    /\ count'[u] = Tally(calls', u) + (IF returned' = u THEN 1 ELSE 0)
  BY CountedThere
<1>6. /\ count[u] = Tally(calls, u) + (IF returned = u THEN 1 ELSE 0) /\ u \in Values /\ u # Null
      /\ Tally(calls, u) \in Nat /\ count \in [Values -> Int]
  BY <1>1, <1>2, CountedHere
<1>7. /\ Tally(calls, u) = Tally(Under(calls), u) + Times(Top.words)[u]
      /\ Tally(Under(calls), u) \in Nat
  BY <1>6, Facts, TallyTop
<1>8. Tally(calls', u) = Tally(Under(calls), u) + Times(Append(Top.words, v))[u]
  <2>1. Tally(TopAs(calls, a), u) = Tally(Under(calls), u) + Times(a.words)[u]
    BY <1>3, <1>6, Facts, TallyTopAs
  <2> QED BY <1>3, <1>4, <2>1
<1>9. /\ Times(Append(Top.words, v))[u] = Times(Top.words)[u] + (IF u = v THEN 1 ELSE 0)
      /\ Times(Top.words)[u] \in Nat
  BY <1>6, Facts, TimesMore
<1>10. count'[u] = count[u] + (IF u = v THEN 1 ELSE 0)
  BY <1>1, <1>6, Moved
<1> QED BY <1>1, <1>3, <1>5, <1>6, <1>7, <1>8, <1>9, <1>10

LEMMA SlotCounted == ASSUME IInv, CInv, Open \/ Close PROVE CInv'
BY DEF Open, Close, CInv

LEMMA Recoded ==
  ASSUME NEW cs \in Seq(Activations), Len(cs) > 0, NEW code \in Codes, NEW ds,
         ds = cs \/ ds = [cs EXCEPT ![Len(cs)].code = code], NEW u \in Values
  PROVE  Tally(ds, u) = Tally(cs, u) /\ Last(ds).err = Last(cs).err
<1>1. CASE ds = cs
  BY <1>1
<1>2. CASE ds = [cs EXCEPT ![Len(cs)].code = code]
  <2> DEFINE top == cs[Len(cs)]
             a == [top EXCEPT !.code = code]
  <2>1. Len(cs) \in Nat /\ Len(cs) \in 1..Len(cs)
    BY LenNat
  <2>2. top \in Activations
    BY <2>1
  <2>3. a \in Activations /\ a.words = top.words /\ a.err = top.err
    BY <2>2 DEF Activations
  <2>4. ds = TopAs(cs, a)
    BY <1>2 DEF TopAs
  <2> HIDE DEF a
  <2>5. Tally(TopAs(cs, a), u) = Tally(cs, u)
    BY <2>3, Relabelled
  <2>6. Len(TopAs(cs, a)) = Len(cs) /\ TopAs(cs, a)[Len(cs)] = a
    BY <2>3, ReplaceTop
  <2> QED BY <2>3, <2>4, <2>5, <2>6 DEF Last
<1> QED BY <1>1, <1>2

\* The function on top gives back its words.
LEMMA LeaveCounted ==
  ASSUME IInv, NEW cnt, NEW u \in Values, NEW k \in Nat, cnt[u] = Tally(calls, u) + k
  PROVE  Released(cnt, Times(Top.words))[u] = Tally(Under(calls), u) + k /\ Tally(Under(calls), u) \in Nat
<1>1. /\ Tally(calls, u) = Tally(Under(calls), u) + Times(Top.words)[u]
      /\ Tally(Under(calls), u) \in Nat /\ Times(Top.words)[u] \in Nat
  BY Facts, TallyTop
<1> DEFINE x == Tally(Under(calls), u) + k
           y == Times(Top.words)[u]
<1>2. x \in Nat /\ y \in Nat /\ cnt[u] = x + y
  BY <1>1
<1> HIDE DEF x, y
<1>3. Times(Top.words)[u] = y
  BY DEF y
<1>4. Released(cnt, Times(Top.words))[u] = x
  BY <1>2, <1>3 DEF Released
<1> QED BY <1>1, <1>4 DEF x

\* Its caller is on top again.
LEMMA PoppedCounted ==
  ASSUME IInv, Here > 1, Top.kind = "fn", NEW cnt, LeaveFunction(cnt), NEW code \in Codes,
         calls' = Popped(code), NEW u \in Values
  PROVE  /\ Tally(calls', u) = Tally(Under(calls), u) /\ Last(calls').err = Null
         /\ count' = Released(cnt, Times(Top.words))
<1>1. /\ Stacks(Under(calls), frames, unwind', resources') /\ Idle(Last(Under(calls)))
      /\ Front(calls) = Under(calls) /\ Len(Under(calls)) = Here - 1
  BY LeaveStacks
<1>2. Under(calls) \in Seq(Activations) /\ Len(Under(calls)) > 0
  BY <1>1, StackTypes
<1>3. calls' = Under(calls) \/ calls' = [Under(calls) EXCEPT ![Len(Under(calls))].code = code]
  BY <1>1 DEF Popped
<1>4. Tally(calls', u) = Tally(Under(calls), u) /\ Last(calls').err = Last(Under(calls)).err
  BY <1>2, <1>3, Recoded
<1> QED BY <1>1, <1>4 DEF Idle, LeaveFunction

LEMMA ReturnCounted == ASSUME IInv, CInv, Return PROVE CInv'
<1>1. /\ pc = "run" /\ Top.err = Null /\ Top.kind = "fn" /\ Here > 1 /\ LeaveFunction(count)
      /\ calls' = Popped("normal") /\ returned' = returned /\ stray' = stray /\ returned = Null
  BY Running DEF Return, Runs, LeaveFunction
<1> SUFFICES ASSUME NEW u \in Values \ stray'
             PROVE  /\ Last(calls').err # u /\ Tally(calls', u) \in Nat
                    /\ count'[u] = Tally(calls', u) + (IF returned' = u THEN 1 ELSE 0)
  BY CountedThere
<1>2. count[u] = Tally(calls, u) + 0 /\ u \in Values /\ u # Null /\ Tally(calls, u) \in Nat
  BY <1>1, CountedHere
<1>3. /\ Tally(calls', u) = Tally(Under(calls), u) /\ Last(calls').err = Null
      /\ count' = Released(count, Times(Top.words))
  BY <1>1, <1>2, PoppedCounted DEF Codes
<1>4. count'[u] = Tally(Under(calls), u) + 0 /\ Tally(Under(calls), u) \in Nat
  BY <1>2, <1>3, LeaveCounted
<1> QED BY <1>1, <1>2, <1>3, <1>4

LEMMA ReturnInTryCounted == ASSUME IInv, CInv, ReturnInTry PROVE CInv'
<1>1. PICK v \in Visible : /\ Runs({"fn"}) /\ InTry /\ LeaveFunction(Retained(count, v))
                           /\ calls' = Popped("return") /\ returned' = v
  BY DEF ReturnInTry
<1>2. /\ pc = "run" /\ Top.err = Null /\ Top.kind = "fn" /\ Here > 1 /\ stray' = stray
      /\ returned = Null /\ v \in Values
  BY <1>1, Running, Facts DEF Runs, LeaveFunction, InTry
<1> SUFFICES ASSUME NEW u \in Values \ stray'
             PROVE  /\ Last(calls').err # u /\ Tally(calls', u) \in Nat
                    /\ count'[u] = Tally(calls', u) + (IF returned' = u THEN 1 ELSE 0)
  BY CountedThere
<1>3. /\ count[u] = Tally(calls, u) /\ u \in Values /\ u # Null /\ Tally(calls, u) \in Nat
      /\ count \in [Values -> Int]
  BY <1>2, CountedHere
<1> DEFINE cnt == Retained(count, v)
           k == IF u = v THEN 1 ELSE 0
<1>4. cnt[u] = Tally(calls, u) + k /\ k \in Nat
  BY <1>2, <1>3, Moved
<1>5. /\ Tally(calls', u) = Tally(Under(calls), u) /\ Last(calls').err = Null
      /\ count' = Released(cnt, Times(Top.words))
  BY <1>1, <1>2, <1>3, PoppedCounted DEF Codes
<1> HIDE DEF cnt, k
<1>6. count'[u] = Tally(Under(calls), u) + k /\ Tally(Under(calls), u) \in Nat
  BY <1>3, <1>4, <1>5, LeaveCounted
<1> QED BY <1>1, <1>3, <1>5, <1>6 DEF k

\* A code is passed on, and TRY_RETURN keeps what it has.
LEMMA PassCounted ==
  ASSUME IInv, CInv, pc = "run", Top.err = Null, Top.kind = "fn", Here > 1, LeaveFunction(count),
         NEW code \in Codes, calls' = Popped(code), returned' = returned
  PROVE  CInv'
<1>1. stray' = stray
  BY DEF LeaveFunction
<1> SUFFICES ASSUME NEW u \in Values \ stray'
             PROVE  /\ Last(calls').err # u /\ Tally(calls', u) \in Nat
                    /\ count'[u] = Tally(calls', u) + (IF returned' = u THEN 1 ELSE 0)
  BY CountedThere
<1> DEFINE k == IF returned = u THEN 1 ELSE 0
<1>2. count[u] = Tally(calls, u) + k /\ u \in Values /\ u # Null /\ k \in Nat
  BY <1>1, CountedHere
<1>3. /\ Tally(calls', u) = Tally(Under(calls), u) /\ Last(calls').err = Null
      /\ count' = Released(count, Times(Top.words))
  BY <1>2, PoppedCounted
<1> HIDE DEF k
<1>4. count'[u] = Tally(Under(calls), u) + k /\ Tally(Under(calls), u) \in Nat
  BY <1>2, <1>3, LeaveCounted
<1> QED BY <1>2, <1>3, <1>4 DEF k

LEMMA ExitInTryCounted == ASSUME IInv, CInv, ExitInTry PROVE CInv'
<1>1. PICK code \in {"return", "break"} : /\ Runs({"fn"}) /\ InTry /\ LeaveFunction(count)
                                          /\ calls' = Popped(code) /\ returned' = returned
  BY DEF ExitInTry
<1>2. code \in Codes /\ pc = "run" /\ Top.err = Null /\ Top.kind = "fn" /\ Here > 1
  BY <1>1 DEF Codes, Runs, InTry
<1> QED BY <1>1, <1>2, PassCounted

LEMMA PassOnCounted == ASSUME IInv, CInv, PassOn PROVE CInv'
<1>1. /\ Back({"fn"}) /\ InTry /\ LeaveFunction(count) /\ calls' = Popped(Top.code) /\ returned' = returned
  BY DEF PassOn
<1>2. Top.code \in Codes /\ pc = "run" /\ Top.kind = "fn" /\ Here > 1
  BY <1>1, Facts DEF Activations, Back, InTry
<1>3. Top.err = Null
  BY <1>2, Facts DEF Sound
<1> QED BY <1>1, <1>2, <1>3, PassCounted

LEMMA ReturnFromTryCounted == ASSUME IInv, CInv, ReturnFromTry PROVE CInv'
<1> DEFINE value == IF returned = Null THEN <<>> ELSE <<returned>>
           below == calls[Here - 1]
           a == [below EXCEPT !.words = @ \o value]
<1>1. PICK keeps \in BOOLEAN :
        /\ Back({"fn"}) /\ Here > 1 /\ (keeps => below.kind = "fn")
        /\ LeaveFunction(IF keeps THEN count ELSE Released(count, Times(value)))
        /\ calls' = IF keeps THEN [Front(calls) EXCEPT ![Here - 1].words = @ \o value] ELSE Popped("normal")
        /\ returned' = Null
  BY DEF ReturnFromTry
<1>2. pc = "run" /\ Top.kind = "fn" /\ Top.err = Null /\ stray' = stray
  BY <1>1, Facts DEF Back, Sound, LeaveFunction
<1>3. value \in Seq(Values) /\ \A u \in Values : Times(value)[u] = IF returned = u THEN 1 ELSE 0
  <2>1. CASE returned = Null
    <3>1. value = <<>> /\ \A u \in Values : u # Null
      BY <2>1, Facts
    <3>2. value \in Seq(Values)
      BY <3>1
    <3> HIDE DEF value
    <3> QED BY <2>1, <3>1, <3>2, TimesEmpty
  <2>2. CASE returned # Null
    <3>1. value = <<returned>> /\ returned \in Values
      BY <2>2 DEF IInv, Types
    <3>2. value \in Seq(Values)
      BY <3>1
    <3> HIDE DEF value
    <3> QED BY <3>1, <3>2, TimesOne
  <2> QED BY <2>1, <2>2
<1> HIDE DEF value
<1> SUFFICES ASSUME NEW u \in Values \ stray'
             PROVE  /\ Last(calls').err # u /\ Tally(calls', u) \in Nat
                    /\ count'[u] = Tally(calls', u) + (IF returned' = u THEN 1 ELSE 0)
  BY CountedThere
<1> DEFINE k == Times(value)[u]
<1>4. count[u] = Tally(calls, u) + k /\ u \in Values /\ u # Null /\ k \in Nat /\ Tally(calls, u) \in Nat
  BY <1>2, <1>3, CountedHere
<1>5. CASE ~keeps
  <2> DEFINE cnt == Released(count, Times(value))
  <2>1. LeaveFunction(cnt) /\ calls' = Popped("normal")
    BY <1>1, <1>5
  <2>2. cnt[u] = Tally(calls, u) + 0
    BY <1>4 DEF Released
  <2> HIDE DEF cnt, k
  <2>3. /\ Tally(calls', u) = Tally(Under(calls), u) /\ Last(calls').err = Null
        /\ count' = Released(cnt, Times(Top.words))
    BY <1>1, <1>2, <1>4, <2>1, PoppedCounted DEF Codes
  <2>4. count'[u] = Tally(Under(calls), u) + 0 /\ Tally(Under(calls), u) \in Nat
    BY <1>4, <2>2, <2>3, LeaveCounted
  <2> QED BY <1>1, <1>4, <2>3, <2>4
<1>6. CASE keeps
  <2>1. LeaveFunction(count) /\ calls' = [Front(calls) EXCEPT ![Here - 1].words = @ \o value]
    BY <1>1, <1>6
  <2>2. count' = Released(count, Times(Top.words))
    BY <2>1 DEF LeaveFunction
  <2>3. /\ Stacks(Under(calls), frames, unwind', resources') /\ Idle(Last(Under(calls)))
        /\ Front(calls) = Under(calls) /\ Last(Under(calls)) = below /\ Len(Under(calls)) = Here - 1
    BY <1>1, <1>2, <2>1, LeaveStacks
  <2>4. Under(calls) \in Seq(Activations) /\ Len(Under(calls)) > 0 /\ Under(calls)[Here - 1] = below
    BY <2>3, StackTypes DEF Last
  <2>5. below \in Activations
    BY <2>3, <2>4, StackTypes
  <2>6. below.words \in Seq(Values) /\ below.words \o value \in Seq(Values)
    BY <1>3, <2>5 DEF Activations
  <2>7. a \in Activations /\ a.words = below.words \o value /\ a.err = below.err
    BY <2>5, <2>6 DEF Activations
  <2>8. calls' = TopAs(Under(calls), a)
    BY <2>1, <2>3, <2>4 DEF TopAs
  <2> HIDE DEF a, below
  <2>9. Last(calls') = a
    <3>1. Len(TopAs(Under(calls), a)) = Len(Under(calls)) /\ TopAs(Under(calls), a)[Len(Under(calls))] = a
      BY <2>4, <2>7, ReplaceTop
    <3> QED BY <2>8, <3>1 DEF Last
  <2>10. Tally(calls', u) = Tally(Under(Under(calls)), u) + Times(below.words \o value)[u]
    <3>1. Tally(TopAs(Under(calls), a), u) = Tally(Under(Under(calls)), u) + Times(a.words)[u]
      BY <1>4, <2>4, <2>7, TallyTopAs
    <3> QED BY <2>7, <2>8, <3>1
  <2>11. /\ Tally(Under(calls), u) = Tally(Under(Under(calls)), u) + Times(below.words)[u]
         /\ Tally(Under(Under(calls)), u) \in Nat
    BY <1>4, <2>3, <2>4, TallyTop
  <2>12. Times(below.words \o value)[u] = Times(below.words)[u] + k /\ Times(below.words)[u] \in Nat
    BY <1>3, <1>4, <2>6, TimesBoth
  <2> HIDE DEF k
  <2>13. count'[u] = Tally(Under(calls), u) + k
    BY <1>4, <2>2, LeaveCounted
  <2>14. Last(calls').err = Null
    BY <2>3, <2>7, <2>9 DEF Idle
  <2> QED BY <1>1, <1>4, <2>10, <2>11, <2>12, <2>13, <2>14
<1> QED BY <1>5, <1>6

LEMMA UnderHere ==
  ASSUME IInv, Top.kind # "fn"
  PROVE  /\ Under(calls) \in Seq(Activations) /\ Len(Under(calls)) = Here - 1 /\ Here > 1
         /\ Under(calls)[Here - 1] = calls[Here - 1] /\ Front(calls) = Under(calls)
         /\ calls[Here - 1] \in Activations /\ calls[Here - 1].err = Null
<1>1. Here > 1 /\ Here - 1 \in 1..Here /\ Idle(calls[Here - 1]) /\ Sound(calls[Here - 1])
  BY NoneOwned
<1>2. calls \in Seq(Activations) /\ Here = Len(calls) /\ Here \in Nat
  BY Facts
<1>3. Here - 1 \in 0..Len(calls) /\ Here - 1 \in 1..(Here - 1)
  BY <1>1, <1>2
<1>4. /\ Under(calls) \in Seq(Activations) /\ Len(Under(calls)) = Here - 1
      /\ \A i \in 1..(Here - 1) : Under(calls)[i] = calls[i]
  BY <1>2, <1>3, CutSeq DEF Under
<1>5. Under(calls)[Here - 1] = calls[Here - 1]
  BY <1>3, <1>4
<1>6. Front(calls) = Under(calls)
  BY <1>2 DEF Front, Under
<1> QED BY <1>1, <1>4, <1>5, <1>6 DEF Idle, Sound

LEMMA EndNewCounted == ASSUME IInv, CInv, EndNew PROVE CInv'
<1> DEFINE below == calls[Here - 1]
           a == [below EXCEPT !.words = @ \o Top.words]
<1>1. /\ Back({"new"}) /\ calls' = [Front(calls) EXCEPT ![Here - 1].words = @ \o Top.words]
      /\ UNCHANGED <<count, returned, stray>>
  BY DEF EndNew
<1>2. pc = "run" /\ Top.kind = "new" /\ Top.err = Null
  BY <1>1, Facts DEF Back, Sound
<1>3. /\ Under(calls) \in Seq(Activations) /\ Len(Under(calls)) = Here - 1 /\ Here > 1
      /\ Under(calls)[Here - 1] = below /\ Front(calls) = Under(calls)
      /\ below \in Activations /\ below.err = Null
  BY <1>2, UnderHere
<1>4. Top.words \in Seq(Values) /\ below.words \in Seq(Values) /\ below.words \o Top.words \in Seq(Values)
  BY <1>3, Facts DEF Activations
<1>5. a \in Activations /\ a.words = below.words \o Top.words /\ a.err = Null
  BY <1>3, <1>4 DEF Activations
<1>6. calls' = TopAs(Under(calls), a)
  BY <1>1, <1>3 DEF TopAs
<1>7. Len(Under(calls)) > 0
  BY <1>3, Facts
<1> HIDE DEF a, below
<1>8. Last(calls') = a
  <2>1. Len(TopAs(Under(calls), a)) = Len(Under(calls)) /\ TopAs(Under(calls), a)[Len(Under(calls))] = a
    BY <1>3, <1>5, <1>7, ReplaceTop
  <2> QED BY <1>6, <2>1 DEF Last
<1> SUFFICES ASSUME NEW u \in Values \ stray'
             PROVE  /\ Last(calls').err # u /\ Tally(calls', u) \in Nat
                    /\ count'[u] = Tally(calls', u) + (IF returned' = u THEN 1 ELSE 0)
  BY CountedThere
<1>9. /\ count[u] = Tally(calls, u) + (IF returned = u THEN 1 ELSE 0) /\ u \in Values /\ u # Null
      /\ Tally(calls, u) \in Nat
  BY <1>1, <1>2, CountedHere
<1>10. Tally(calls, u) = Tally(Under(calls), u) + Times(Top.words)[u]
  BY <1>9, Facts, TallyTop
<1>11. /\ Tally(Under(calls), u) = Tally(Under(Under(calls)), u) + Times(below.words)[u]
       /\ Tally(Under(Under(calls)), u) \in Nat
  BY <1>3, <1>7, <1>9, TallyTop
<1>12. Tally(calls', u) = Tally(Under(Under(calls)), u) + Times(below.words \o Top.words)[u]
  <2>1. Tally(TopAs(Under(calls), a), u) = Tally(Under(Under(calls)), u) + Times(a.words)[u]
    BY <1>3, <1>5, <1>7, <1>9, TallyTopAs
  <2> QED BY <1>5, <1>6, <2>1
<1>13. /\ Times(below.words \o Top.words)[u] = Times(below.words)[u] + Times(Top.words)[u]
       /\ Times(below.words)[u] \in Nat /\ Times(Top.words)[u] \in Nat
  BY <1>4, <1>9, TimesBoth
<1> QED BY <1>1, <1>5, <1>8, <1>9, <1>10, <1>11, <1>12, <1>13

\* The trampoline of a try, or of withLock, is left.
LEMMA HandedCounted ==
  ASSUME IInv, CInv, pc = "run", Top.err = Null, Top.kind # "fn", NEW code \in Codes,
         \/ calls' = Front(calls)
         \/ calls' = [Front(calls) EXCEPT ![Here - 1].code = code],
         count' = Released(count, Times(Top.words)) \/ (Top.words = <<>> /\ count' = count),
         UNCHANGED <<returned, stray>>
  PROVE  CInv'
<1>1. /\ Under(calls) \in Seq(Activations) /\ Len(Under(calls)) = Here - 1 /\ Here > 1
      /\ Under(calls)[Here - 1] = calls[Here - 1] /\ Front(calls) = Under(calls)
      /\ calls[Here - 1].err = Null
  BY UnderHere
<1>2. Len(Under(calls)) > 0 /\ Last(Under(calls)).err = Null
  BY <1>1, Facts DEF Last
<1> SUFFICES ASSUME NEW u \in Values \ stray'
             PROVE  /\ Last(calls').err # u /\ Tally(calls', u) \in Nat
                    /\ count'[u] = Tally(calls', u) + (IF returned' = u THEN 1 ELSE 0)
  BY CountedThere
<1> DEFINE k == IF returned = u THEN 1 ELSE 0
<1>3. count[u] = Tally(calls, u) + k /\ u \in Values /\ u # Null /\ k \in Nat /\ Tally(calls, u) \in Nat
  BY CountedHere
<1>4. Tally(calls', u) = Tally(Under(calls), u) /\ Last(calls').err = Null
  <2>1. calls' = Under(calls) \/ calls' = [Under(calls) EXCEPT ![Len(Under(calls))].code = code]
    BY <1>1
  <2> QED BY <1>1, <1>2, <1>3, <2>1, Recoded
<1> HIDE DEF k
<1>5. Released(count, Times(Top.words))[u] = Tally(Under(calls), u) + k /\ Tally(Under(calls), u) \in Nat
  BY <1>3, LeaveCounted
<1>6. Top.words = <<>> => Tally(calls, u) = Tally(Under(calls), u)
  <2>1. Tally(calls, u) = Tally(Under(calls), u) + Times(Top.words)[u]
    BY <1>3, Facts, TallyTop
  <2>2. Times(<<>>)[u] = 0
    BY <1>3, TimesEmpty
  <2> QED BY <1>5, <2>1, <2>2
<1>7. count'[u] = Tally(Under(calls), u) + k
  BY <1>3, <1>5, <1>6
<1> QED BY <1>3, <1>4, <1>5, <1>7 DEF k

LEMMA EndTryCounted == ASSUME IInv, CInv, EndTry \/ EndHandler \/ EndLock PROVE CInv'
<1>1. Top.kind \in {"try", "handler", "lock"} /\ pc = "run" /\ Top.code # "none" /\ UNCHANGED <<returned, stray>>
  BY DEF EndTry, EndHandler, EndLock, Back
<1>2. Top.err = Null /\ Top.code \in Codes
  BY <1>1, Facts DEF Sound, Activations
<1> DEFINE code == IF Top.code = "normal" THEN "none" ELSE Top.code
<1>3. code \in Codes
  BY <1>2 DEF Codes
<1>4. \/ calls' = Front(calls)
      \/ calls' = [Front(calls) EXCEPT ![Here - 1].code = code]
  BY DEF EndTry, EndHandler, EndLock, Handed
<1>5. count' = Released(count, Times(Top.words)) \/ (Top.words = <<>> /\ count' = count)
  <2>1. CASE EndTry \/ EndLock
    <3>1. Top.kind \in {"try", "lock"} /\ count' = count
      BY <2>1 DEF EndTry, EndLock, Back
    <3> QED BY <3>1, Facts DEF Sound
  <2>2. CASE EndHandler
    BY <2>2 DEF EndHandler
  <2> QED BY <2>1, <2>2
<1> HIDE DEF code
<1> QED BY <1>1, <1>2, <1>3, <1>4, <1>5, HandedCounted

LEMMA LeaveLoopCounted == ASSUME IInv, CInv, LeaveLoop PROVE CInv'
<1>1. PICK n \in 0..Len(Top.words), S \in SUBSET Own :
        /\ Back({"fn"}) /\ Top.code = "break"
        /\ calls' = [calls EXCEPT ![Here].words = SubSeq(@, 1, n), ![Here].code = "none"]
        /\ count' = Released(count, Times(SubSeq(Top.words, n + 1, Len(Top.words))))
        /\ UNCHANGED <<returned, stray>>
  BY DEF LeaveLoop
<1> DEFINE low == SubSeq(Top.words, 1, n)
           high == SubSeq(Top.words, n + 1, Len(Top.words))
           b == [Top EXCEPT !.words = low]
           a == [b EXCEPT !.code = "none"]
<1>2. pc = "run" /\ Top.kind = "fn" /\ Top.err = Null /\ Top.words \in Seq(Values)
  BY <1>1, Facts DEF Back, Sound
<1>3. low \in Seq(Values) /\ high \in Seq(Values)
  BY <1>2, Halves
<1>4. a \in Activations /\ a.words = low /\ a.err = Null
  <2>1. b \in Activations /\ b.words = low /\ b.err = Null
    BY <1>2, <1>3, Facts DEF Activations
  <2> HIDE DEF b
  <2> QED BY <2>1 DEF Activations, Codes
<1>5. calls' = TopAs(calls, a)
  <2> DEFINE mid == [calls EXCEPT ![Here].words = SubSeq(@, 1, n)]
  <2>1. calls' = [mid EXCEPT ![Here].code = "none"]
    BY <1>1
  <2>2. mid = [calls EXCEPT ![Here] = b]
    BY Facts
  <2>3. mid[Here] = b /\ Here \in DOMAIN calls /\ DOMAIN mid = DOMAIN calls
    BY <2>2, Facts
  <2> HIDE DEF b, mid
  <2>4. calls' = [mid EXCEPT ![Here] = a]
    BY <2>1, <2>3
  <2> HIDE DEF a
  <2>5. calls' = [calls EXCEPT ![Here] = a]
    BY <2>2, <2>4
  <2> QED BY <2>5, Facts DEF TopAs
<1> HIDE DEF a, b
<1>6. Last(calls') = a
  <2>1. Len(TopAs(calls, a)) = Len(calls) /\ TopAs(calls, a)[Len(calls)] = a
    BY <1>4, Facts, ReplaceTop
  <2> QED BY <1>5, <2>1 DEF Last
<1> SUFFICES ASSUME NEW u \in Values \ stray'
             PROVE  /\ Last(calls').err # u /\ Tally(calls', u) \in Nat
                    /\ count'[u] = Tally(calls', u) + (IF returned' = u THEN 1 ELSE 0)
  BY CountedThere
<1> DEFINE k == IF returned = u THEN 1 ELSE 0
<1>7. count[u] = Tally(calls, u) + k /\ u \in Values /\ u # Null /\ k \in Nat /\ Tally(calls, u) \in Nat
  BY <1>1, <1>2, CountedHere
<1>8. /\ Tally(calls, u) = Tally(Under(calls), u) + Times(Top.words)[u]
      /\ Tally(Under(calls), u) \in Nat
  BY <1>7, Facts, TallyTop
<1>9. Tally(calls', u) = Tally(Under(calls), u) + Times(low)[u]
  <2>1. Tally(TopAs(calls, a), u) = Tally(Under(calls), u) + Times(a.words)[u]
    BY <1>4, <1>7, Facts, TallyTopAs
  <2> QED BY <1>4, <1>5, <2>1
<1>10. /\ Times(Top.words)[u] = Times(low)[u] + Times(high)[u]
       /\ Times(low)[u] \in Nat /\ Times(high)[u] \in Nat
  BY <1>2, <1>7, TimesHalves
<1> HIDE DEF low, high, k
<1>11. count' = Released(count, Times(high))
  BY <1>1 DEF high
<1> DEFINE x == Tally(calls', u) + k
           y == Times(high)[u]
<1>12. x \in Nat /\ y \in Nat /\ count[u] = x + y
  BY <1>7, <1>8, <1>9, <1>10
<1> HIDE DEF x
<1>13. count'[u] = x
  BY <1>7, <1>11, <1>12 DEF Released
<1> QED BY <1>1, <1>4, <1>6, <1>7, <1>8, <1>9, <1>10, <1>13 DEF x, k

\* A jump with the exception v: what the skipped functions hold is given back.
LEMMA FailCounted ==
  ASSUME IInv, NEW v \in Values, NEW cs, NEW opened, NEW registered, NEW cnt,
         Fail(v, cs, opened, registered, cnt), Stacks(cs, frames, unwind, registered),
         ~Catches(cs[Len(cs)]), returned = Null, returned' = returned,
         \A u \in Values \ stray' : cnt[u] = Tally(cs, u) + (IF u = v THEN 1 ELSE 0)
  PROVE  CInv'
<1>1. /\ frames \in Seq(Frames) /\ Len(frames) \in Nat /\ unwind \in Seq(Nat) /\ Len(unwind) \in Nat
      /\ cs \in Seq(Activations) /\ registered \in Seq(Slots) /\ Len(cs) \in Nat
  BY StackTypes
<1>2. CASE frames = <<>>
  BY <1>2 DEF Fail, CInv
<1>3. CASE frames # <<>>
  <2> DEFINE f == Last(frames)
             skipped == {unwind[i] : i \in (f.unwind + 1)..Len(unwind)}
             low == SubSeq(cs, 1, f.act - 1)
             t == cs[f.act]
             a == Landed(t, v)
  <2>1. count' = Released(cnt, TimesIn(cs, skipped)) /\ calls' = Append(low, a)
    BY <1>3 DEF Fail
  <2>2. Innermost(frames, f)
    BY <1>1, <1>3 DEF Innermost, Last
  <2> HIDE DEF f
  <2>3. Aligned(cs, frames, unwind, registered) /\ Nested(cs) /\ UnwindAt(cs, unwind)
    BY DEF Stacks, Aligned
  <2>4. /\ f \in Frames /\ f.act \in 1..Len(cs) /\ Catches(t) /\ f.unwind \in 0..Len(unwind)
        /\ \A i \in 1..Len(unwind) : unwind[i] < f.act <=> i <= f.unwind
    BY <1>1, <2>2, <2>3, JumpAligned
  <2>5. Sound(t) /\ Idle(t)
    <3>1. f.act # Len(cs)
      BY <2>4
    <3>2. f.act \in 1..(Len(cs) - 1)
      BY <1>1, <2>4, <3>1
    <3> QED BY <2>3, <2>4, <3>2 DEF Nested
  <2>6. a \in Activations
    BY <2>4, <2>5, LandedSound
  <2>7. /\ t.kind = "try" => a.words = <<v>> /\ a.err = Null
        /\ t.kind # "try" => a.words = <<>> /\ a.err = v
    BY <2>4, <2>5 DEF Landed, Activation, Sound, Catches, Activations
  <2>8. f.act - 1 \in 0..Len(cs)
    BY <1>1, <2>4
  <2>9. low \in Seq(Activations)
    BY <1>1, <2>8, CutSeq
  <2> HIDE DEF a, low, t
  <2>10. Last(calls') = a
    BY <2>1, <2>6, <2>9, LastPushed
  <2> SUFFICES ASSUME NEW u \in Values \ stray'
               PROVE  count'[u] = Owed(calls', returned', u)
    BY DEF CInv
  <2> DEFINE part == Cardinality(References(cs, skipped, u))
             k == IF u = v THEN 1 ELSE 0
  <2>11. /\ Tally(cs, u) = Tally(low, u) + part /\ Tally(low, u) \in Nat /\ part \in Nat
    <3> DEFINE h == f.act
               w == f.unwind
    <3>1. /\ h \in 1..Len(cs) /\ w \in 0..Len(unwind)
          /\ \A i \in 1..Len(unwind) : unwind[i] < h <=> i <= w
          /\ skipped = Skipped(unwind, w) /\ low = SubSeq(cs, 1, h - 1)
      BY <2>4 DEF low, Skipped
    <3> HIDE DEF h, w, skipped
    <3>2. u \in Values
      OBVIOUS
    <3>3. /\ Tally(cs, u) = Tally(SubSeq(cs, 1, h - 1), u) + Cardinality(References(cs, Skipped(unwind, w), u))
          /\ Tally(SubSeq(cs, 1, h - 1), u) \in Nat
          /\ Cardinality(References(cs, Skipped(unwind, w), u)) \in Nat
      BY <2>3, <3>1, <3>2, TallyCut
    <3> QED BY <3>1, <3>3
  <2>12. TimesIn(cs, skipped)[u] = part
    BY DEF TimesIn
  <2>13. cnt[u] = Tally(cs, u) + k /\ k \in Nat
    OBVIOUS
  <2> HIDE DEF skipped, part
  <2>14. count'[u] = Tally(low, u) + k
    <3> DEFINE x == Tally(low, u) + k
    <3>1. x \in Nat /\ cnt[u] = x + part
      BY <2>11, <2>13
    <3> HIDE DEF x, k
    <3>2. Released(cnt, TimesIn(cs, skipped))[u] = x
      BY <2>11, <2>12, <3>1 DEF Released
    <3> QED BY <2>1, <3>2 DEF x
  <2>15. Tally(calls', u) = Tally(low, u) + Times(a.words)[u]
    <3>1. Tally(Append(low, a), u) = Tally(low, u) + Times(a.words)[u]
      BY <2>6, <2>9, TallyPush
    <3> QED BY <2>1, <3>1
  <2>16. Times(a.words)[u] + (IF a.err = u THEN 1 ELSE 0) = k
    <3>1. Times(<<v>>)[u] = (IF u = v THEN 1 ELSE 0) /\ Times(<<>>)[u] = 0
      BY TimesOne, TimesEmpty
    <3>2. u # Null
      BY NullAssumption
    <3>3. CASE t.kind = "try"
      BY <2>7, <3>1, <3>2, <3>3
    <3>4. CASE t.kind # "try"
      BY <2>7, <3>1, <3>4
    <3> QED BY <3>3, <3>4
  <2>17. Times(a.words)[u] \in Nat
    BY <2>6, <2>9, TallyPush
  <2>18. returned' # u
    BY NullAssumption
  <2> HIDE DEF k
  <2>19. count'[u] = Tally(calls', u) + (IF a.err = u THEN 1 ELSE 0)
    BY <2>11, <2>13, <2>14, <2>15, <2>16, <2>17
  <2>20. Tally(calls', u) \in Nat
    BY <2>11, <2>15, <2>17
  <2> QED BY <2>10, <2>18, <2>19, <2>20 DEF Owed
<1> QED BY <1>2, <1>3

LEMMA RaiseCounted == ASSUME IInv, CInv, Raise PROVE CInv'
<1> DEFINE a == [Top EXCEPT !.words = <<>>]
           cs == TopAs(calls, a)
           rs == OthersOf(Own)
<1>1. PICK v \in Visible \cup {x \in Values : count[x] = 0} :
        /\ Runs({"fn"})
        /\ Fail(v, [calls EXCEPT ![Here].words = <<>>], open \ Own, rs,
                Released(Retained(count, v), Times(Top.words)))
        /\ UNCHANGED <<locked, returned, stray>>
  BY DEF Raise
<1> DEFINE cnt == Retained(count, v)
<1>2. /\ pc = "run" /\ Top.kind = "fn" /\ Top.err = Null /\ returned = Null /\ v \in Values
  BY <1>1, Running, Facts DEF Runs
<1>3. [calls EXCEPT ![Here].words = <<>>] = cs
  BY Facts DEF TopAs
<1>4. Sound(a) /\ a.kind = Top.kind /\ a.mutex = Top.mutex /\ a.err = Top.err /\ a \in Activations
      /\ a.words = <<>>
  <2>1. <<>> \in Seq(Values)
    OBVIOUS
  <2>2. a \in Activations
    BY <2>1, Facts DEF Activations
  <2> QED BY <1>2, <2>2, Facts DEF Activations, Sound
<1>5. ~Catches(a)
  BY <1>2, <1>4 DEF Catches
<1>6. Stacks(calls, frames, unwind, rs)
  BY Dropped
<1>7. Fail(v, cs, open \ Own, rs, Released(cnt, Times(Top.words)))
  BY <1>1, <1>3
<1> HIDE DEF a, rs
<1>8. Stacks(cs, frames, unwind, rs)
  BY <1>4, <1>6, Facts, TopStacks
<1>9. cs[Len(cs)] = a
  <2>1. cs[Len(calls)] = a /\ Len(cs) = Len(calls)
    BY <1>4, Facts, ReplaceTop
  <2> QED BY <2>1
<1>10. ASSUME NEW u \in Values \ stray'
       PROVE  Released(cnt, Times(Top.words))[u] = Tally(cs, u) + (IF u = v THEN 1 ELSE 0)
  <2> DEFINE k == IF u = v THEN 1 ELSE 0
  <2>1. /\ count[u] = Tally(calls, u) + (IF returned = u THEN 1 ELSE 0) /\ u \in Values /\ u # Null
        /\ Tally(calls, u) \in Nat /\ count \in [Values -> Int]
    BY <1>1, <1>2, CountedHere
  <2>2. cnt[u] = Tally(calls, u) + k /\ k \in Nat
    BY <1>2, <2>1, Moved
  <2> HIDE DEF cnt, k
  <2>3. Released(cnt, Times(Top.words))[u] = Tally(Under(calls), u) + k /\ Tally(Under(calls), u) \in Nat
    BY <2>1, <2>2, LeaveCounted
  <2>4. Tally(cs, u) = Tally(Under(calls), u) + Times(<<>>)[u]
    BY <1>4, <2>1, Facts, TallyTopAs
  <2>5. Times(<<>>)[u] = 0
    BY <2>1, TimesEmpty
  <2> QED BY <2>2, <2>3, <2>4, <2>5 DEF k
<1> HIDE DEF cs, cnt
<1> QED BY <1>1, <1>2, <1>5, <1>7, <1>8, <1>9, <1>10, FailCounted

LEMMA ThrowCounted == ASSUME IInv, CInv, Throw PROVE CInv'
<1>1. PICK v \in Values : /\ Runs({"fn"}) /\ Fail(v, calls, open, resources, Retained(count, v))
                          /\ UNCHANGED <<locked, returned, stray>>
  BY DEF Throw
<1>2. pc = "run" /\ Top.kind = "fn" /\ Top.err = Null /\ returned = Null
  BY <1>1, Running DEF Runs
<1>3. ~Catches(calls[Len(calls)]) /\ Stacks(calls, frames, unwind, resources)
  BY <1>2, Facts DEF Catches, IInv
<1>4. \A u \in Values \ stray' : Retained(count, v)[u] = Tally(calls, u) + (IF u = v THEN 1 ELSE 0)
  <2> SUFFICES ASSUME NEW u \in Values \ stray'
               PROVE  Retained(count, v)[u] = Tally(calls, u) + (IF u = v THEN 1 ELSE 0)
    OBVIOUS
  <2>1. /\ count[u] = Tally(calls, u) + (IF returned = u THEN 1 ELSE 0) /\ u \in Values /\ u # Null
        /\ Tally(calls, u) \in Nat /\ count \in [Values -> Int]
    BY <1>1, <1>2, CountedHere
  <2> QED BY <1>2, <2>1, Moved
<1> QED BY <1>1, <1>2, <1>3, <1>4, FailCounted

LEMMA PropagateCounted == ASSUME IInv, CInv, Propagate PROVE CInv'
<1> DEFINE v == Top.words[1]
<1>1. /\ Runs({"handler"}) /\ Fail(v, calls, open, resources, count)
      /\ stray' = stray \cup {v} /\ UNCHANGED <<locked, returned>>
  BY DEF Propagate
<1>2. pc = "run" /\ Top.kind = "handler" /\ Top.err = Null /\ returned = Null
  BY <1>1, Running DEF Runs
<1>3. ~Catches(calls[Len(calls)]) /\ Stacks(calls, frames, unwind, resources)
  BY <1>2, Facts DEF Catches, IInv
<1>4. v \in Values
  <2>1. Len(Top.words) > 0 /\ Top.words \in Seq(Values)
    BY <1>2, Facts DEF Sound
  <2> QED BY <2>1
<1> HIDE DEF v
<1>5. \A u \in Values \ stray' : count[u] = Tally(calls, u) + (IF u = v THEN 1 ELSE 0)
  <2> SUFFICES ASSUME NEW u \in Values \ stray'
               PROVE  count[u] = Tally(calls, u) + (IF u = v THEN 1 ELSE 0)
    OBVIOUS
  <2>1. u \in Values \ stray /\ u # v
    BY <1>1
  <2>2. count[u] = Tally(calls, u) + (IF returned = u THEN 1 ELSE 0) /\ u # Null /\ Tally(calls, u) \in Nat
    BY <1>2, <2>1, CountedHere
  <2> QED BY <1>2, <2>1, <2>2
<1> QED BY <1>1, <1>2, <1>3, <1>4, <1>5, FailCounted

LEMMA LockFailsCounted == ASSUME IInv, CInv, LockFails PROVE CInv'
<1> DEFINE v == Top.err
<1>1. /\ pc = "run" /\ Top.kind = "lock" /\ v # Null
      /\ Fail(v, calls, open, resources, count) /\ UNCHANGED <<returned, stray>>
  BY DEF LockFails
<1>2. ~Catches(calls[Len(calls)]) /\ Top.code = "none" /\ v \in Values /\ Last(calls).err = v
  BY <1>1, Facts DEF Catches, Sound, Activations, Top
<1>3. returned = Null /\ Stacks(calls, frames, unwind, resources)
  BY <1>2 DEF IInv
<1> HIDE DEF v
<1>4. \A u \in Values \ stray' : count[u] = Tally(calls, u) + (IF u = v THEN 1 ELSE 0)
  <2> SUFFICES ASSUME NEW u \in Values \ stray'
               PROVE  count[u] = Tally(calls, u) + (IF u = v THEN 1 ELSE 0)
    OBVIOUS
  <2>1. count[u] = Owed(calls, returned, u) /\ u # Null /\ Tally(calls, u) \in Nat
    BY <1>1, NullAssumption, Facts, TallyType DEF CInv
  <2> QED BY <1>2, <1>3, <2>1 DEF Owed
<1> QED BY <1>1, <1>2, <1>3, <1>4, FailCounted

LEMMA InitCInv == ASSUME Init PROVE CInv
<1> DEFINE a == Activation("fn", <<>>, Null)
<1>1. calls = <<a>> /\ count = [v \in Values |-> 0] /\ returned = Null
  BY DEF Init
<1>2. a \in Activations /\ a.words = <<>> /\ a.err = Null
  <2>1. <<>> \in Seq(Values)
    OBVIOUS
  <2> QED BY <2>1 DEF Activation, Activations, Codes, Kinds
<1> HIDE DEF a
<1>3. /\ <<>> \in Seq(Activations) /\ Len(<<>>) = 0 /\ calls = Append(<<>>, a) /\ 1..0 = {}
  BY <1>1
<1> SUFFICES ASSUME NEW u \in Values PROVE count[u] = Owed(calls, returned, u)
  BY DEF CInv
<1>4. Tally(calls, u) = Tally(<<>>, u) + Times(<<>>)[u]
  <2>1. Tally(Append(<<>>, a), u) = Tally(<<>>, u) + Times(a.words)[u]
    BY <1>2, <1>3, TallyPush
  <2> QED BY <1>2, <1>3, <2>1
<1>5. Tally(<<>>, u) = 0
  <2>1. References(<<>>, 1..Len(<<>>), u) = {}
    BY <1>3 DEF References
  <2> QED BY <2>1, FS_EmptySet DEF Tally
<1>6. Times(<<>>)[u] = 0
  BY TimesEmpty
<1>7. Last(calls) = a /\ u # Null
  BY <1>2, <1>3, LastPushed, NullAssumption
<1> QED BY <1>1, <1>2, <1>4, <1>5, <1>6, <1>7 DEF Owed

LEMMA NextCInv == ASSUME IInv, CInv, [Next]_vars PROVE CInv'
<1>1. CASE UNCHANGED vars
  BY <1>1 DEF vars, CInv
<1>2. CASE Next
  BY <1>2, CallCounted, WordCounted, SlotCounted, ReturnCounted, NewCounted, EndNewCounted,
     TryCounted, ReturnInTryCounted, ExitInTryCounted, EndTryCounted, PassOnCounted,
     LeaveLoopCounted, ReturnFromTryCounted, RaiseCounted, ThrowCounted, PropagateCounted,
     LockFailsCounted DEF Next
<1> QED BY <1>1, <1>2

\* Every count is that of the references that the native stack, an exception on
\* its way through withLock and TRY_RETURN hold, whichever way functions are
\* left: no reference is lost, none is given back twice, but those of an
\* exception that no clause of a try matched.
THEOREM ReferencesCounted == Spec => []CountsExact
<1>1. ASSUME IInv, CInv PROVE CountsExact
  <2> USE <1>1
  <2> SUFFICES ASSUME pc = "run", NEW v \in Values \ stray
               PROVE  count[v] = Cardinality(References(calls, 1..Len(calls), v))
                                 + Cardinality({i \in 1..Len(calls) : calls[i].err = v})
                                 + (IF returned = v THEN 1 ELSE 0)
    BY DEF CountsExact, IInv
  <2> DEFINE waiting == {i \in 1..Len(calls) : calls[i].err = v}
  <2>1. count[v] = Tally(calls, v) + (IF Last(calls).err = v THEN 1 ELSE 0) + (IF returned = v THEN 1 ELSE 0)
    BY DEF CInv, Owed
  <2>2. Len(calls) \in Nat /\ Last(calls) = calls[Len(calls)] /\ Len(calls) \in 1..Len(calls)
    BY Facts DEF Last
  <2>3. \A i \in 1..Len(calls) : i # Len(calls) => calls[i].err # v
    <3> SUFFICES ASSUME NEW i \in 1..Len(calls), i # Len(calls) PROVE calls[i].err # v
      OBVIOUS
    <3>1. i \in 1..(Len(calls) - 1)
      BY <2>2
    <3>2. Idle(calls[i])
      BY <3>1 DEF IInv, Stacks, Nested
    <3> QED BY <3>2, NullAssumption DEF Idle
  <2>4. Last(calls).err = v => waiting = {Len(calls)}
    BY <2>2, <2>3
  <2>5. Last(calls).err # v => waiting = {}
    BY <2>2, <2>3
  <2> HIDE DEF waiting
  <2>6. Cardinality(waiting) = IF Last(calls).err = v THEN 1 ELSE 0
    BY <2>4, <2>5, FS_Singleton, FS_EmptySet
  <2> QED BY <2>1, <2>6 DEF Tally, waiting
<1>2. Init => IInv /\ CInv
  BY InitIInv, InitCInv
<1>3. IInv /\ CInv /\ [Next]_vars => (IInv /\ CInv)'
  BY NextIInv, NextCInv
<1> QED BY <1>1, <1>2, <1>3, PTL DEF Spec
=============================================================================
