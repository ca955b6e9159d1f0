-------------------------- MODULE WireCodec_proofs --------------------------
(***************************************************************************)
(* Proofs about WireCodec, for any base, messages that can be sent, words  *)
(* between them and cuts of the stream: every message arrives as it was    *)
(* meant, in order and once; every HELLO, whole or cut, is heard; every    *)
(* mode that its EDID can hold is read back.                               *)
(*                                                                         *)
(* First come the lemmas on numbers, sequences and recursive functions     *)
(* that the library has not, or has for a predicate only: an induction is  *)
(* a set with a least element outside it. Then each reader against each    *)
(* writer, one message at a time; then the stream, by the invariant that   *)
(* the bytes yet to be read are whole words (Queued).                      *)
(***************************************************************************)
EXTENDS WireCodec, SequenceTheorems, WellFoundedInduction, TLAPS

-----------------------------------------------------------------------------
(* Induction, with sets in place of predicates.                            *)

LessNat == {ss \in Nat \X Nat : ss[1] < ss[2]}

LEMMA LessNatWellFounded == IsWellFoundedOn(LessNat, Nat)
  BY NatLessThanWellFounded DEF OpToRel, LessNat

\* What holds of 0, and of k + 1 where it holds of k, holds up to n.
LEMMA UpTo ==
    ASSUME NEW n \in Nat, NEW T, 0 \in T, \A k \in 0 .. n - 1 : k \in T => k + 1 \in T
    PROVE  0 .. n \subseteq T
<1> SUFFICES ASSUME ~(0 .. n \subseteq T) PROVE FALSE
  OBVIOUS
<1> DEFINE U == {k \in 0 .. n : k \notin T}
<1>1. U \subseteq Nat /\ U # {}
  OBVIOUS
<1>2. PICK x \in U : \A y \in U : ~(<<y, x>> \in LessNat)
  BY <1>1, LessNatWellFounded, WFMin
<1>3. x \in 0 .. n /\ x \notin T /\ x # 0
  OBVIOUS
<1>4. x - 1 \in 0 .. n - 1 /\ x - 1 \in Nat /\ x \in Nat
  BY <1>3
<1>5. <<x - 1, x>> \in LessNat
  BY <1>4 DEF LessNat
<1>6. x - 1 \notin U
  BY <1>2, <1>5
<1>7. x - 1 \in T
  BY <1>4, <1>6
<1>8. (x - 1) + 1 \in T
  BY <1>4, <1>7
<1> QED
  BY <1>3, <1>4, <1>8

\* What n steps from a go through.
Steps(n, S) == [1 .. n -> [S -> S]]
Passes(n, S, a, F) == {f \in [0 .. n -> S] : f[0] = a /\ \A k \in 1 .. n : f[k] = F[k][f[k - 1]]}

\* A recursion of n steps is one function.
LEMMA Recursion ==
    ASSUME NEW n \in Nat, NEW S, NEW a \in S, NEW F \in Steps(n, S)
    PROVE  Passes(n, S, a, F) # {}
<1> USE DEF Steps
<1> DEFINE Rec(f, m) == f[0] = a /\ \A k \in 1 .. m : f[k] = F[k][f[k - 1]]
           T == {m \in 0 .. n : \E f \in [0 .. m -> S] : Rec(f, m)}
<1>1. 0 \in T
  <2> DEFINE g == [k \in 0 .. 0 |-> a]
  <2>1. g \in [0 .. 0 -> S] /\ g[0] = a
    OBVIOUS
  <2>2. Rec(g, 0)
    BY <2>1
  <2> HIDE DEF g, Rec
  <2> QED
    BY <2>1, <2>2
<1>2. ASSUME NEW m \in 0 .. n - 1, m \in T PROVE m + 1 \in T
  <2>1. PICK f \in [0 .. m -> S] : Rec(f, m)
    BY <1>2
  <2> DEFINE g == [k \in 0 .. m + 1 |-> IF k <= m THEN f[k] ELSE F[m + 1][f[m]]]
  <2>2. F[m + 1][f[m]] \in S
    OBVIOUS
  <2>3. g \in [0 .. m + 1 -> S]
    BY <2>2
  <2>4. g[0] = a
    BY <2>1
  <2>5. ASSUME NEW k \in 1 .. m + 1 PROVE g[k] = F[k][g[k - 1]]
    <3>1. CASE k = m + 1
      BY <3>1
    <3>2. CASE k # m + 1
      BY <3>2, <2>1
    <3> QED
      BY <3>1, <3>2
  <2>6. m + 1 \in 0 .. n
    OBVIOUS
  <2>7. Rec(g, m + 1)
    BY <2>4, <2>5
  <2> HIDE DEF g, Rec
  <2> QED
    BY <2>3, <2>6, <2>7
<1>3. n \in T
  <2> HIDE DEF T
  <2>1. 0 .. n \subseteq T
    BY <1>1, <1>2, UpTo
  <2> QED
    BY <2>1
<1> QED
  BY <1>3 DEF Passes

-----------------------------------------------------------------------------
(* The recursive functions of the module, as their equations.              *)

\* Natural numbers for ever, instead of n steps.
Maps(S) == [S -> S]
Orbits(S, a, F) == {f \in [Nat -> S] : f[0] = a /\ \A k \in Nat : f[k + 1] = F[f[k]]}

LEMMA RecursionOnNat ==
    ASSUME NEW S, NEW a \in S, NEW F \in Maps(S)
    PROVE  Orbits(S, a, F) # {}
<1> USE DEF Maps
<1> DEFINE Is(f, n) == f \in [0 .. n -> S] /\ f[0] = a /\ \A k \in 1 .. n : f[k] = F[f[k - 1]]
           Some(n) == CHOOSE f : Is(f, n)
           g == [n \in Nat |-> Some(n)[n]]
<1>1. ASSUME NEW n \in Nat PROVE Is(Some(n), n)
  <2> DEFINE Step == [k \in 1 .. n |-> F]
  <2>1. Step \in Steps(n, S) /\ \A k \in 1 .. n : Step[k] = F
    BY DEF Steps
  <2> HIDE DEF Step
  <2>2. PICK f \in Passes(n, S, a, Step) : TRUE
    BY <2>1, Recursion
  <2>3. Is(f, n)
    BY <2>1, <2>2 DEF Passes
  <2> HIDE DEF Is
  <2> QED
    BY <2>3
<1>2. ASSUME NEW n \in Nat, NEW m \in 0 .. n PROVE Some(n)[m] = Some(m)[m]
  <2> DEFINE T == {k \in 0 .. m : Some(n)[k] = Some(m)[k]}
  <2> HIDE DEF Some, Is
  <2>0. m \in Nat
    OBVIOUS
  <2>1. Is(Some(n), n) /\ Is(Some(m), m)
    BY <1>1, <2>0
  <2> USE DEF Is
  <2>2. 0 \in T
    BY <2>1
  <2>3. ASSUME NEW k \in 0 .. m - 1, k \in T PROVE k + 1 \in T
    <3>1. k + 1 \in 1 .. n /\ k + 1 \in 1 .. m /\ k + 1 - 1 = k
      OBVIOUS
    <3>2. Some(n)[k + 1] = F[Some(n)[k]] /\ Some(m)[k + 1] = F[Some(m)[k]]
      BY <2>1, <3>1
    <3> QED
      BY <2>3, <3>1, <3>2
  <2>4. 0 .. m \subseteq T
    <3> HIDE DEF T
    <3> QED
      BY <2>2, <2>3, UpTo
  <2> QED
    BY <2>4
<1>3. ASSUME NEW n \in Nat PROVE g[n] \in S /\ g[n + 1] = F[g[n]]
  <2> HIDE DEF Some, Is
  <2>0. n + 1 \in Nat /\ n \in 0 .. n + 1
    OBVIOUS
  <2>1. Is(Some(n), n) /\ Is(Some(n + 1), n + 1)
    BY <1>1, <2>0
  <2>2. Some(n + 1)[n] = Some(n)[n]
    BY <1>2, <2>0
  <2> USE DEF Is
  <2>3. Some(n + 1)[n + 1] = F[Some(n + 1)[n]]
    BY <2>1
  <2> QED
    BY <2>1, <2>2, <2>3
<1>4. g[0] = a
  BY <1>1
<1>5. g \in [Nat -> S]
  <2> HIDE DEF Some, Is
  <2> QED
    BY <1>3
<1> HIDE DEF g
<1> QED
  BY <1>3, <1>4, <1>5 DEF Orbits

LEMMA LimitIs ==
    /\ Limit[0] = 1
    /\ \A n \in Nat : Limit[n + 1] = Base * Limit[n]
    /\ \A n \in Nat : Limit[n] \in Nat \ {0}
<1> DEFINE F == [x \in Nat \ {0} |-> Base * x]
           Is(f) == f = [w \in Nat |-> IF w = 0 THEN 1 ELSE Base * f[w - 1]]
<1>1. F \in Maps(Nat \ {0})
  BY CodecAssumption DEF Maps
<1>2. PICK f \in [Nat -> Nat \ {0}] : f[0] = 1 /\ \A k \in Nat : f[k + 1] = F[f[k]]
  <2> HIDE DEF F
  <2>1. 1 \in Nat \ {0}
    OBVIOUS
  <2>2. PICK f \in Orbits(Nat \ {0}, 1, F) : TRUE
    BY <1>1, <2>1, RecursionOnNat
  <2> QED
    BY <2>2 DEF Orbits
<1>3. Is(f)
  <2>1. ASSUME NEW w \in Nat PROVE f[w] = IF w = 0 THEN 1 ELSE Base * f[w - 1]
    <3>1. CASE w = 0
      BY <1>2, <3>1
    <3>2. CASE w # 0
      <4>1. w - 1 \in Nat /\ (w - 1) + 1 = w
        BY <3>2
      <4>2. f[w] = F[f[w - 1]]
        BY <1>2, <4>1
      <4> QED
        BY <3>2, <4>1, <4>2
    <3> QED
      BY <3>1, <3>2
  <2> QED
    BY <2>1
<1>4. Is(Limit)
  <2> HIDE DEF Is
  <2>1. Is(CHOOSE g : Is(g))
    BY <1>3
  <2> USE DEF Is
  <2> QED
    BY <2>1 DEF Limit
<1>5. Limit[0] = 1
  BY <1>4
<1>6. ASSUME NEW n \in Nat PROVE Limit[n + 1] = Base * Limit[n]
  <2>1. n + 1 \in Nat /\ n + 1 # 0 /\ n + 1 - 1 = n
    OBVIOUS
  <2> QED
    BY <1>4, <2>1
<1>7. ASSUME NEW n \in Nat PROVE Limit[n] \in Nat \ {0}
  <2> DEFINE T == {k \in 0 .. n : Limit[k] \in Nat \ {0}}
  <2>1. 0 \in T
    BY <1>5
  <2>2. ASSUME NEW k \in 0 .. n - 1, k \in T PROVE k + 1 \in T
    <3>1. Limit[k + 1] = Base * Limit[k] /\ Limit[k] \in Nat \ {0}
      BY <1>6, <2>2
    <3>2. Base * Limit[k] \in Nat \ {0}
      BY <3>1, CodecAssumption
    <3> QED
      BY <3>1, <3>2
  <2> HIDE DEF T
  <2>3. 0 .. n \subseteq T
    BY <2>1, <2>2, UpTo
  <2> USE DEF T
  <2> QED
    BY <2>3
<1> QED
  BY <1>5, <1>6, <1>7

\* Num adds up the bytes one after the other.
Sums(b, num) ==
    /\ num \in [0 .. Len(b) -> Int]
    /\ num[0] = 0
    /\ \A k \in 1 .. Len(b) : num[k] = num[k - 1] * Base + b[k]
    /\ num[Len(b)] = Num(b)

LEMMA NumIs ==
    ASSUME NEW b \in Seq(Int)
    PROVE  \E num : Sums(b, num)
<1> DEFINE L == Len(b)
           F == [k \in 1 .. L |-> [x \in Int |-> x * Base + b[k]]]
           Is(f) == f = [n \in 0 .. L |-> IF n = 0 THEN 0 ELSE f[n - 1] * Base + b[n]]
           g == CHOOSE f : Is(f)
<1>0. L \in Nat /\ \A k \in 1 .. L : b[k] \in Int
  OBVIOUS
<1> HIDE DEF L
<1>1. F \in Steps(L, Int) /\ \A k \in 1 .. L, x \in Int : F[k][x] = x * Base + b[k]
  BY <1>0, CodecAssumption DEF Steps
<1> HIDE DEF F
<1>2. PICK f : f \in Passes(L, Int, 0, F)
  <2>1. 0 \in Int
    OBVIOUS
  <2>2. Passes(L, Int, 0, F) # {}
    BY <1>0, <1>1, <2>1, Recursion
  <2> QED
    BY <2>2
<1>3. /\ f \in [0 .. L -> Int] /\ f[0] = 0
      /\ \A k \in 1 .. L : f[k] = f[k - 1] * Base + b[k]
  <2>1. /\ f \in [0 .. L -> Int] /\ f[0] = 0
        /\ \A k \in 1 .. L : f[k] = F[k][f[k - 1]]
    BY <1>2 DEF Passes
  <2>2. ASSUME NEW k \in 1 .. L PROVE f[k] = f[k - 1] * Base + b[k]
    <3>1. f[k - 1] \in Int
      BY <2>1, <1>0
    <3> QED
      BY <1>1, <2>1, <3>1
  <2> QED
    BY <2>1, <2>2
<1>4. Is(f)
  BY <1>0, <1>3
<1>5. Is(g)
  <2> HIDE DEF Is
  <2> QED
    BY <1>4
<1>6. \A n \in 0 .. L : g[n] = IF n = 0 THEN 0 ELSE g[n - 1] * Base + b[n]
  <2> HIDE DEF g
  <2> QED
    BY <1>5
<1>7. g[L] = Num(b)
  BY DEF Num, L
<1> HIDE DEF g, Is
<1> DEFINE T == {k \in 0 .. L : g[k] = f[k]}
<1>8. 0 \in T
  BY <1>0, <1>3, <1>6
<1>9. ASSUME NEW k \in 0 .. L - 1, k \in T PROVE k + 1 \in T
  <2>1. k + 1 \in 1 .. L /\ k + 1 \in 0 .. L /\ k + 1 # 0 /\ k + 1 - 1 = k
    BY <1>0
  <2> QED
    BY <1>3, <1>6, <1>9, <2>1
<1>10. f[L] = g[L]
  <2>1. 0 .. L \subseteq T
    <3> HIDE DEF T
    <3> QED
      BY <1>0, <1>8, <1>9, UpTo
  <2> QED
    BY <1>0, <2>1
<1>11. Sums(b, f)
  BY <1>3, <1>7, <1>10 DEF Sums, L
<1> QED
  BY <1>11

\* Offset adds up the widths.
Places(ws, sum) ==
    /\ sum \in [0 .. Len(ws) -> Nat]
    /\ sum[0] = 0
    /\ \A k \in 1 .. Len(ws) : sum[k] = sum[k - 1] + ws[k]
    /\ \A i \in 1 .. Len(ws) + 1 : Offset(ws, i) = sum[i - 1]

LEMMA OffsetIs ==
    ASSUME NEW ws \in Seq(Nat)
    PROVE  \E sum : Places(ws, sum)
<1> DEFINE L == Len(ws)
           F == [k \in 1 .. L |-> [x \in Nat |-> x + ws[k]]]
           Is(f) == f = [n \in 0 .. L |-> IF n = 0 THEN 0 ELSE f[n - 1] + ws[n]]
           g == CHOOSE f : Is(f)
<1>0. L \in Nat /\ \A k \in 1 .. L : ws[k] \in Nat
  OBVIOUS
<1> HIDE DEF L
<1>1. F \in Steps(L, Nat) /\ \A k \in 1 .. L, x \in Nat : F[k][x] = x + ws[k]
  BY <1>0 DEF Steps
<1> HIDE DEF F
<1>2. PICK f : f \in Passes(L, Nat, 0, F)
  <2>1. 0 \in Nat
    OBVIOUS
  <2>2. Passes(L, Nat, 0, F) # {}
    BY <1>0, <1>1, <2>1, Recursion
  <2> QED
    BY <2>2
<1>3. /\ f \in [0 .. L -> Nat] /\ f[0] = 0
      /\ \A k \in 1 .. L : f[k] = f[k - 1] + ws[k]
  <2>1. /\ f \in [0 .. L -> Nat] /\ f[0] = 0
        /\ \A k \in 1 .. L : f[k] = F[k][f[k - 1]]
    BY <1>2 DEF Passes
  <2>2. ASSUME NEW k \in 1 .. L PROVE f[k] = f[k - 1] + ws[k]
    <3>1. f[k - 1] \in Nat
      BY <2>1, <1>0
    <3> QED
      BY <1>1, <2>1, <3>1
  <2> QED
    BY <2>1, <2>2
<1>4. Is(f)
  BY <1>0, <1>3
<1>5. Is(g)
  <2> HIDE DEF Is
  <2> QED
    BY <1>4
<1>6. \A n \in 0 .. L : g[n] = IF n = 0 THEN 0 ELSE g[n - 1] + ws[n]
  <2> HIDE DEF g
  <2> QED
    BY <1>5
<1>7. \A i \in 1 .. L + 1 : Offset(ws, i) = g[i - 1]
  BY DEF Offset, L
<1> HIDE DEF g, Is
<1> DEFINE T == {k \in 0 .. L : g[k] = f[k]}
<1>8. 0 \in T
  BY <1>0, <1>3, <1>6
<1>9. ASSUME NEW k \in 0 .. L - 1, k \in T PROVE k + 1 \in T
  <2>1. k + 1 \in 1 .. L /\ k + 1 \in 0 .. L /\ k + 1 # 0 /\ k + 1 - 1 = k
    BY <1>0
  <2> QED
    BY <1>3, <1>6, <1>9, <2>1
<1>10. \A i \in 1 .. L + 1 : Offset(ws, i) = f[i - 1]
  <2>1. 0 .. L \subseteq T
    <3> HIDE DEF T
    <3> QED
      BY <1>0, <1>8, <1>9, UpTo
  <2>2. ASSUME NEW i \in 1 .. L + 1 PROVE g[i - 1] = f[i - 1]
    <3>1. i - 1 \in 0 .. L
      BY <1>0
    <3> QED
      BY <2>1, <3>1
  <2> QED
    BY <1>7, <2>2
<1>11. Places(ws, f)
  BY <1>3, <1>10 DEF Places, L
<1> QED
  BY <1>11

\* FlattenSeq joins the sequences one after the other.
Joins(S, ss, acc) ==
    /\ acc \in [0 .. Len(ss) -> Seq(S)]
    /\ acc[0] = <<>>
    /\ \A k \in 1 .. Len(ss) : acc[k] = acc[k - 1] \o ss[k]
    /\ acc[Len(ss)] = FlattenSeq(ss)

LEMMA FlattenIs ==
    ASSUME NEW S, NEW ss \in Seq(Seq(S))
    PROVE  \E acc : Joins(S, ss, acc)
<1> DEFINE L == Len(ss)
           F == [k \in 1 .. L |-> [x \in Seq(S) |-> x \o ss[k]]]
           Is(f) == f = [i \in 1 .. L |-> IF i = 1 THEN ss[i] ELSE f[i - 1] \o ss[i]]
           g == CHOOSE f : Is(f)
<1>0. L \in Nat /\ \A k \in 1 .. L : ss[k] \in Seq(S)
  OBVIOUS
<1> HIDE DEF L
<1>1. F \in Steps(L, Seq(S)) /\ \A k \in 1 .. L, x \in Seq(S) : F[k][x] = x \o ss[k]
  BY <1>0 DEF Steps
<1> HIDE DEF F
<1>2. PICK f : f \in Passes(L, Seq(S), <<>>, F)
  <2>1. <<>> \in Seq(S)
    OBVIOUS
  <2>2. Passes(L, Seq(S), <<>>, F) # {}
    BY <1>0, <1>1, <2>1, Recursion
  <2> QED
    BY <2>2
<1>3. /\ f \in [0 .. L -> Seq(S)] /\ f[0] = <<>>
      /\ \A k \in 1 .. L : f[k] = f[k - 1] \o ss[k]
  <2>1. /\ f \in [0 .. L -> Seq(S)] /\ f[0] = <<>>
        /\ \A k \in 1 .. L : f[k] = F[k][f[k - 1]]
    BY <1>2 DEF Passes
  <2>2. ASSUME NEW k \in 1 .. L PROVE f[k] = f[k - 1] \o ss[k]
    <3>1. f[k - 1] \in Seq(S)
      BY <2>1, <1>0
    <3> QED
      BY <1>1, <2>1, <3>1
  <2> QED
    BY <2>1, <2>2
<1> DEFINE h == [i \in 1 .. L |-> f[i]]
<1>a. ASSUME L > 0 PROVE f[1] = ss[1]
  <2>0. 1 \in 1 .. L /\ 1 - 1 = 0
    BY <1>0, <1>a
  <2>1. f[1] = f[0] \o ss[1] /\ ss[1] \in Seq(S)
    BY <1>0, <1>3, <2>0
  <2> QED
    BY <1>3, <2>1, ConcatEmptySeq
<1>4. Is(h)
  <2>1. ASSUME NEW i \in 1 .. L PROVE h[i] = IF i = 1 THEN ss[i] ELSE h[i - 1] \o ss[i]
    <3>1. CASE i = 1
      BY <1>0, <1>a, <3>1
    <3>2. CASE i # 1
      <4>1. i - 1 \in 1 .. L
        BY <1>0, <3>2
      <4> QED
        BY <1>3, <3>2, <4>1
    <3> QED
      BY <3>1, <3>2
  <2> QED
    BY <2>1
<1>5. Is(g)
  <2> HIDE DEF Is
  <2> QED
    BY <1>4
<1>6. \A i \in 1 .. L : g[i] = IF i = 1 THEN ss[i] ELSE g[i - 1] \o ss[i]
  <2> HIDE DEF g
  <2> QED
    BY <1>5
<1>7. L # 0 => g[L] = FlattenSeq(ss)
  BY DEF FlattenSeq, L
<1> HIDE DEF g, Is, h
<1> DEFINE T == {k \in 0 .. L : k # 0 => g[k] = f[k]}
<1>8. 0 \in T
  BY <1>0
<1>9. ASSUME NEW k \in 0 .. L - 1, k \in T PROVE k + 1 \in T
  <2>1. k + 1 \in 1 .. L /\ k + 1 \in 0 .. L /\ k + 1 # 0 /\ k + 1 - 1 = k
    BY <1>0
  <2>2. CASE k = 0
    <3>1. g[1] = ss[1] /\ f[1] = ss[1]
      BY <1>0, <1>6, <1>a, <2>1, <2>2
    <3> QED
      BY <2>1, <2>2, <3>1
  <2>3. CASE k # 0
    <3>1. g[k] = f[k]
      BY <1>9, <2>3
    <3> DEFINE j == k + 1
    <3>0. j \in 1 .. L /\ j - 1 = k
      BY <2>1
    <3> HIDE DEF j
    <3>2. f[j] = f[j - 1] \o ss[j]
      BY <1>3, <3>0
    <3>3. j # 1
      BY <1>0, <2>3 DEF j
    <3>4. g[j] = g[j - 1] \o ss[j]
      BY <1>6, <3>0, <3>3
    <3>5. g[j] = f[j]
      BY <3>0, <3>1, <3>2, <3>4
    <3> QED
      BY <2>1, <3>5 DEF j
  <2> QED
    BY <2>2, <2>3
<1>10. L # 0 => f[L] = g[L]
  <2>1. 0 .. L \subseteq T
    <3> HIDE DEF T
    <3> QED
      BY <1>0, <1>8, <1>9, UpTo
  <2> QED
    BY <1>0, <2>1
<1>11. f[L] = FlattenSeq(ss)
  <2>1. CASE L = 0
    <3>1. ss = <<>> /\ FlattenSeq(ss) = ss
      BY <2>1 DEF FlattenSeq, L
    <3> QED
      BY <1>3, <2>1, <3>1
  <2> QED
    BY <1>7, <1>10, <2>1
<1>12. Joins(S, ss, f)
  BY <1>3, <1>11 DEF Joins, L
<1> QED
  BY <1>12

-----------------------------------------------------------------------------
(* Numbers on the wire.                                                    *)

LEMMA DivIs ==
    ASSUME NEW x \in Int, NEW p \in Nat \ {0}
    PROVE  x \div p \in Int /\ p * (x \div p) <= x /\ x < p * (x \div p) + p
  OBVIOUS

LEMMA ModIs ==
    ASSUME NEW x \in Int, NEW p \in Nat \ {0}
    PROVE  x % p \in 0 .. p - 1 /\ x % p = x - p * (x \div p)
  OBVIOUS

LEMMA DivUnique ==
    ASSUME NEW x \in Int, NEW p \in Nat \ {0}, NEW q \in Int, q * p <= x, x < q * p + p
    PROVE  x \div p = q
  OBVIOUS

LEMMA DivDiv ==
    ASSUME NEW x \in Int, NEW p \in Nat \ {0}, NEW b \in Nat \ {0}
    PROVE  (x \div p) \div b = x \div (b * p)
<1> DEFINE d == x \div p
           e == d \div b
<1>1. d \in Int /\ p * d <= x /\ x < p * d + p
  BY DivIs
<1>2. e \in Int /\ b * e <= d /\ d < b * e + b
  BY <1>1, DivIs
<1> HIDE DEF d, e
<1>3. p * (b * e) <= p * d /\ p * (d + 1) <= p * (b * e + b)
  BY <1>1, <1>2
<1>4. b * p \in Nat \ {0}
  OBVIOUS
<1>5. e * (b * p) <= x /\ x < e * (b * p) + b * p
  BY <1>1, <1>2, <1>3
<1> QED
  BY <1>2, <1>4, <1>5, DivUnique DEF e, d

Byte == 0 .. Base - 1

LEMMA BaseIs == Base \in Nat \ {0} /\ Base > 17
  BY CodecAssumption

LEMMA PutIs ==
    ASSUME NEW x \in Int, NEW w \in Nat
    PROVE  /\ Put(x, w) \in Seq(Byte) /\ Len(Put(x, w)) = w
           /\ \A i \in 1 .. w : Put(x, w)[i] = (x \div Limit[w - i]) % Base
<1>1. ASSUME NEW i \in 1 .. w PROVE (x \div Limit[w - i]) % Base \in Byte
  <2>1. w - i \in Nat
    OBVIOUS
  <2>2. Limit[w - i] \in Nat \ {0}
    BY <2>1, LimitIs
  <2>3. x \div Limit[w - i] \in Int
    BY <2>2, DivIs
  <2> QED
    BY <2>3, BaseIs, ModIs DEF Byte
<1> DEFINE e(i) == (x \div Limit[w - i]) % Base
<1>2. Put(x, w) = [i \in 1 .. w |-> e(i)]
  BY DEF Put
<1>3. \A i \in 1 .. w : e(i) \in Byte
  BY <1>1
<1> HIDE DEF e
<1>4. Put(x, w) \in Seq(Byte) /\ Len(Put(x, w)) = w /\ \A i \in 1 .. w : Put(x, w)[i] = e(i)
  BY <1>2, <1>3
<1> QED
  BY <1>4 DEF e

\* What is read back is the number, as far as w bytes reach.
LEMMA NumPut ==
    ASSUME NEW x \in Int, NEW w \in Nat
    PROVE  Num(Put(x, w)) = x % Limit[w]
<1> DEFINE b == Put(x, w)
           D == x \div Limit[w]
<1>1. b \in Seq(Int) /\ Len(b) = w /\ \A i \in 1 .. w : b[i] = (x \div Limit[w - i]) % Base
  <2>1. /\ b \in Seq(Byte) /\ Len(b) = w
        /\ \A i \in 1 .. w : b[i] = (x \div Limit[w - i]) % Base
    BY PutIs
  <2>2. \A y \in Byte : y \in Int
    BY BaseIs DEF Byte
  <2> HIDE DEF b
  <2>3. b \in [1 .. w -> Byte]
    BY <2>1
  <2>4. b \in [1 .. w -> Int]
    BY <2>2, <2>3
  <2>5. b \in Seq(Int)
    BY <2>4
  <2> QED
    BY <2>1, <2>5
<1>2. D \in Int /\ Limit[w] \in Nat \ {0} /\ Limit[0] = 1
  BY LimitIs, DivIs
<1>3. PICK num : Sums(b, num)
  BY <1>1, NumIs
<1>4. /\ num[0] = 0 /\ num[w] = Num(b)
      /\ \A k \in 1 .. w : num[k] = num[k - 1] * Base + b[k]
  BY <1>1, <1>3 DEF Sums
<1> HIDE DEF b, D
<1> DEFINE T == {k \in 0 .. w : num[k] = x \div Limit[w - k] - Limit[k] * D}
<1>5. 0 \in T
  <2>1. x \div Limit[w - 0] - Limit[0] * D = 0
    BY <1>2 DEF D
  <2> QED
    BY <1>4, <2>1
<1>6. ASSUME NEW k \in 0 .. w - 1, k \in T PROVE k + 1 \in T
  <2> DEFINE j == k + 1
             m == w - j
             q == x \div Limit[m]
  <2>1. j \in 1 .. w /\ j \in 0 .. w /\ j - 1 = k /\ m \in Nat /\ m + 1 = w - k /\ k \in Nat
    OBVIOUS
  <2>2. /\ Limit[j] = Base * Limit[k] /\ Limit[w - k] = Base * Limit[m]
        /\ Limit[m] \in Nat \ {0} /\ Limit[k] \in Nat \ {0}
    <3>1. Limit[k + 1] = Base * Limit[k] /\ Limit[m + 1] = Base * Limit[m]
      BY <2>1, LimitIs
    <3> QED
      BY <2>1, <3>1, LimitIs
  <2>3. q \in Int /\ q \div Base \in Int /\ q \div Base = x \div Limit[w - k]
    <3> HIDE DEF m
    <3>1. q \in Int
      BY <2>2, DivIs
    <3>2. q \div Base = x \div (Base * Limit[m])
      BY <2>2, BaseIs, DivDiv
    <3> HIDE DEF q
    <3>3. q \div Base \in Int
      BY <3>1, BaseIs, DivIs
    <3> QED
      BY <2>2, <3>1, <3>2, <3>3
  <2>4. num[k] = q \div Base - Limit[k] * D
    BY <1>6, <2>3
  <2>5. num[j] = num[k] * Base + b[j] /\ b[j] = q % Base
    BY <1>1, <1>4, <2>1
  <2> HIDE DEF q, m, j
  <2>6. q % Base = q - Base * (q \div Base)
    BY <2>3, BaseIs, ModIs
  <2> DEFINE r == q \div Base
             l == Limit[k]
  <2>7. r \in Int /\ l \in Int /\ Base \in Int /\ D \in Int /\ q \in Int
    BY <1>2, <2>2, <2>3, BaseIs
  <2>8. num[j] = (r - l * D) * Base + (q - Base * r)
    BY <2>4, <2>5, <2>6
  <2>9. Limit[j] = Base * l
    BY <2>2
  <2> HIDE DEF r, l
  <2>10. (r - l * D) * Base + (q - Base * r) = q - (Base * l) * D
    BY <2>7
  <2>11. num[j] = q - Limit[j] * D
    BY <2>8, <2>9, <2>10
  <2> QED
    BY <2>1, <2>11 DEF q, m, j
<1>7. num[w] = x \div Limit[w - w] - Limit[w] * D
  <2>1. 0 .. w \subseteq T
    <3> HIDE DEF T
    <3> QED
      BY <1>5, <1>6, UpTo
  <2>2. w \in 0 .. w
    OBVIOUS
  <2> QED
    BY <2>1, <2>2
<1>8. x \div Limit[w - w] = x
  <2>1. Limit[w - w] = 1
    BY <1>2
  <2> QED
    BY <2>1
<1>9. x % Limit[w] = x - Limit[w] * D
  BY <1>2, ModIs DEF D
<1> QED
  BY <1>4, <1>7, <1>8, <1>9 DEF b

LEMMA NumPutFits ==
    ASSUME NEW w \in Nat, NEW x \in 0 .. Limit[w] - 1
    PROVE  Num(Put(x, w)) = x
<1>1. Limit[w] \in Nat \ {0}
  BY LimitIs
<1> DEFINE p == Limit[w]
<1>2. x % p = x
  BY <1>1
<1> QED
  BY <1>1, <1>2, NumPut

\* A signed number of w bytes comes back with its sign.
LEMMA SignedPut ==
    ASSUME NEW w \in Nat, NEW x \in Int, 2 * x < Limit[w], -Limit[w] <= 2 * x
    PROVE  Signed(Num(Put(x, w)), w) = x
<1> DEFINE p == Limit[w]
<1>1. p \in Nat \ {0} /\ Num(Put(x, w)) = x % p
  BY LimitIs, NumPut
<1>2. CASE x >= 0
  <2>1. x % p = x
    BY <1>1, <1>2
  <2> QED
    BY <1>1, <1>2, <2>1 DEF Signed
<1>3. CASE x < 0
  <2>0. -1 \in Int /\ (-1) * p <= x /\ x < (-1) * p + p
    BY <1>1, <1>3
  <2>1. x \div p = -1
    <3> DEFINE q == -1
    <3> HIDE DEF p
    <3>1. q \in Int /\ q * p <= x /\ x < q * p + p
      BY <2>0
    <3> HIDE DEF q
    <3>2. x \div p = q
      BY <1>1, <3>1, DivUnique
    <3> QED
      BY <3>2 DEF q
  <2>2. x % p = x + p
    <3> HIDE DEF p
    <3>1. x % p = x - p * (x \div p)
      BY <1>1, ModIs
    <3>2. x % p = x - p * (-1)
      BY <2>1, <3>1
    <3> QED
      BY <1>1, <3>2
  <2> QED
    BY <1>1, <1>3, <2>2 DEF Signed
<1> QED
  BY <1>2, <1>3

-----------------------------------------------------------------------------
(* Pieces of sequences.                                                    *)

LEMMA PieceIs ==
    ASSUME NEW S, NEW s \in Seq(S), NEW p \in 0 .. Len(s), NEW q \in p .. Len(s)
    PROVE  /\ SubSeq(s, p + 1, q) \in Seq(S) /\ Len(SubSeq(s, p + 1, q)) = q - p
           /\ \A i \in 1 .. q - p : SubSeq(s, p + 1, q)[i] = s[p + i]
<1>1. \A i \in p + 1 .. q : s[i] \in S
  OBVIOUS
<1>2. p + 1 \in Int /\ q \in Int
  OBVIOUS
<1>3. /\ SubSeq(s, p + 1, q) \in Seq(S)
      /\ Len(SubSeq(s, p + 1, q)) = IF p + 1 <= q THEN q - (p + 1) + 1 ELSE 0
      /\ \A i \in 1 .. q - (p + 1) + 1 : SubSeq(s, p + 1, q)[i] = s[p + 1 + i - 1]
  BY <1>1, <1>2, SubSeqProperties
<1> QED
  BY <1>3

LEMMA FromIs ==
    ASSUME NEW S, NEW s \in Seq(S), NEW p \in 0 .. Len(s)
    PROVE  /\ From(s, p) \in Seq(S) /\ Len(From(s, p)) = Len(s) - p
           /\ \A i \in 1 .. Len(s) - p : From(s, p)[i] = s[p + i]
<1>1. Len(s) \in p .. Len(s)
  OBVIOUS
<1> QED
  BY <1>1, PieceIs DEF From

LEMMA ConcatIs ==
    ASSUME NEW S, NEW a \in Seq(S), NEW b \in Seq(S)
    PROVE  /\ a \o b \in Seq(S) /\ Len(a \o b) = Len(a) + Len(b)
           /\ \A i \in 1 .. Len(a) : (a \o b)[i] = a[i]
           /\ \A i \in 1 .. Len(b) : (a \o b)[Len(a) + i] = b[i]
<1>1. /\ a \o b \in Seq(S) /\ Len(a \o b) = Len(a) + Len(b)
      /\ \A i \in 1 .. Len(a) + Len(b) : (a \o b)[i] = IF i <= Len(a) THEN a[i] ELSE b[i - Len(a)]
  BY ConcatProperties
<1>2. Len(a) \in Nat /\ Len(b) \in Nat
  OBVIOUS
<1>3. ASSUME NEW i \in 1 .. Len(a) PROVE (a \o b)[i] = a[i]
  BY <1>1, <1>2
<1>4. ASSUME NEW i \in 1 .. Len(b) PROVE (a \o b)[Len(a) + i] = b[i]
  <2> DEFINE j == Len(a) + i
  <2>1. j \in 1 .. Len(a) + Len(b) /\ ~(j <= Len(a)) /\ j - Len(a) = i
    BY <1>2
  <2> HIDE DEF j
  <2>2. (a \o b)[j] = b[i]
    BY <1>1, <2>1
  <2> QED
    BY <2>2 DEF j
<1> QED
  BY <1>1, <1>3, <1>4

\* A piece of what is in front, and what comes after it.
LEMMA PieceOfConcat ==
    ASSUME NEW S, NEW a \in Seq(S), NEW b \in Seq(S), NEW p \in 0 .. Len(a), NEW q \in p .. Len(a)
    PROVE  SubSeq(a \o b, p + 1, q) = SubSeq(a, p + 1, q)
<1>1. /\ a \o b \in Seq(S) /\ p \in 0 .. Len(a \o b) /\ q \in p .. Len(a \o b)
      /\ \A i \in 1 .. Len(a) : (a \o b)[i] = a[i]
  BY ConcatIs
<1> DEFINE c == a \o b
           s == SubSeq(c, p + 1, q)
           t == SubSeq(a, p + 1, q)
<1> HIDE DEF c
<1>2. /\ s \in Seq(S) /\ Len(s) = q - p /\ \A i \in 1 .. q - p : s[i] = c[p + i]
  BY <1>1, PieceIs DEF c
<1>3. /\ t \in Seq(S) /\ Len(t) = q - p /\ \A i \in 1 .. q - p : t[i] = a[p + i]
  BY PieceIs
<1>4. \A i \in 1 .. q - p : c[p + i] = a[p + i]
  BY <1>1 DEF c
<1> HIDE DEF s, t
<1>5. s = t
  BY <1>2, <1>3, <1>4, SeqEqual
<1> QED
  BY <1>5 DEF s, t, c

LEMMA WholePiece ==
    ASSUME NEW S, NEW a \in Seq(S)
    PROVE  SubSeq(a, 1, Len(a)) = a /\ From(a, 0) = a
<1>1. SubSeq(a, 1, Len(a)) = a
  BY SubSeqFull
<1> QED
  BY <1>1 DEF From

LEMMA FromConcat ==
    ASSUME NEW S, NEW a \in Seq(S), NEW b \in Seq(S), NEW p \in 0 .. Len(a)
    PROVE  From(a \o b, p) = From(a, p) \o b
<1> DEFINE c == a \o b
           s == From(c, p)
           f == From(a, p)
           t == f \o b
<1>1. /\ c \in Seq(S) /\ Len(c) = Len(a) + Len(b)
      /\ \A i \in 1 .. Len(a) : c[i] = a[i]
      /\ \A i \in 1 .. Len(b) : c[Len(a) + i] = b[i]
  BY ConcatIs
<1>2. p \in 0 .. Len(c) /\ Len(a) \in Nat /\ Len(b) \in Nat
  BY <1>1
<1> HIDE DEF c
<1>3. s \in Seq(S) /\ Len(s) = Len(c) - p /\ \A i \in 1 .. Len(c) - p : s[i] = c[p + i]
  BY <1>1, <1>2, FromIs, ZenonT(40)
<1>4. f \in Seq(S) /\ Len(f) = Len(a) - p /\ \A i \in 1 .. Len(a) - p : f[i] = a[p + i]
  BY FromIs
<1> HIDE DEF s, f
<1>5. /\ t \in Seq(S) /\ Len(t) = Len(f) + Len(b)
      /\ \A i \in 1 .. Len(f) : t[i] = f[i]
      /\ \A i \in 1 .. Len(b) : t[Len(f) + i] = b[i]
  <2>1. f \in Seq(S)
    BY <1>4
  <2> HIDE DEF t
  <2>2. /\ f \o b \in Seq(S) /\ Len(f \o b) = Len(f) + Len(b)
        /\ \A i \in 1 .. Len(f) : (f \o b)[i] = f[i]
        /\ \A i \in 1 .. Len(b) : (f \o b)[Len(f) + i] = b[i]
    BY <2>1, ConcatIs
  <2>3. t = f \o b
    BY DEF t
  <2> QED
    BY <2>2, <2>3
<1> HIDE DEF t
<1>6. ASSUME NEW i \in 1 .. Len(s) PROVE s[i] = t[i]
  <2> DEFINE la == Len(a)
             lb == Len(b)
  <2>a. Len(s) = la + lb - p /\ Len(c) - p = la + lb - p /\ Len(f) = la - p
    BY <1>1, <1>3, <1>4
  <2>b. la \in Nat /\ lb \in Nat /\ p \in 0 .. la
    BY <1>2
  <2> HIDE DEF la, lb
  <2>c. i \in 1 .. la + lb - p
    BY <2>a
  <2>0. /\ la \in Nat /\ lb \in Nat /\ p \in 0 .. la
        /\ i \in 1 .. la + lb - p /\ s[i] = c[p + i] /\ Len(f) = la - p
    BY <1>3, <2>a, <2>b, <2>c
  <2> HIDE DEF la, lb
  <2>1. CASE i <= la - p
    <3>1. p + i \in 1 .. la /\ i \in 1 .. la - p
      BY <2>0, <2>1
    <3>2. c[p + i] = a[p + i] /\ f[i] = a[p + i] /\ t[i] = f[i]
      BY <1>1, <1>4, <1>5, <3>1 DEF la
    <3> QED
      BY <2>0, <3>2
  <2>2. CASE ~(i <= la - p)
    <3> DEFINE j == i - (la - p)
    <3>1. j \in 1 .. lb /\ la + j = p + i /\ Len(f) + j = i
      BY <2>0, <2>2
    <3> HIDE DEF j
    <3>2. c[la + j] = b[j] /\ t[Len(f) + j] = b[j]
      BY <1>1, <1>5, <3>1 DEF la, lb
    <3> QED
      BY <2>0, <3>1, <3>2
  <2> QED
    BY <2>1, <2>2
<1>7. s = t
  BY <1>1, <1>2, <1>3, <1>4, <1>5, <1>6, SeqEqual, SMTT(30)
<1> QED
  BY <1>7 DEF s, t, f, c

LEMMA FromEnd ==
    ASSUME NEW S, NEW a \in Seq(S)
    PROVE  From(a, Len(a)) = <<>>
  BY SubSeqEmpty DEF From

LEMMA RestIs ==
    ASSUME NEW S, NEW a \in Seq(S), NEW b \in Seq(S)
    PROVE  SubSeq(a \o b, 1, Len(a)) = a /\ From(a \o b, Len(a)) = b
<1>1. Len(a) \in 0 .. Len(a) /\ 0 \in 0 .. Len(a)
  OBVIOUS
<1>2. SubSeq(a \o b, 0 + 1, Len(a)) = SubSeq(a, 0 + 1, Len(a))
  BY <1>1, PieceOfConcat
<1>3. From(a \o b, Len(a)) = <<>> \o b
  <2>1. From(a \o b, Len(a)) = From(a, Len(a)) \o b
    BY <1>1, FromConcat
  <2> QED
    BY <2>1, FromEnd
<1> QED
  BY <1>2, <1>3, WholePiece, ConcatEmptySeq

LEMMA PieceOfFrom ==
    ASSUME NEW S, NEW s \in Seq(S), NEW p \in 0 .. Len(s), NEW i \in 0 .. Len(s) - p, NEW j \in i .. Len(s) - p
    PROVE  SubSeq(From(s, p), i + 1, j) = SubSeq(s, p + i + 1, p + j)
<1> DEFINE f == From(s, p)
           a == SubSeq(f, i + 1, j)
           b == SubSeq(s, p + i + 1, p + j)
<1>1. f \in Seq(S) /\ Len(f) = Len(s) - p /\ \A k \in 1 .. Len(s) - p : f[k] = s[p + k]
  BY FromIs
<1> HIDE DEF f
<1>2. a \in Seq(S) /\ Len(a) = j - i /\ \A k \in 1 .. j - i : a[k] = f[i + k]
  BY <1>1, PieceIs
<1>3. b \in Seq(S) /\ Len(b) = j - i /\ \A k \in 1 .. j - i : b[k] = s[p + i + k]
  <2> DEFINE pp == p + i
             qq == p + j
  <2>1. pp \in 0 .. Len(s) /\ qq \in pp .. Len(s) /\ qq - pp = j - i
    OBVIOUS
  <2> HIDE DEF pp, qq
  <2>2. /\ SubSeq(s, pp + 1, qq) \in Seq(S) /\ Len(SubSeq(s, pp + 1, qq)) = qq - pp
        /\ \A k \in 1 .. qq - pp : SubSeq(s, pp + 1, qq)[k] = s[pp + k]
    BY <2>1, PieceIs
  <2> QED
    BY <2>1, <2>2 DEF pp, qq
<1>4. \A k \in 1 .. j - i : f[i + k] = s[p + i + k]
  <2>1. ASSUME NEW k \in 1 .. j - i PROVE f[i + k] = s[p + i + k]
    <3>1. i + k \in 1 .. Len(s) - p /\ p + (i + k) = p + i + k
      OBVIOUS
    <3> QED
      BY <1>1, <3>1
  <2> QED
    BY <2>1
<1> HIDE DEF a, b
<1>5. a = b
  BY <1>2, <1>3, <1>4, SeqEqual
<1> QED
  BY <1>5 DEF a, b, f

LEMMA FromFrom ==
    ASSUME NEW S, NEW s \in Seq(S), NEW p \in 0 .. Len(s), NEW q \in 0 .. Len(s) - p
    PROVE  From(From(s, p), q) = From(s, p + q)
<1>1. Len(From(s, p)) = Len(s) - p /\ Len(s) - p \in q .. Len(s) - p
  BY FromIs
<1>2. SubSeq(From(s, p), q + 1, Len(s) - p) = SubSeq(s, p + q + 1, p + (Len(s) - p))
  <2> DEFINE j == Len(s) - p
  <2>1. j \in q .. Len(s) - p
    BY <1>1
  <2> HIDE DEF j
  <2>2. SubSeq(From(s, p), q + 1, j) = SubSeq(s, p + q + 1, p + j)
    BY <2>1, PieceOfFrom, ZenonT(40)
  <2> QED
    BY <2>2 DEF j
<1>3. p + (Len(s) - p) = Len(s)
  OBVIOUS
<1> QED
  BY <1>1, <1>2, <1>3 DEF From

LEMMA Cancel ==
    ASSUME NEW S, NEW a \in Seq(S), NEW b \in Seq(S), NEW c \in Seq(S), NEW d \in Seq(S),
           a \o b = c \o d, Len(a) = Len(c)
    PROVE  a = c /\ b = d
<1>1. SubSeq(a \o b, 1, Len(a)) = a /\ From(a \o b, Len(a)) = b
  BY RestIs
<1>2. SubSeq(c \o d, 1, Len(c)) = c /\ From(c \o d, Len(c)) = d
  BY RestIs
<1> QED
  BY <1>1, <1>2

\* Where each of the sequences begins and ends.
Marks(ss, off) ==
    /\ off \in [0 .. Len(ss) -> Nat]
    /\ off[0] = 0
    /\ \A k \in 1 .. Len(ss) : off[k] = off[k - 1] + Len(ss[k])

LEMMA FlattenPieces ==
    ASSUME NEW S, NEW ss \in Seq(Seq(S)), NEW off, Marks(ss, off)
    PROVE  /\ FlattenSeq(ss) \in Seq(S) /\ Len(FlattenSeq(ss)) = off[Len(ss)]
           /\ \A k \in 1 .. Len(ss) :
                  /\ off[k - 1] <= off[k] /\ off[k] <= off[Len(ss)]
                  /\ SubSeq(FlattenSeq(ss), off[k - 1] + 1, off[k]) = ss[k]
<1> DEFINE L == Len(ss)
<1>0. L \in Nat /\ \A k \in 1 .. L : ss[k] \in Seq(S)
  OBVIOUS
<1>1. PICK acc : Joins(S, ss, acc)
  BY FlattenIs
<1>2. /\ acc \in [0 .. L -> Seq(S)] /\ acc[0] = <<>> /\ acc[L] = FlattenSeq(ss)
      /\ \A k \in 1 .. L : acc[k] = acc[k - 1] \o ss[k]
  BY <1>1 DEF Joins
<1>3. /\ off \in [0 .. L -> Nat] /\ off[0] = 0
      /\ \A k \in 1 .. L : off[k] = off[k - 1] + Len(ss[k])
  BY DEF Marks
<1> HIDE DEF L
<1> DEFINE At(k, j) == /\ off[j - 1] <= off[j] /\ off[j] <= off[k]
                       /\ SubSeq(acc[k], off[j - 1] + 1, off[j]) = ss[j]
           T == {k \in 0 .. L : Len(acc[k]) = off[k] /\ \A j \in 1 .. k : At(k, j)}
<1>4. 0 \in T
  BY <1>0, <1>2, <1>3
<1>5. ASSUME NEW k \in 0 .. L - 1, k \in T PROVE k + 1 \in T
  <2> DEFINE n == k + 1
  <2>1. n \in 1 .. L /\ n \in 0 .. L /\ n - 1 = k /\ k \in 0 .. L /\ k \in Nat
    BY <1>0
  <2> HIDE DEF n
  <2>2. acc[n] = acc[k] \o ss[n] /\ off[n] = off[k] + Len(ss[n])
    BY <1>2, <1>3, <2>1
  <2>3. acc[k] \in Seq(S) /\ ss[n] \in Seq(S) /\ off[k] \in Nat /\ Len(acc[k]) = off[k] /\ Len(ss[n]) \in Nat
    <3>1. Len(acc[k]) = off[k]
      BY <1>5
    <3>2. acc[k] \in Seq(S) /\ off[k] \in Nat
      BY <1>2, <1>3, <2>1
    <3>3. ss[n] \in Seq(S)
      BY <1>0, <2>1
    <3>4. Len(ss[n]) \in Nat
      BY <3>3
    <3> QED
      BY <3>1, <3>2, <3>3, <3>4
  <2>4. Len(acc[n]) = off[n] /\ off[k] <= off[n]
    <3> DEFINE a == acc[k]
               c == ss[n]
    <3>1. a \in Seq(S) /\ c \in Seq(S)
      BY <2>3
    <3> HIDE DEF a, c
    <3>2. Len(a \o c) = Len(a) + Len(c)
      BY <3>1, ConcatIs
    <3> QED
      BY <2>2, <2>3, <3>2 DEF a, c
  <2>5. ASSUME NEW j \in 1 .. k PROVE At(n, j)
    <3>1. At(k, j)
      BY <1>5
    <3>2. off[j] \in Nat /\ off[j - 1] \in Nat /\ off[n] \in Nat
      <4>1. j \in 0 .. L /\ j - 1 \in 0 .. L
        BY <1>0, <2>1
      <4> QED
        BY <1>3, <2>1, <4>1
    <3>3. off[j - 1] \in 0 .. Len(acc[k]) /\ off[j] \in off[j - 1] .. Len(acc[k])
      BY <2>3, <3>1, <3>2
    <3>4. SubSeq(acc[k] \o ss[n], off[j - 1] + 1, off[j]) = SubSeq(acc[k], off[j - 1] + 1, off[j])
      BY <2>3, <3>3, PieceOfConcat
    <3>5. off[j - 1] <= off[j] /\ off[j] <= off[n]
      BY <2>3, <2>4, <3>1, <3>2, SMTT(30)
    <3> QED
      BY <2>2, <3>1, <3>4, <3>5
  <2>6. At(n, n)
    <3>1. From(acc[k] \o ss[n], Len(acc[k])) = ss[n]
      BY <2>3, RestIs
    <3>2. off[n] \in Nat
      BY <1>3, <2>1
    <3>3. SubSeq(acc[n], off[k] + 1, off[n]) = ss[n]
      BY <2>2, <2>3, <2>4, <3>1 DEF From
    <3> QED
      BY <2>1, <2>4, <3>2, <3>3
  <2>7. \A j \in 1 .. n : j = n \/ j \in 1 .. k
    BY <2>1
  <2> HIDE DEF At
  <2>8. n \in T
    BY <2>1, <2>4, <2>5, <2>6, <2>7
  <2> QED
    BY <2>8 DEF n
<1>6. 0 .. L \subseteq T
  <2> HIDE DEF T
  <2> QED
    BY <1>0, <1>4, <1>5, UpTo
<1>7. L \in 0 .. L
  BY <1>0
<1>8. Len(acc[L]) = off[L] /\ \A j \in 1 .. L : At(L, j)
  <2> HIDE DEF At
  <2> QED
    BY <1>6, <1>7
<1>9. acc[L] \in Seq(S)
  BY <1>2, <1>7
<1> QED
  BY <1>2, <1>8, <1>9 DEF L

\* They determine what is joined.
LEMMA FlattenOf ==
    ASSUME NEW S, NEW ss \in Seq(Seq(S)), NEW off, Marks(ss, off),
           NEW t \in Seq(S), Len(t) = off[Len(ss)],
           \A k \in 1 .. Len(ss) : SubSeq(t, off[k - 1] + 1, off[k]) = ss[k]
    PROVE  FlattenSeq(ss) = t
<1> DEFINE L == Len(ss)
<1>0. L \in Nat
  OBVIOUS
<1>1. PICK acc : Joins(S, ss, acc)
  BY FlattenIs
<1>2. /\ acc[0] = <<>> /\ acc[L] = FlattenSeq(ss)
      /\ \A k \in 1 .. L : acc[k] = acc[k - 1] \o ss[k]
  BY <1>1 DEF Joins
<1>3. \A k \in 1 .. L : off[k - 1] <= off[k] /\ off[k] <= off[L]
  BY FlattenPieces
<1>4. off \in [0 .. L -> Nat] /\ off[0] = 0 /\ Len(t) = off[L]
  BY DEF Marks
<1>5. \A k \in 1 .. L : SubSeq(t, off[k - 1] + 1, off[k]) = ss[k]
  OBVIOUS
<1> HIDE DEF L
<1> DEFINE T == {k \in 0 .. L : SubSeq(t, 1, off[k]) = acc[k]}
<1>6. 0 \in T
  <2>1. SubSeq(t, 1, 0) = <<>>
    BY SubSeqEmpty
  <2>2. SubSeq(t, 1, off[0]) = acc[0]
    BY <1>2, <1>4, <2>1
  <2>3. 0 \in 0 .. L
    BY <1>0
  <2> QED
    BY <2>2, <2>3
<1>7. ASSUME NEW k \in 0 .. L - 1, k \in T PROVE k + 1 \in T
  <2> DEFINE n == k + 1
  <2>1. n \in 1 .. L /\ n \in 0 .. L /\ n - 1 = k /\ k \in 0 .. L
    BY <1>0
  <2> HIDE DEF n
  <2>2. acc[n] = acc[k] \o ss[n] /\ SubSeq(t, off[k] + 1, off[n]) = ss[n] /\ off[k] <= off[n] /\ off[n] <= Len(t)
    BY <1>2, <1>3, <1>4, <1>5, <2>1
  <2>3. off[k] \in Nat /\ off[n] \in Nat /\ SubSeq(t, 1, off[k]) = acc[k] /\ Len(t) \in Nat
    <3>1. SubSeq(t, 1, off[k]) = acc[k]
      BY <1>7
    <3>2. off[k] \in Nat /\ off[n] \in Nat
      BY <1>4, <2>1
    <3> QED
      BY <3>1, <3>2
  <2>4. 1 \in 1 .. Len(t) + 1 /\ off[k] \in 1 - 1 .. Len(t) /\ off[n] \in off[k] .. Len(t)
    BY <2>2, <2>3
  <2>5. SubSeq(t, 1, off[k]) \o SubSeq(t, off[k] + 1, off[n]) = SubSeq(t, 1, off[n])
    BY <2>4, ConcatAdjacentSubSeq
  <2> QED
    BY <2>1, <2>2, <2>3, <2>5 DEF n
<1>8. 0 .. L \subseteq T
  <2> HIDE DEF T
  <2> QED
    BY <1>0, <1>6, <1>7, UpTo
<1>9. SubSeq(t, 1, off[L]) = acc[L]
  <2>1. L \in 0 .. L
    BY <1>0
  <2> QED
    BY <1>8, <2>1
<1> QED
  BY <1>2, <1>4, <1>9, WholePiece

-----------------------------------------------------------------------------
(* Layouts.                                                                *)

LEMMA OffsetStep ==
    ASSUME NEW ws \in Seq(Nat)
    PROVE  /\ Offset(ws, 1) = 0
           /\ \A i \in 1 .. Len(ws) : Offset(ws, i + 1) = Offset(ws, i) + ws[i]
           /\ \A i \in 1 .. Len(ws) + 1 : Offset(ws, i) \in Nat
<1>0. Len(ws) \in Nat
  OBVIOUS
<1>1. PICK sum : Places(ws, sum)
  BY OffsetIs
<1>2. /\ sum \in [0 .. Len(ws) -> Nat] /\ sum[0] = 0
      /\ \A k \in 1 .. Len(ws) : sum[k] = sum[k - 1] + ws[k]
      /\ \A i \in 1 .. Len(ws) + 1 : Offset(ws, i) = sum[i - 1]
  BY <1>1 DEF Places
<1>3. ASSUME NEW i \in 1 .. Len(ws) + 1 PROVE Offset(ws, i) \in Nat
  <2>1. i - 1 \in 0 .. Len(ws)
    BY <1>0
  <2> QED
    BY <1>2, <2>1
<1>4. ASSUME NEW i \in 1 .. Len(ws) PROVE Offset(ws, i + 1) = Offset(ws, i) + ws[i]
  <2> DEFINE j == i + 1
  <2>1. i \in 1 .. Len(ws) + 1 /\ j \in 1 .. Len(ws) + 1 /\ j - 1 = i
    BY <1>0
  <2> HIDE DEF j
  <2>2. Offset(ws, j) = sum[i] /\ Offset(ws, i) = sum[i - 1]
    BY <1>2, <2>1
  <2> QED
    BY <1>2, <2>2 DEF j
<1>5. Offset(ws, 1) = 0
  <2>1. 1 \in 1 .. Len(ws) + 1 /\ 1 - 1 = 0
    BY <1>0
  <2> QED
    BY <1>2, <2>1
<1> QED
  BY <1>3, <1>4, <1>5

\* The first fields are where they are in the whole layout.
LEMMA OffsetOfPrefix ==
    ASSUME NEW ws \in Seq(Nat), NEW n \in 0 .. Len(ws), NEW i \in 1 .. n + 1
    PROVE  Offset(SubSeq(ws, 1, n), i) = Offset(ws, i)
<1> DEFINE v == SubSeq(ws, 1, n)
           T == {k \in 0 .. n : Offset(v, k + 1) = Offset(ws, k + 1)}
<1>0. n \in Nat /\ Len(ws) \in Nat
  OBVIOUS
<1>1. v \in Seq(Nat) /\ Len(v) = n /\ \A k \in 1 .. n : v[k] = ws[k]
  <2>1. 0 \in 0 .. Len(ws) /\ n \in 0 .. Len(ws)
    OBVIOUS
  <2>2. /\ SubSeq(ws, 0 + 1, n) \in Seq(Nat) /\ Len(SubSeq(ws, 0 + 1, n)) = n - 0
        /\ \A k \in 1 .. n - 0 : SubSeq(ws, 0 + 1, n)[k] = ws[0 + k]
    BY <2>1, PieceIs
  <2> QED
    BY <2>2, SMTT(30)
<1> HIDE DEF v
<1>2. 0 \in T
  BY <1>0, <1>1, OffsetStep
<1>3. ASSUME NEW k \in 0 .. n - 1, k \in T PROVE k + 1 \in T
  <2> DEFINE j == k + 1
  <2>1. j \in 1 .. n /\ j \in 1 .. Len(ws) /\ j \in 0 .. n /\ k \in 0 .. n
    BY <1>0
  <2>2. Offset(v, j) = Offset(ws, j)
    BY <1>3
  <2> HIDE DEF j
  <2>3. Offset(v, j + 1) = Offset(v, j) + v[j]
    BY <1>1, <2>1, OffsetStep
  <2>4. Offset(ws, j + 1) = Offset(ws, j) + ws[j]
    BY <2>1, OffsetStep
  <2>5. j \in T
    BY <1>1, <2>1, <2>2, <2>3, <2>4
  <2> QED
    BY <2>5 DEF j
<1>4. 0 .. n \subseteq T
  <2> HIDE DEF T
  <2> QED
    BY <1>0, <1>2, <1>3, UpTo
<1>5. i - 1 \in 0 .. n /\ (i - 1) + 1 = i
  BY <1>0
<1>6. i - 1 \in T
  <2> HIDE DEF T
  <2> QED
    BY <1>4, <1>5
<1>7. Offset(v, (i - 1) + 1) = Offset(ws, (i - 1) + 1)
  BY <1>6
<1> QED
  BY <1>5, <1>7 DEF v

LEMMA FieldsIs ==
    ASSUME NEW ws \in Seq(Nat), NEW f \in Seq(Int), Len(f) = Len(ws)
    PROVE  /\ Fields(ws, f) \in Seq(Byte) /\ Len(Fields(ws, f)) = Size(ws)
           /\ \A i \in 1 .. Len(ws) :
                  /\ Offset(ws, i) \in 0 .. Size(ws) /\ Offset(ws, i + 1) \in Offset(ws, i) .. Size(ws)
                  /\ SubSeq(Fields(ws, f), Offset(ws, i) + 1, Offset(ws, i + 1)) = Put(f[i], ws[i])
<1> DEFINE L == Len(ws)
           e(i) == Put(f[i], ws[i])
           ss == [i \in 1 .. L |-> e(i)]
<1>0. L \in Nat /\ \A i \in 1 .. L : f[i] \in Int /\ ws[i] \in Nat
  OBVIOUS
<1>1. \A i \in 1 .. L : e(i) \in Seq(Byte) /\ Len(e(i)) = ws[i]
  BY <1>0, PutIs
<1>2. Fields(ws, f) = FlattenSeq(ss)
  BY DEF Fields
<1>3. PICK sum : Places(ws, sum)
  BY OffsetIs
<1>4. /\ sum \in [0 .. L -> Nat] /\ sum[0] = 0
      /\ \A k \in 1 .. L : sum[k] = sum[k - 1] + ws[k]
      /\ \A i \in 1 .. L + 1 : Offset(ws, i) = sum[i - 1]
  BY <1>3 DEF Places
<1>5. Size(ws) = Offset(ws, L + 1)
  BY DEF Size
<1> HIDE DEF L, e
<1>6. ss \in Seq(Seq(Byte)) /\ Len(ss) = L /\ \A i \in 1 .. L : ss[i] = e(i)
  BY <1>0, <1>1
<1> HIDE DEF ss
<1>7. Marks(ss, sum)
  BY <1>1, <1>4, <1>6 DEF Marks
<1>8. /\ FlattenSeq(ss) \in Seq(Byte) /\ Len(FlattenSeq(ss)) = sum[L]
      /\ \A k \in 1 .. L :
             /\ sum[k - 1] <= sum[k] /\ sum[k] <= sum[L]
             /\ SubSeq(FlattenSeq(ss), sum[k - 1] + 1, sum[k]) = ss[k]
  BY <1>6, <1>7, FlattenPieces
<1>9. Size(ws) = sum[L]
  <2> DEFINE n == L + 1
  <2>1. n \in 1 .. L + 1 /\ n - 1 = L
    BY <1>0
  <2> HIDE DEF n
  <2>2. Offset(ws, n) = sum[L]
    BY <1>4, <2>1
  <2> QED
    BY <1>5, <2>2 DEF n
<1>10. ASSUME NEW i \in 1 .. L
       PROVE  /\ Offset(ws, i) \in 0 .. Size(ws) /\ Offset(ws, i + 1) \in Offset(ws, i) .. Size(ws)
              /\ SubSeq(Fields(ws, f), Offset(ws, i) + 1, Offset(ws, i + 1)) = Put(f[i], ws[i])
  <2> DEFINE j == i + 1
  <2>1. /\ i \in 1 .. L + 1 /\ j \in 1 .. L + 1 /\ j - 1 = i
        /\ i \in 0 .. L /\ i - 1 \in 0 .. L /\ L \in 0 .. L
    BY <1>0
  <2> HIDE DEF j
  <2>2. Offset(ws, i) = sum[i - 1] /\ Offset(ws, j) = sum[i]
    BY <1>4, <2>1
  <2>3. sum[i - 1] \in Nat /\ sum[i] \in Nat /\ sum[L] \in Nat
    BY <1>4, <2>1
  <2>4. /\ sum[i - 1] <= sum[i] /\ sum[i] <= sum[L]
        /\ SubSeq(FlattenSeq(ss), sum[i - 1] + 1, sum[i]) = ss[i]
    BY <1>8
  <2>5. Offset(ws, i) \in 0 .. Size(ws) /\ Offset(ws, j) \in Offset(ws, i) .. Size(ws)
    BY <1>9, <2>2, <2>3, <2>4
  <2>6. SubSeq(Fields(ws, f), Offset(ws, i) + 1, Offset(ws, j)) = e(i)
    BY <1>2, <1>6, <2>2, <2>4
  <2> QED
    BY <2>5, <2>6 DEF j, e
<1>11. Fields(ws, f) \in Seq(Byte) /\ Len(Fields(ws, f)) = Size(ws)
  BY <1>2, <1>8, <1>9
<1> QED
  BY <1>10, <1>11 DEF L

\* What is read back where a layout was written, and what is left.
LEMMA FieldsRead ==
    ASSUME NEW ws \in Seq(Nat), NEW f \in Seq(Int), Len(f) = Len(ws), NEW rest \in Seq(Byte)
    PROVE  /\ Fields(ws, f) \o rest \in Seq(Byte)
           /\ Len(Fields(ws, f) \o rest) = Size(ws) + Len(rest)
           /\ \A i \in 1 .. Len(ws) : Field(Fields(ws, f) \o rest, ws, i) = Num(Put(f[i], ws[i]))
           /\ From(Fields(ws, f) \o rest, Size(ws)) = rest
           /\ Size(ws) \in Nat
<1> DEFINE b == Fields(ws, f)
<1>1. /\ b \in Seq(Byte) /\ Len(b) = Size(ws)
      /\ \A i \in 1 .. Len(ws) :
             /\ Offset(ws, i) \in 0 .. Size(ws) /\ Offset(ws, i + 1) \in Offset(ws, i) .. Size(ws)
             /\ SubSeq(b, Offset(ws, i) + 1, Offset(ws, i + 1)) = Put(f[i], ws[i])
  BY FieldsIs
<1> HIDE DEF b
<1>2. b \o rest \in Seq(Byte) /\ Len(b \o rest) = Size(ws) + Len(rest) /\ From(b \o rest, Size(ws)) = rest
  <2>0. b \in Seq(Byte) /\ Len(b) = Size(ws)
    BY <1>1
  <2>1. b \o rest \in Seq(Byte) /\ Len(b \o rest) = Len(b) + Len(rest)
    BY <2>0, ConcatIs
  <2>2. From(b \o rest, Len(b)) = rest
    BY <2>0, RestIs
  <2> QED
    BY <2>0, <2>1, <2>2
<1>3. ASSUME NEW i \in 1 .. Len(ws) PROVE Field(b \o rest, ws, i) = Num(Put(f[i], ws[i]))
  <2> DEFINE p == Offset(ws, i)
             q == Offset(ws, i + 1)
  <2>1. p \in 0 .. Len(b) /\ q \in p .. Len(b) /\ SubSeq(b, p + 1, q) = Put(f[i], ws[i])
    BY <1>1
  <2> HIDE DEF p, q
  <2>2. SubSeq(b \o rest, p + 1, q) = SubSeq(b, p + 1, q)
    BY <1>1, <2>1, PieceOfConcat
  <2> QED
    BY <2>1, <2>2 DEF p, q, Field
<1>4. Size(ws) \in Nat
  BY <1>1
<1> QED
  BY <1>2, <1>3, <1>4 DEF b

LEMMA LayoutIs ==
    /\ Layout.Orientation = <<1>> /\ Layout.Overlay = <<1>> /\ Layout.Key = <<2, 1>>
    /\ Layout.MouseButton = <<1, 1, 2, 2>> /\ Layout.Scroll = <<2, 2, 2, 2>> /\ Layout.Pen = <<2, 2, 2, 1>>
    /\ Layout.StreamParams = <<4, 4, 1>> /\ Layout.Input = <<1, 2, 2, 2>> /\ Layout.Video = <<8, 1>>
    /\ Layout.Config = <<4, 4, 4>> /\ Layout.Audio = <<>> /\ Layout.Ping = <<>> /\ Layout.Pong = <<>>
    /\ Layout.Bye = <<>> /\ Layout.KeyframeRequest = <<>>
  BY DEF Layout

Widths == Seq(Nat \ {0})
Plain == {"Orientation", "Overlay", "Key", "MouseButton", "Pen", "StreamParams", "Input", "Ping", "Pong", "Bye",
          "KeyframeRequest"}

LEMMA WidthsIs == \A t \in Plain \cup {"Scroll", "Video", "Config", "Audio"} : Layout[t] \in Widths
<1>1. /\ <<>> \in Widths /\ <<1>> \in Widths /\ <<2, 1>> \in Widths /\ <<1, 1, 2, 2>> \in Widths
      /\ <<2, 2, 2, 2>> \in Widths /\ <<2, 2, 2, 1>> \in Widths /\ <<4, 4, 1>> \in Widths
      /\ <<1, 2, 2, 2>> \in Widths /\ <<8, 1>> \in Widths /\ <<4, 4, 4>> \in Widths
  BY DEF Widths
<1> HIDE DEF Widths
<1> QED
  BY <1>1, LayoutIs DEF Plain

LEMMA WidthsAreNat == ASSUME NEW ws \in Widths PROVE ws \in Seq(Nat) /\ \A i \in 1 .. Len(ws) : ws[i] \in Nat \ {0}
  BY SeqMonotonic DEF Widths

LEMMA FitsIs ==
    ASSUME NEW ws \in Widths, NEW f \in Seq(Int), Fits(f, ws)
    PROVE  Len(f) = Len(ws) /\ \A i \in 1 .. Len(ws) : f[i] \in Nat /\ Num(Put(f[i], ws[i])) = f[i]
<1>1. Len(f) = Len(ws) /\ DOMAIN f = 1 .. Len(ws)
  BY DEF Fits
<1>2. ASSUME NEW i \in 1 .. Len(ws) PROVE f[i] \in Nat /\ Num(Put(f[i], ws[i])) = f[i]
  <2> DEFINE w == ws[i]
             x == f[i]
             p == Limit[w - 1]
  <2>1. w \in Nat \ {0} /\ w - 1 \in Nat /\ w - 1 + 1 = w
    BY WidthsAreNat
  <2>2. x \in Int /\ x >= 0 /\ x \div p < Base
    BY <1>1 DEF Fits
  <2> HIDE DEF w, x
  <2>3. p \in Nat \ {0} /\ Limit[w] = Base * p
    <3> DEFINE n == w - 1
    <3>1. n \in Nat /\ n + 1 = w
      BY <2>1
    <3> HIDE DEF n
    <3>2. Limit[n] \in Nat \ {0} /\ Limit[n + 1] = Base * Limit[n]
      BY <3>1, LimitIs
    <3> QED
      BY <3>1, <3>2 DEF n
  <2> HIDE DEF p
  <2>4. x < Base * p
    <3> DEFINE q == x \div p
    <3>1. q \in Int /\ x < p * q + p
      BY <2>2, <2>3, DivIs
    <3>2. q + 1 <= Base
      BY <2>2, <3>1, BaseIs
    <3> HIDE DEF q
    <3>3. p * (q + 1) <= p * Base
      BY <2>3, <3>1, <3>2, BaseIs
    <3> QED
      BY <2>2, <2>3, <3>1, <3>3, BaseIs
  <2>5. x \in 0 .. Limit[w] - 1
    BY <2>2, <2>3, <2>4, BaseIs
  <2>6. w \in Nat
    BY <2>1
  <2>7. x \in Nat /\ Num(Put(x, w)) = x
    BY <2>2, <2>5, <2>6, NumPutFits
  <2> QED
    BY <2>7 DEF w, x
<1> QED
  BY <1>1, <1>2

LEMMA ValuesRead ==
    ASSUME NEW ws \in Widths, NEW f \in Seq(Int), Fits(f, ws), NEW rest \in Seq(Byte)
    PROVE  /\ Values(Fields(ws, f) \o rest, ws) = f
           /\ From(Fields(ws, f) \o rest, Size(ws)) = rest
           /\ Fields(ws, f) \o rest \in Seq(Byte)
           /\ Len(Fields(ws, f) \o rest) = Size(ws) + Len(rest)
           /\ Size(ws) \in Nat
<1>1. ws \in Seq(Nat) /\ Len(f) = Len(ws) /\ \A i \in 1 .. Len(ws) : Num(Put(f[i], ws[i])) = f[i]
  BY WidthsAreNat, FitsIs
<1> DEFINE b == Fields(ws, f) \o rest
           e(i) == Field(b, ws, i)
<1>2. /\ b \in Seq(Byte) /\ Len(b) = Size(ws) + Len(rest)
      /\ \A i \in 1 .. Len(ws) : e(i) = Num(Put(f[i], ws[i]))
      /\ From(b, Size(ws)) = rest /\ Size(ws) \in Nat
  BY <1>1, FieldsRead
<1>3. Values(b, ws) = [i \in 1 .. Len(ws) |-> e(i)]
  BY DEF Values
<1>4. \A i \in 1 .. Len(ws) : e(i) = f[i]
  BY <1>1, <1>2
<1> HIDE DEF e
<1>5. f = [i \in 1 .. Len(ws) |-> f[i]]
  BY <1>1
<1>6. Values(b, ws) = f
  BY <1>3, <1>4, <1>5
<1> QED
  BY <1>2, <1>6

LEMMA ValuesReadAll ==
    ASSUME NEW ws \in Widths, NEW f \in Seq(Int), Fits(f, ws)
    PROVE  /\ Values(Fields(ws, f), ws) = f /\ Fields(ws, f) \in Seq(Byte)
           /\ Len(Fields(ws, f)) = Size(ws) /\ Size(ws) \in Nat
<1>1. <<>> \in Seq(Byte) /\ Len(<<>>) = 0
  OBVIOUS
<1>2. /\ Fields(ws, f) \in Seq(Byte) /\ Len(Fields(ws, f)) = Size(ws)
  BY WidthsAreNat, FitsIs, FieldsIs
<1>3. Fields(ws, f) \o <<>> = Fields(ws, f)
  BY <1>2, ConcatEmptySeq
<1>4. Values(Fields(ws, f) \o <<>>, ws) = f /\ Size(ws) \in Nat
  BY <1>1, ValuesRead
<1> QED
  BY <1>2, <1>3, <1>4

LEMMA SizeOf1 ==
    ASSUME NEW ws \in Seq(Nat), Len(ws) = 1
    PROVE  Size(ws) = ws[1]
<1>0. Offset(ws, 1) = 0 /\ \A i \in 1 .. Len(ws) : Offset(ws, i + 1) = Offset(ws, i) + ws[i]
  BY OffsetStep, Zenon
<1>1. 1 \in 1 .. Len(ws)
  OBVIOUS
<1>2. \A i \in 1 .. Len(ws) : ws[i] \in Nat
  BY ElementOfSeq
<1>3. Offset(ws, 1 + 1) = Offset(ws, 1) + ws[1]
  BY <1>0, <1>1, Zenon
<1> QED
  BY <1>0, <1>1, <1>2, <1>3 DEF Size

LEMMA SizeOf3 ==
    ASSUME NEW ws \in Seq(Nat), Len(ws) = 3
    PROVE  Size(ws) = ws[1] + ws[2] + ws[3]
<1>0. Offset(ws, 1) = 0 /\ \A i \in 1 .. Len(ws) : Offset(ws, i + 1) = Offset(ws, i) + ws[i]
  BY OffsetStep, Zenon
<1>1. 1 \in 1 .. Len(ws) /\ 2 \in 1 .. Len(ws) /\ 3 \in 1 .. Len(ws)
  OBVIOUS
<1>2. \A i \in 1 .. Len(ws) : ws[i] \in Nat
  BY ElementOfSeq
<1>3. Offset(ws, 1 + 1) = Offset(ws, 1) + ws[1] /\ Offset(ws, 2 + 1) = Offset(ws, 2) + ws[2]
      /\ Offset(ws, 3 + 1) = Offset(ws, 3) + ws[3]
  BY <1>0, <1>1, Zenon
<1> QED
  BY <1>0, <1>1, <1>2, <1>3 DEF Size

LEMMA SizeOf4 ==
    ASSUME NEW ws \in Seq(Nat), Len(ws) = 4
    PROVE  Size(ws) = ws[1] + ws[2] + ws[3] + ws[4]
<1>0. Offset(ws, 1) = 0 /\ \A i \in 1 .. Len(ws) : Offset(ws, i + 1) = Offset(ws, i) + ws[i]
  BY OffsetStep, Zenon
<1>1. 1 \in 1 .. Len(ws) /\ 2 \in 1 .. Len(ws) /\ 3 \in 1 .. Len(ws) /\ 4 \in 1 .. Len(ws)
  OBVIOUS
<1>2. \A i \in 1 .. Len(ws) : ws[i] \in Nat
  BY ElementOfSeq
<1>3. Offset(ws, 1 + 1) = Offset(ws, 1) + ws[1] /\ Offset(ws, 2 + 1) = Offset(ws, 2) + ws[2]
      /\ Offset(ws, 3 + 1) = Offset(ws, 3) + ws[3] /\ Offset(ws, 4 + 1) = Offset(ws, 4) + ws[4]
  BY <1>0, <1>1, Zenon
<1> QED
  BY <1>0, <1>1, <1>2, <1>3 DEF Size

LEMMA SizesAre ==
    /\ Size(<<1>>) = 1 /\ Size(<<1, 2, 2>>) = 5 /\ Size(<<1, 2, 2, 2>>) = 7
    /\ Size(<<4, 4, 4>>) = 12 /\ Size(<<>>) = 0
<1>1. Size(<<1>>) = 1
  <2> DEFINE ws == <<1>>
  <2>1. ws \in Seq(Nat) /\ Len(ws) = 1 /\ ws[1] = 1
    OBVIOUS
  <2> HIDE DEF ws
  <2>2. Size(ws) = 1
    BY <2>1, SizeOf1
  <2> QED
    BY <2>2 DEF ws
<1>2. Size(<<1, 2, 2>>) = 5
  <2> DEFINE ws == <<1, 2, 2>>
  <2>1. ws \in Seq(Nat) /\ Len(ws) = 3 /\ ws[1] = 1 /\ ws[2] = 2 /\ ws[3] = 2
    OBVIOUS
  <2> HIDE DEF ws
  <2>2. Size(ws) = 5
    BY <2>1, SizeOf3
  <2> QED
    BY <2>2 DEF ws
<1>3. Size(<<1, 2, 2, 2>>) = 7
  <2> DEFINE ws == <<1, 2, 2, 2>>
  <2>1. ws \in Seq(Nat) /\ Len(ws) = 4 /\ ws[1] = 1 /\ ws[2] = 2 /\ ws[3] = 2 /\ ws[4] = 2
    OBVIOUS
  <2> HIDE DEF ws
  <2>2. Size(ws) = 7
    BY <2>1, SizeOf4
  <2> QED
    BY <2>2 DEF ws
<1>4. Size(<<4, 4, 4>>) = 12
  <2> DEFINE ws == <<4, 4, 4>>
  <2>1. ws \in Seq(Nat) /\ Len(ws) = 3 /\ ws[1] = 4 /\ ws[2] = 4 /\ ws[3] = 4
    OBVIOUS
  <2> HIDE DEF ws
  <2>2. Size(ws) = 12
    BY <2>1, SizeOf3
  <2> QED
    BY <2>2 DEF ws
<1>5. Size(<<>>) = 0
  <2> DEFINE ws == <<>>
  <2>1. ws \in Seq(Nat) /\ Len(ws) = 0
    OBVIOUS
  <2> HIDE DEF ws
  <2>2. Offset(ws, 1) = 0
    BY <2>1, OffsetStep
  <2>3. Size(ws) = 0
    BY <2>1, <2>2 DEF Size
  <2> QED
    BY <2>3 DEF ws
<1> QED
  BY <1>1, <1>2, <1>3, <1>4, <1>5

LEMMA HelloOffsets ==
    /\ HelloFields \in Widths /\ Len(HelloFields) = 10
    /\ Offset(HelloFields, 1) = 0 /\ Offset(HelloFields, 2) = 4 /\ Offset(HelloFields, 3) = 8
    /\ Offset(HelloFields, 4) = 12 /\ Offset(HelloFields, 5) = 16 /\ Offset(HelloFields, 6) = 20
    /\ Offset(HelloFields, 7) = 21 /\ Offset(HelloFields, 8) = 22 /\ Offset(HelloFields, 9) = 26
    /\ Offset(HelloFields, 10) = 28 /\ Offset(HelloFields, 11) = 30
<1> DEFINE ws == HelloFields
<1>1. /\ ws \in Widths /\ Len(ws) = 10 /\ ws[1] = 4 /\ ws[2] = 4 /\ ws[3] = 4 /\ ws[4] = 4 /\ ws[5] = 4
      /\ ws[6] = 1 /\ ws[7] = 1 /\ ws[8] = 4 /\ ws[9] = 2 /\ ws[10] = 2
  BY DEF HelloFields, Widths
<1> HIDE DEF ws
<1>2. ws \in Seq(Nat)
  BY <1>1, WidthsAreNat
<1>3. Offset(ws, 1) = 0 /\ \A i \in 1 .. 10 : Offset(ws, i + 1) = Offset(ws, i) + ws[i]
  BY <1>1, <1>2, OffsetStep
<1>4. /\ Offset(ws, 1 + 1) = Offset(ws, 1) + ws[1] /\ Offset(ws, 2 + 1) = Offset(ws, 2) + ws[2]
      /\ Offset(ws, 3 + 1) = Offset(ws, 3) + ws[3] /\ Offset(ws, 4 + 1) = Offset(ws, 4) + ws[4]
      /\ Offset(ws, 5 + 1) = Offset(ws, 5) + ws[5]
  BY <1>3
<1>5. /\ Offset(ws, 6 + 1) = Offset(ws, 6) + ws[6] /\ Offset(ws, 7 + 1) = Offset(ws, 7) + ws[7]
      /\ Offset(ws, 8 + 1) = Offset(ws, 8) + ws[8] /\ Offset(ws, 9 + 1) = Offset(ws, 9) + ws[9]
      /\ Offset(ws, 10 + 1) = Offset(ws, 10) + ws[10]
  BY <1>3
<1>6. /\ Offset(ws, 1) = 0 /\ Offset(ws, 2) = 4 /\ Offset(ws, 3) = 8 /\ Offset(ws, 4) = 12 /\ Offset(ws, 5) = 16
      /\ Offset(ws, 6) = 20
  BY <1>1, <1>3, <1>4
<1>7. /\ Offset(ws, 7) = 21 /\ Offset(ws, 8) = 22 /\ Offset(ws, 9) = 26
      /\ Offset(ws, 10) = 28 /\ Offset(ws, 11) = 30
  BY <1>1, <1>5, <1>6
<1> QED
  BY <1>1, <1>6, <1>7 DEF ws

-----------------------------------------------------------------------------
(* Every message is read as it was meant.                                  *)

Types == {Type[i] : i \in DOMAIN Type}
Faithful(m) ==
    /\ Body(m) \in Seq(Byte)
    /\ Accepts(m.type, Body(m))
    /\ Decode(m.type, Body(m)) = Meant(m)

LEMMA TypesAre ==
    /\ Types = Plain \cup {"Hello", "Touch", "Scroll", "Video", "Config", "Audio"}
    /\ \A t \in Types : Code(t) \in 1 .. 17 /\ Type[Code(t)] = t
<1>1. Types = Plain \cup {"Hello", "Touch", "Scroll", "Video", "Config", "Audio"} /\ DOMAIN Type = 1 .. 17
  BY DEF Types, Type, Plain
<1>2. ASSUME NEW t \in Types PROVE Code(t) \in 1 .. 17 /\ Type[Code(t)] = t
  <2>1. \E i \in 1 .. 17 : Type[i] = t
    BY <1>1 DEF Types
  <2> QED
    BY <1>1, <2>1 DEF Code
<1> QED
  BY <1>1, <1>2

LEMMA SendableIs ==
    ASSUME NEW m, Sendable(m)
    PROVE  /\ m.type \in Types /\ m.f \in Seq(Int) /\ m.data \in Seq(Seq(Byte))
           /\ m = Message(m.type, m.f, m.data)
  BY DEF Sendable, Types, Byte, Message

LEMMA PlainFaithful ==
    ASSUME NEW m, Sendable(m), m.type \in Plain, Fits(m.f, Layout[m.type])
    PROVE  Faithful(m)
<1> DEFINE ws == Layout[m.type]
           f == m.f
<1>1. ws \in Widths /\ f \in Seq(Int)
  BY WidthsIs, SendableIs
<1>2. m.data = <<>> /\ m = Message(m.type, f, <<>>)
  BY SendableIs DEF Sendable, Plain
<1>3. Len(f) = Len(ws) /\ SubSeq(ws, 1, Len(f)) = ws
  BY <1>1, SubSeqFull DEF Fits, Widths
<1>4. Body(m) = Fields(ws, f)
  BY <1>3 DEF Body, Plain
<1>5. Values(Fields(ws, f), ws) = f /\ Fields(ws, f) \in Seq(Byte) /\ Len(Fields(ws, f)) = Size(ws) /\ Size(ws) \in Nat
  BY <1>1, ValuesReadAll
<1> HIDE DEF ws, f
<1>6. Accepts(m.type, Body(m))
  <2>1. CASE m.type = "Input"
    <3>1. Size(ws) = 7
      BY <2>1, LayoutIs, SizesAre DEF ws
    <3> QED
      BY <1>4, <1>5, <2>1, <3>1 DEF Accepts
  <2>2. CASE m.type \in {"Orientation", "Overlay"}
    <3>1. Size(ws) = 1
      BY <2>2, LayoutIs, SizesAre DEF ws
    <3> QED
      BY <1>4, <1>5, <2>2, <3>1 DEF Accepts
  <2>3. CASE m.type \notin {"Input", "Orientation", "Overlay"}
    BY <1>4, <1>5, <2>3 DEF Accepts, Plain, ws
  <2> QED
    BY <2>1, <2>2, <2>3
<1>7. Decode(m.type, Body(m)) = Message(m.type, f, <<>>)
  <2>1. ASSUME m.type = "Input" PROVE Len(Body(m)) # 5
    <3>1. Size(ws) = 7
      BY <2>1, LayoutIs, SizesAre DEF ws
    <3> QED
      BY <1>4, <1>5, <3>1
  <2> QED
    BY <1>4, <1>5, <2>1 DEF Decode, Plain, ws
<1>8. Meant(m) = m
  <2>1. ASSUME m.type = "Input" PROVE Len(f) # 3
    <3>1. ws = <<1, 2, 2, 2>>
      BY <2>1, LayoutIs DEF ws
    <3>2. Len(ws) = 4
      BY <3>1
    <3> QED
      BY <1>3, <3>2
  <2> QED
    BY <2>1 DEF Meant, Plain, f
<1> QED
  BY <1>2, <1>4, <1>5, <1>6, <1>7, <1>8 DEF Faithful

LEMMA OldInputFaithful ==
    ASSUME NEW m, Sendable(m), m.type = "Input", Fits(m.f, <<1, 2, 2>>)
    PROVE  Faithful(m)
<1> DEFINE ws == <<1, 2, 2>>
           f == m.f
<1>1. ws \in Widths /\ Len(ws) = 3 /\ f \in Seq(Int)
  BY SendableIs DEF Widths
<1>2. m.data = <<>> /\ m = Message(m.type, f, <<>>)
  BY SendableIs DEF Sendable
<1>3. Len(f) = 3 /\ SubSeq(Layout[m.type], 1, Len(f)) = ws
  <2>1. Len(f) = 3
    BY DEF Fits
  <2>2. SubSeq(<<1, 2, 2, 2>>, 1, 3) = <<1, 2, 2>>
    <3> DEFINE l == <<1, 2, 2, 2>>
               s == SubSeq(l, 0 + 1, 3)
    <3>1. l \in Seq(Nat) /\ Len(l) = 4 /\ l[1] = 1 /\ l[2] = 2 /\ l[3] = 2
      OBVIOUS
    <3> HIDE DEF l
    <3>2. 0 \in 0 .. Len(l) /\ 3 \in 0 .. Len(l)
      BY <3>1
    <3>3. s \in Seq(Nat) /\ Len(s) = 3 - 0 /\ \A i \in 1 .. 3 - 0 : s[i] = l[0 + i]
      BY <3>1, <3>2, PieceIs
    <3> HIDE DEF s
    <3>4. Len(s) = 3 /\ s[1] = 1 /\ s[2] = 2 /\ s[3] = 2
      BY <3>1, <3>3
    <3>5. s = <<s[1], s[2], s[3]>>
      BY <3>3, <3>4
    <3> QED
      BY <3>4, <3>5 DEF s, l
  <2> QED
    BY <2>1, <2>2, LayoutIs
<1>4. Body(m) = Fields(ws, f)
  BY <1>3 DEF Body
<1>5. Values(Fields(ws, f), ws) = f /\ Fields(ws, f) \in Seq(Byte) /\ Len(Fields(ws, f)) = 5
  BY <1>1, ValuesReadAll, SizesAre
<1>6. Decode(m.type, Body(m)) = Message(m.type, Append(f, FullPressure), <<>>)
  <2> HIDE DEF f
  <2>1. Values(Body(m), <<1, 2, 2>>) = f /\ Len(Body(m)) = 5
    BY <1>4, <1>5
  <2> QED
    BY <2>1 DEF Decode
<1>7. Accepts(m.type, Body(m))
  BY <1>4, <1>5 DEF Accepts
<1>8. Meant(m) = Message(m.type, Append(f, FullPressure), <<>>)
  <2>1. Meant(m) = [m EXCEPT !.f = Append(@, FullPressure)]
    BY <1>3 DEF Meant
  <2> HIDE DEF f
  <2> QED
    BY <1>2, <2>1 DEF Message, f
<1> QED
  BY <1>4, <1>5, <1>6, <1>7, <1>8 DEF Faithful

LEMMA ScrollFaithful ==
    ASSUME NEW m, Sendable(m), m.type = "Scroll"
    PROVE  Faithful(m)
<1> DEFINE ws == <<2, 2, 2, 2>>
           f == m.f
           b == Fields(ws, f)
<1>1. /\ ws \in Widths /\ Len(ws) = 4 /\ f \in Seq(Int) /\ Len(f) = 4
      /\ ws[1] = 2 /\ ws[2] = 2 /\ ws[3] = 2 /\ ws[4] = 2
  BY SendableIs DEF Widths, Sendable
<1>2. m.data = <<>> /\ m = Message(m.type, f, <<>>)
  BY SendableIs DEF Sendable
<1>3. /\ 2 * f[1] < Limit[2] /\ -Limit[2] <= 2 * f[1]
      /\ 2 * f[2] < Limit[2] /\ -Limit[2] <= 2 * f[2]
      /\ f[3] \in 0 .. Limit[2] - 1 /\ f[4] \in 0 .. Limit[2] - 1
      /\ f[1] \in Int /\ f[2] \in Int
  BY <1>1 DEF Sendable
<1>4. SubSeq(Layout[m.type], 1, Len(f)) = ws
  <2>1. ws \in Seq(Nat)
    BY <1>1, WidthsAreNat
  <2>2. Layout[m.type] = ws
    BY LayoutIs
  <2> HIDE DEF ws
  <2>3. SubSeq(ws, 1, Len(ws)) = ws
    BY <2>1, SubSeqFull
  <2> QED
    BY <1>1, <2>2, <2>3
<1>5. Body(m) = b
  BY <1>4 DEF Body
<1> HIDE DEF ws
<1>6. /\ b \in Seq(Byte) /\ Len(b) = Size(ws) /\ Size(ws) \in Nat
      /\ \A i \in 1 .. 4 : Field(b, ws, i) = Num(Put(f[i], ws[i]))
  <2>1. <<>> \in Seq(Byte) /\ Len(<<>>) = 0
    OBVIOUS
  <2>2. ws \in Seq(Nat)
    BY <1>1, WidthsAreNat
  <2>3. b \in Seq(Byte) /\ Len(b) = Size(ws)
    BY <1>1, <2>2, FieldsIs
  <2>4. b \o <<>> = b
    BY <2>3, ConcatEmptySeq
  <2>5. Size(ws) \in Nat /\ \A i \in 1 .. Len(ws) : Field(b \o <<>>, ws, i) = Num(Put(f[i], ws[i]))
    BY <1>1, <2>1, <2>2, FieldsRead
  <2> QED
    BY <1>1, <2>3, <2>4, <2>5
<1> HIDE DEF f, b
<1>7. /\ Signed(Field(b, ws, 1), 2) = f[1] /\ Signed(Field(b, ws, 2), 2) = f[2]
      /\ Field(b, ws, 3) = f[3] /\ Field(b, ws, 4) = f[4]
  <2>1. Signed(Num(Put(f[1], 2)), 2) = f[1] /\ Signed(Num(Put(f[2], 2)), 2) = f[2]
    BY <1>3, SignedPut
  <2>2. Num(Put(f[3], 2)) = f[3] /\ Num(Put(f[4], 2)) = f[4]
    BY <1>3, NumPutFits
  <2>3. 1 \in 1 .. 4 /\ 2 \in 1 .. 4 /\ 3 \in 1 .. 4 /\ 4 \in 1 .. 4
    OBVIOUS
  <2> QED
    BY <1>1, <1>6, <2>1, <2>2, <2>3
<1>8. Decode(m.type, b) = Message(m.type, f, <<>>)
  <2> DEFINE v == Values(b, ws)
             g == <<Signed(v[1], 2), Signed(v[2], 2), v[3], v[4]>>
  <2>1. v[1] = Field(b, ws, 1) /\ v[2] = Field(b, ws, 2) /\ v[3] = Field(b, ws, 3) /\ v[4] = Field(b, ws, 4)
    BY <1>1 DEF Values
  <2>2. Decode(m.type, b) = Message(m.type, g, <<>>)
    BY LayoutIs DEF Decode, ws
  <2>3. g = <<f[1], f[2], f[3], f[4]>>
    BY <1>7, <2>1
  <2>4. f = <<f[1], f[2], f[3], f[4]>>
    BY <1>1
  <2> QED
    BY <2>2, <2>3, <2>4
<1>9. Accepts(m.type, b)
  BY <1>6, LayoutIs DEF Accepts, ws
<1>10. Meant(m) = m
  BY DEF Meant
<1> QED
  BY <1>2, <1>5, <1>6, <1>8, <1>9, <1>10 DEF Faithful

LEMMA DataFaithful ==
    ASSUME NEW m, Sendable(m), m.type \in {"Video", "Audio"}
    PROVE  Faithful(m)
<1> DEFINE ws == Layout[m.type]
           f == m.f
           d == m.data[1]
           b == Fields(ws, f) \o d
<1>1. ws \in Widths /\ f \in Seq(Int) /\ Fits(f, ws) /\ d \in Seq(Byte) /\ m.data = <<d>>
  <2>1. Fits(m.f, Layout[m.type]) /\ Len(m.data) = 1
    BY DEF Sendable, Plain
  <2>2. m.f \in Seq(Int) /\ m.data \in Seq(Seq(Byte))
    BY SendableIs
  <2>3. m.data[1] \in Seq(Byte) /\ m.data = <<m.data[1]>>
    BY <2>1, <2>2
  <2> QED
    BY <2>1, <2>2, <2>3, WidthsIs
<1>2. m = Message(m.type, f, <<d>>)
  BY <1>1, SendableIs
<1>3. Body(m) = b
  BY DEF Body
<1> HIDE DEF f, d
<1>4. Values(b, ws) = f /\ From(b, Size(ws)) = d /\ b \in Seq(Byte) /\ Len(b) = Size(ws) + Len(d) /\ Size(ws) \in Nat
  <2> HIDE DEF ws
  <2> QED
    BY <1>1, ValuesRead
<1> HIDE DEF b
<1>5. Decode(m.type, b) = Message(m.type, f, <<d>>)
  BY <1>4 DEF Decode
<1>6. Accepts(m.type, b)
  <2>1. Len(d) \in Nat
    BY <1>1
  <2> QED
    BY <1>4, <2>1 DEF Accepts
<1>7. Meant(m) = m
  BY DEF Meant
<1> QED
  BY <1>2, <1>3, <1>4, <1>5, <1>6, <1>7 DEF Faithful

LEMMA ConfigFaithful ==
    ASSUME NEW m, Sendable(m), m.type = "Config"
    PROVE  Faithful(m)
<1> DEFINE ws == Layout.Config
           f == m.f
           d == m.data[1]
           n == Put(Len(d), 4)
           F == Fields(ws, f)
           b == F \o (n \o d)
<1>1. ws \in Widths /\ f \in Seq(Int) /\ Fits(f, ws) /\ d \in Seq(Byte) /\ m.data = <<d>> /\ Size(ws) = 12
  <2>1. Fits(m.f, Layout[m.type]) /\ Len(m.data) = 1
    BY DEF Sendable, Plain
  <2>2. m.f \in Seq(Int) /\ m.data \in Seq(Seq(Byte))
    BY SendableIs
  <2>3. m.data[1] \in Seq(Byte) /\ m.data = <<m.data[1]>>
    BY <2>1, <2>2
  <2>4. Size(ws) = 12
    BY LayoutIs, SizesAre
  <2> QED
    BY <2>1, <2>2, <2>3, <2>4, WidthsIs
<1>2. m = Message(m.type, f, <<d>>)
  BY <1>1, SendableIs
<1>3. 1 + Len(Body(m)) <= MaxMessage /\ MaxMessage < Limit[4] /\ MaxMessage \in Nat /\ Limit[4] \in Nat
  BY WordsAssumption, CodecAssumption, LimitIs DEF Sendable
<1>4. Body(m) = F \o n \o d
  BY DEF Body
<1> HIDE DEF f, d
<1>5. Len(d) \in Nat
  BY <1>1
<1>6. n \in Seq(Byte) /\ Len(n) = 4
  <2> DEFINE l == Len(d)
  <2>1. l \in Int
    BY <1>5
  <2> HIDE DEF l
  <2>2. Put(l, 4) \in Seq(Byte) /\ Len(Put(l, 4)) = 4
    BY <2>1, PutIs
  <2> QED
    BY <2>2 DEF l
<1> HIDE DEF n
<1>7. F \in Seq(Byte)
  BY <1>1, ValuesReadAll
<1> HIDE DEF F, ws
<1>a. d \in Seq(Byte) /\ n \in Seq(Byte) /\ F \in Seq(Byte)
  BY <1>1, <1>6, <1>7
<1>8. Body(m) = b
  <2>1. (F \o n) \o d = F \o (n \o d)
    BY <1>a, ConcatAssociative
  <2> QED
    BY <1>4, <2>1
<1>9. n \o d \in Seq(Byte) /\ Len(n \o d) = 4 + Len(d) /\ SubSeq(n \o d, 1, 4) = n /\ From(n \o d, 4) = d
  <2>1. n \o d \in Seq(Byte) /\ Len(n \o d) = Len(n) + Len(d)
    BY <1>a, ConcatIs
  <2>2. SubSeq(n \o d, 1, Len(n)) = n /\ From(n \o d, Len(n)) = d
    BY <1>a, RestIs
  <2> QED
    BY <1>6, <2>1, <2>2
<1>10. Values(b, ws) = f /\ From(b, 12) = n \o d /\ b \in Seq(Byte) /\ Len(b) = 12 + (4 + Len(d))
  <2> DEFINE r == n \o d
  <2>1. r \in Seq(Byte) /\ Len(r) = 4 + Len(d)
    BY <1>9
  <2> HIDE DEF ws, r
  <2>2. Values(F \o r, ws) = f /\ From(F \o r, Size(ws)) = r /\ F \o r \in Seq(Byte) /\ Len(F \o r) = Size(ws) + Len(r)
    BY <1>1, <2>1, ValuesRead DEF F
  <2> QED
    BY <1>1, <2>1, <2>2 DEF r
<1> HIDE DEF b
<1>11. SubSeq(b, 13, 16) = n
  <2> DEFINE p == 12
             i == 0
             j == 4
  <2>1. p \in 0 .. Len(b) /\ i \in 0 .. Len(b) - p /\ j \in i .. Len(b) - p
    BY <1>5, <1>10
  <2>2. i + 1 = 1 /\ p + i + 1 = 13 /\ p + j = 16
    OBVIOUS
  <2> HIDE DEF p, i, j
  <2>3. SubSeq(From(b, p), i + 1, j) = SubSeq(b, p + i + 1, p + j)
    BY <1>10, <2>1, PieceOfFrom
  <2> QED
    BY <1>9, <1>10, <2>2, <2>3 DEF p, j
<1>12. From(b, 16) = d
  <2> DEFINE p == 12
             q == 4
  <2>1. p \in 0 .. Len(b) /\ q \in 0 .. Len(b) - p /\ p + q = 16
    BY <1>5, <1>10
  <2> HIDE DEF p, q
  <2>2. From(From(b, p), q) = From(b, p + q)
    BY <1>10, <2>1, FromFrom
  <2> QED
    BY <1>9, <1>10, <2>1, <2>2 DEF p, q
<1>13. Num(n) = Len(d)
  <2>1. Len(d) \in 0 .. Limit[4] - 1
    BY <1>3, <1>5, <1>8, <1>10
  <2> QED
    BY <2>1, NumPutFits DEF n
<1>14. Accepts(m.type, b)
  <2>1. Size(Layout.Config) = 12
    BY <1>1 DEF ws
  <2>2. Num(SubSeq(b, 13, 16)) = Len(d) /\ Len(b) = 16 + Len(d) /\ Len(b) >= 12 + 4
    <3>1. Len(b) = 12 + (4 + Len(d))
      BY <1>10
    <3>2. Len(b) = 16 + Len(d) /\ Len(b) >= 12 + 4
      BY <1>5, <3>1
    <3> QED
      BY <1>11, <1>13, <3>2
  <2> QED
    BY <2>1, <2>2 DEF Accepts
<1>15. Decode(m.type, b) = Message(m.type, f, <<d>>)
  <2>1. Values(b, Layout.Config) = f
    BY <1>10 DEF ws
  <2> QED
    BY <1>12, <2>1 DEF Decode
<1>16. Meant(m) = m
  BY DEF Meant
<1> QED
  BY <1>2, <1>8, <1>10, <1>14, <1>15, <1>16 DEF Faithful

LEMMA PieceOfPrefix ==
    ASSUME NEW S, NEW s \in Seq(S), NEW n \in 0 .. Len(s), NEW p \in 0 .. n, NEW q \in p .. n
    PROVE  /\ SubSeq(s, 1, n) \in Seq(S) /\ Len(SubSeq(s, 1, n)) = n
           /\ SubSeq(SubSeq(s, 1, n), p + 1, q) = SubSeq(s, p + 1, q)
<1> DEFINE z == 0
           t == SubSeq(s, z + 1, n)
           r == From(s, n)
<1>0. z \in 0 .. Len(s) /\ n \in z .. Len(s) /\ n - z = n /\ z + 1 = 1
  OBVIOUS
<1> HIDE DEF z
<1>1. t \in Seq(S) /\ Len(t) = n - z
  BY <1>0, PieceIs
<1>2. r \in Seq(S)
  BY FromIs
<1>3. t \o r = s
  <2>1. 1 \in 1 .. Len(s) + 1 /\ n \in 1 - 1 .. Len(s) /\ Len(s) \in n .. Len(s)
    OBVIOUS
  <2>2. SubSeq(s, 1, n) \o SubSeq(s, n + 1, Len(s)) = SubSeq(s, 1, Len(s))
    BY <2>1, ConcatAdjacentSubSeq
  <2> QED
    BY <1>0, <2>2, SubSeqFull DEF From
<1> HIDE DEF t, r
<1>4. p \in 0 .. Len(t) /\ q \in p .. Len(t)
  BY <1>0, <1>1
<1>5. SubSeq(t \o r, p + 1, q) = SubSeq(t, p + 1, q)
  BY <1>1, <1>2, <1>4, PieceOfConcat
<1> QED
  BY <1>0, <1>1, <1>3, <1>5 DEF t

LEMMA EvenMarks ==
    ASSUME NEW n \in Nat, NEW w \in Nat, NEW ss, Len(ss) = n, \A c \in 1 .. n : Len(ss[c]) = w
    PROVE  Marks(ss, [c \in 0 .. n |-> w * c])
<1> DEFINE off == [c \in 0 .. n |-> w * c]
<1>1. off \in [0 .. n -> Nat] /\ off[0] = 0
  OBVIOUS
<1>2. ASSUME NEW c \in 1 .. n PROVE off[c] = off[c - 1] + w
  <2>1. c \in 0 .. n /\ c - 1 \in 0 .. n
    OBVIOUS
  <2>2. off[c] = w * c /\ off[c - 1] = w * (c - 1)
    BY <2>1
  <2>3. w * c = w * (c - 1) + w
    OBVIOUS
  <2> QED
    BY <2>2, <2>3
<1> HIDE DEF off
<1>3. Marks(ss, off)
  BY <1>1, <1>2 DEF Marks
<1> QED
  BY <1>3 DEF off

LEMMA ContactIs == Contact \in Widths /\ Len(Contact) = 4 /\ Size(Contact) = 7
  BY SizesAre DEF Contact, Widths

LEMMA TouchFaithful ==
    ASSUME NEW m, Sendable(m), m.type = "Touch"
    PROVE  Faithful(m)
<1> DEFINE f == m.f
           k == Len(f) \div 4
           n == IF k < MaxContacts THEN k ELSE MaxContacts
           chunk(c) == SubSeq(f, 4 * c - 3, 4 * c)
           e(c) == Fields(Contact, chunk(c))
           ss == [c \in 1 .. n |-> e(c)]
           T == FlattenSeq(ss)
           b == <<n>> \o T
           t == SubSeq(f, 1, 4 * n)
<1>1. /\ f \in Seq(Int) /\ m = Message(m.type, f, <<>>) /\ Len(f) % 4 = 0
      /\ \A c \in 1 .. Len(f) \div 4 : Fits(SubSeq(f, 4 * c - 3, 4 * c), Contact)
  BY SendableIs DEF Sendable, Plain
<1>2. Body(m) = b
  BY DEF Body, EncodeTouch
<1>3. k \in Nat /\ Len(f) = 4 * k
  <2> DEFINE l == Len(f)
  <2>1. l \in Nat /\ l % 4 = 0
    <3>1. f \in Seq(Int) /\ Len(f) % 4 = 0
      BY <1>1
    <3> HIDE DEF f
    <3> QED
      BY <3>1
  <2> HIDE DEF l
  <2>2. l \div 4 \in Nat /\ l = 4 * (l \div 4)
    BY <2>1
  <2> QED
    BY <2>2 DEF l
<1>4. \A c \in 1 .. k : Fits(chunk(c), Contact)
  BY <1>1
<1>5. n \in Byte /\ n \in Nat /\ n <= k /\ (n = k \/ n = MaxContacts) /\ (k > MaxContacts => n = MaxContacts)
  <2>1. MaxContacts \in 0 .. Base - 1
    BY CodecAssumption
  <2> HIDE DEF k
  <2> QED
    BY <1>3, <2>1, BaseIs DEF Byte
<1> HIDE DEF k, n, chunk
<1>6. ASSUME NEW c \in 1 .. n
      PROVE  /\ chunk(c) \in Seq(Int) /\ Len(chunk(c)) = 4
             /\ chunk(c) = SubSeq(f, 4 * (c - 1) + 1, 4 * c) /\ Fits(chunk(c), Contact)
  <2> DEFINE p == 4 * (c - 1)
             q == 4 * c
  <2>1. p \in 0 .. Len(f) /\ q \in p .. Len(f) /\ q - p = 4 /\ p + 1 = 4 * c - 3 /\ c \in 1 .. k
    BY <1>3, <1>5
  <2> HIDE DEF p, q, f
  <2>2. SubSeq(f, p + 1, q) \in Seq(Int) /\ Len(SubSeq(f, p + 1, q)) = q - p
    BY <1>1, <2>1, PieceIs
  <2>3. chunk(c) = SubSeq(f, p + 1, q)
    BY <2>1 DEF chunk, q
  <2> QED
    BY <1>4, <2>1, <2>2, <2>3 DEF p, q
<1> HIDE DEF f
<1>7. \A c \in 1 .. n : e(c) \in Seq(Byte) /\ Len(e(c)) = 7
  BY <1>6, ContactIs, ValuesReadAll
<1> HIDE DEF e
<1>8. ss \in Seq(Seq(Byte)) /\ Len(ss) = n /\ \A c \in 1 .. n : ss[c] = e(c)
  BY <1>5, <1>7
<1> HIDE DEF ss
<1> DEFINE off == [c \in 0 .. n |-> 7 * c]
<1>9. /\ T \in Seq(Byte) /\ Len(T) = 7 * n
      /\ \A c \in 1 .. n : SubSeq(T, 7 * (c - 1) + 1, 7 * c) = e(c)
  <2>1. Marks(ss, off)
    BY <1>5, <1>7, <1>8, EvenMarks, ZenonT(40)
  <2>2. off[n] = 7 * n /\ \A c \in 1 .. n : off[c - 1] = 7 * (c - 1) /\ off[c] = 7 * c
    BY <1>5
  <2> HIDE DEF off
  <2>3. /\ FlattenSeq(ss) \in Seq(Byte) /\ Len(FlattenSeq(ss)) = off[Len(ss)]
        /\ \A c \in 1 .. Len(ss) : SubSeq(FlattenSeq(ss), off[c - 1] + 1, off[c]) = ss[c]
    BY <1>8, <2>1, FlattenPieces
  <2> QED
    BY <1>8, <2>2, <2>3
<1> HIDE DEF T
<1>10. b \in Seq(Byte) /\ Len(b) = 1 + 7 * n /\ b[1] = n /\ From(b, 1) = T
  <2> DEFINE h == <<n>>
  <2>1. h \in Seq(Byte) /\ Len(h) = 1 /\ h[1] = n
    BY <1>5
  <2> HIDE DEF h
  <2>2. h \o T \in Seq(Byte) /\ Len(h \o T) = Len(h) + Len(T) /\ \A i \in 1 .. Len(h) : (h \o T)[i] = h[i]
    BY <1>9, <2>1, ConcatIs
  <2>3. From(h \o T, Len(h)) = T
    BY <1>9, <2>1, RestIs
  <2>4. 1 \in 1 .. Len(h)
    BY <2>1
  <2>5. (h \o T)[1] = n
    BY <2>1, <2>2, <2>4
  <2> QED
    BY <1>9, <2>1, <2>2, <2>3, <2>5 DEF h
<1> HIDE DEF b
<1>11. ASSUME NEW c \in 1 .. n PROVE Values(From(b, 1 + (c - 1) * Size(Contact)), Contact) = chunk(c)
  <2> DEFINE p == 7 * (c - 1)
             q == 7 * c
             one == 1
  <2>1. /\ p \in 0 .. Len(b) - one /\ one \in 0 .. Len(b)
        /\ p + 1 \in 1 .. Len(T) + 1 /\ q \in p + 1 - 1 .. Len(T) /\ Len(T) \in q .. Len(T) /\ q \in 0 .. Len(T)
        /\ 1 + (c - 1) * 7 = one + p
    BY <1>5, <1>9, <1>10
  <2> HIDE DEF p, q, one
  <2>2. From(From(b, one), p) = From(b, one + p)
    <3>1. b \in Seq(Byte) /\ one \in 0 .. Len(b) /\ p \in 0 .. Len(b) - one
      BY <1>10, <2>1
    <3> QED
      BY <3>1, FromFrom
  <2>3. SubSeq(T, p + 1, q) \o SubSeq(T, q + 1, Len(T)) = SubSeq(T, p + 1, Len(T))
    <3> DEFINE i == p + 1
               j == Len(T)
    <3>1. T \in Seq(Byte) /\ i \in 1 .. Len(T) + 1 /\ q \in i - 1 .. Len(T) /\ j \in q .. Len(T)
      BY <1>9, <2>1
    <3> HIDE DEF i, j
    <3>2. SubSeq(T, i, q) \o SubSeq(T, q + 1, j) = SubSeq(T, i, j)
      BY <3>1, ConcatAdjacentSubSeq
    <3> QED
      BY <3>2 DEF i, j
  <2>4. SubSeq(T, p + 1, q) = e(c)
    BY <1>9 DEF p, q
  <2>5. From(T, p) = e(c) \o From(T, q)
    BY <2>3, <2>4 DEF From
  <2>6. From(T, q) \in Seq(Byte)
    BY <1>9, <2>1, FromIs
  <2>7. Values(Fields(Contact, chunk(c)) \o From(T, q), Contact) = chunk(c)
    BY <1>6, <2>6, ContactIs, ValuesRead
  <2>8. From(b, 1 + (c - 1) * Size(Contact)) = From(T, p)
    BY <1>10, <2>1, <2>2, ContactIs DEF one
  <2> QED
    BY <2>5, <2>7, <2>8 DEF e
<1>12. /\ t \in Seq(Int) /\ Len(t) = 4 * n
       /\ \A c \in 1 .. n : SubSeq(t, 4 * (c - 1) + 1, 4 * c) = chunk(c)
  <2> DEFINE l == 4 * n
  <2>1. l \in 0 .. Len(f) /\ 0 \in 0 .. l /\ l \in Nat
    BY <1>3, <1>5
  <2>2. ASSUME NEW c \in 1 .. n PROVE SubSeq(t, 4 * (c - 1) + 1, 4 * c) = chunk(c)
    <3> DEFINE p == 4 * (c - 1)
               q == 4 * c
    <3>1. p \in 0 .. l /\ q \in p .. l
      BY <1>5
    <3> HIDE DEF p, q, l
    <3>2. SubSeq(SubSeq(f, 1, l), p + 1, q) = SubSeq(f, p + 1, q)
      BY <1>1, <2>1, <3>1, PieceOfPrefix
    <3> QED
      BY <1>6, <3>2 DEF p, q, l
  <2> HIDE DEF l
  <2>3. SubSeq(f, 1, l) \in Seq(Int) /\ Len(SubSeq(f, 1, l)) = l
    BY <1>1, <2>1, PieceOfPrefix
  <2> QED
    BY <2>2, <2>3 DEF l
<1> HIDE DEF t
<1>13. FlattenSeq([c \in 1 .. n |-> chunk(c)]) = t
  <2> DEFINE vv == [c \in 1 .. n |-> chunk(c)]
             at == [c \in 0 .. n |-> 4 * c]
  <2>1. vv \in Seq(Seq(Int)) /\ Len(vv) = n /\ \A c \in 1 .. n : vv[c] = chunk(c)
    BY <1>5, <1>6
  <2> HIDE DEF vv
  <2>2. Marks(vv, at)
    <3>1. n \in Nat /\ Len(vv) = n /\ \A c \in 1 .. n : Len(vv[c]) = 4
      BY <1>5, <1>6, <2>1
    <3> QED
      BY <3>1, EvenMarks
  <2>3. at[n] = 4 * n /\ \A c \in 1 .. n : at[c - 1] = 4 * (c - 1) /\ at[c] = 4 * c
    BY <1>5
  <2> HIDE DEF at
  <2>4. Len(t) = at[Len(vv)] /\ \A c \in 1 .. Len(vv) : SubSeq(t, at[c - 1] + 1, at[c]) = vv[c]
    BY <1>12, <2>1, <2>3
  <2>5. FlattenSeq(vv) = t
    BY <1>12, <2>1, <2>2, <2>4, FlattenOf
  <2> QED
    BY <2>5 DEF vv
<1>14. Decode(m.type, b) = Message(m.type, t, <<>>)
  <2> DEFINE v(c) == Values(From(b, 1 + (c - 1) * Size(Contact)), Contact)
  <2>1. Decode(m.type, b) = Message(m.type, FlattenSeq([c \in 1 .. n |-> v(c)]), <<>>)
    BY <1>10 DEF Decode
  <2>2. \A c \in 1 .. n : v(c) = chunk(c)
    BY <1>11
  <2> HIDE DEF v
  <2>3. [c \in 1 .. n |-> v(c)] = [c \in 1 .. n |-> chunk(c)]
    BY <2>2
  <2> QED
    BY <1>13, <2>1, <2>3
<1>15. Accepts(m.type, b)
  <2>1. b # <<>> /\ Len(b) = 1 + b[1] * 7
    BY <1>5, <1>10
  <2> QED
    BY <2>1, ContactIs DEF Accepts
<1>16. Meant(m) = Message(m.type, t, <<>>)
  <2>1. Meant(m) = [m EXCEPT !.f = IF Len(@) > 4 * MaxContacts THEN SubSeq(@, 1, 4 * MaxContacts) ELSE @]
    BY DEF Meant
  <2>2. Meant(m) = Message(m.type, IF Len(f) > 4 * MaxContacts THEN SubSeq(f, 1, 4 * MaxContacts) ELSE f, <<>>)
    <3> DEFINE g == IF Len(m.f) > 4 * MaxContacts THEN SubSeq(m.f, 1, 4 * MaxContacts) ELSE m.f
    <3>1. Meant(m) = [m EXCEPT !.f = g]
      BY <2>1
    <3>2. m = [type |-> m.type, f |-> m.f, data |-> <<>>]
      BY <1>1 DEF Message, f
    <3> HIDE DEF g
    <3>3. [m EXCEPT !.f = g] = [type |-> m.type, f |-> g, data |-> <<>>]
      BY <3>2
    <3> QED
      BY <3>1, <3>3 DEF Message, f, g
  <2>3. (IF Len(f) > 4 * MaxContacts THEN SubSeq(f, 1, 4 * MaxContacts) ELSE f) = t
    <3>1. CASE Len(f) > 4 * MaxContacts
      <4>1. n = MaxContacts
        BY <1>3, <1>5, <3>1, CodecAssumption
      <4> QED
        BY <3>1, <4>1 DEF t
    <3>2. CASE ~(Len(f) > 4 * MaxContacts)
      <4>1. 4 * n = Len(f)
        BY <1>3, <1>5, <3>2, CodecAssumption
      <4> QED
        BY <1>1, <3>2, <4>1, SubSeqFull DEF t
    <3> QED
      BY <3>1, <3>2
  <2> QED
    BY <2>2, <2>3
<1> QED
  BY <1>2, <1>10, <1>14, <1>15, <1>16 DEF Faithful

LEMMA HelloGrows ==
    ASSUME NEW i \in 1 .. 11, NEW j \in 1 .. 11, i <= j
    PROVE  Offset(HelloFields, i) \in Nat /\ Offset(HelloFields, j) \in Nat
           /\ Offset(HelloFields, i) <= Offset(HelloFields, j)
<1> DEFINE o(k) == Offset(HelloFields, k)
<1>1. /\ o(1) = 0 /\ o(2) = 4 /\ o(3) = 8 /\ o(4) = 12 /\ o(5) = 16 /\ o(6) = 20 /\ o(7) = 21 /\ o(8) = 22
      /\ o(9) = 26 /\ o(10) = 28 /\ o(11) = 30
  BY HelloOffsets
<1> HIDE DEF o
<1>2. \A k \in 1 .. 11 : k = 1 \/ k = 2 \/ k = 3 \/ k = 4 \/ k = 5 \/ k = 6 \/ k = 7 \/ k = 8 \/ k = 9 \/ k = 10 \/ k = 11
  OBVIOUS
<1>3. o(i) \in Nat /\ o(j) \in Nat /\ o(i) <= o(j)
  BY <1>1, <1>2
<1> QED
  BY <1>3 DEF o

LEMMA CarriedIs == ASSUME NEW v \in Int PROVE Carried(v) \in {4, 7, 8, 10}
  BY DEF Carried

\* A string is read whole where it is there whole, and is empty where it is cut.
LEMMA StringRead ==
    ASSUME NEW a \in Seq(Byte), NEW s \in Seq(Byte), Len(s) < Limit[2], NEW r \in Seq(Byte),
           NEW k \in Len(a) .. Len(a \o (String(s) \o r))
    PROVE  StringAt(SubSeq(a \o (String(s) \o r), 1, k), Len(a)) =
               IF k < Len(a) + 2 THEN [text |-> <<>>, next |-> Len(a)]
               ELSE IF k < Len(a) + 2 + Len(s) THEN [text |-> <<>>, next |-> k]
               ELSE [text |-> s, next |-> Len(a) + 2 + Len(s)]
<1> DEFINE n == Put(Len(s), 2)
           p == Len(a)
           l == Len(s)
           z == String(s) \o r
           b == a \o z
           c == SubSeq(b, 1, k)
<1>0. p \in Nat /\ l \in Nat /\ k \in Nat
  <2>1. l \in Nat /\ p \in Nat
    OBVIOUS
  <2> HIDE DEF l, p, b
  <2>2. k \in p .. Len(b)
    BY DEF p, b
  <2> QED
    BY <2>1, <2>2
<1>1. n \in Seq(Byte) /\ Len(n) = 2 /\ Num(n) = l
  <2> HIDE DEF l
  <2>1. l \in Int /\ l \in 0 .. Limit[2] - 1
    <3>1. Limit[2] \in Nat /\ l < Limit[2]
      BY LimitIs DEF l
    <3> QED
      BY <1>0, <3>1
  <2>2. Put(l, 2) \in Seq(Byte) /\ Len(Put(l, 2)) = 2 /\ Num(Put(l, 2)) = l
    BY <2>1, PutIs, NumPutFits
  <2> QED
    BY <2>2 DEF l
<1>2. String(s) = n \o s
  BY DEF String
<1> HIDE DEF n, l, p
<1>3. z = n \o (s \o r) /\ s \o r \in Seq(Byte) /\ z \in Seq(Byte)
  <2>1. s \o r \in Seq(Byte)
    BY ConcatIs
  <2>2. (n \o s) \o r = n \o (s \o r)
    <3>1. n \in Seq(Byte) /\ s \in Seq(Byte) /\ r \in Seq(Byte)
      BY <1>1
    <3> QED
      BY <3>1, ConcatAssociative, SMTT(30)
  <2>3. n \o (s \o r) \in Seq(Byte)
    BY <1>1, <2>1, ConcatIs
  <2> QED
    BY <1>2, <2>1, <2>2, <2>3
<1>4. Len(z) = 2 + (l + Len(r)) /\ SubSeq(z, 1, 2) = n /\ From(z, 2) = s \o r /\ Len(r) \in Nat
  <2>1. Len(s \o r) = Len(s) + Len(r) /\ Len(r) \in Nat
    BY ConcatIs
  <2>2. Len(n \o (s \o r)) = Len(n) + Len(s \o r)
    BY <1>1, <1>3, ConcatIs, ZenonT(40)
  <2>3. SubSeq(n \o (s \o r), 1, Len(n)) = n /\ From(n \o (s \o r), Len(n)) = s \o r
    BY <1>1, <1>3, RestIs
  <2> QED
    BY <1>1, <1>3, <2>1, <2>2, <2>3 DEF l
<1> HIDE DEF z
<1>5. b \in Seq(Byte) /\ Len(b) = p + Len(z) /\ From(b, p) = z
  <2>1. a \o z \in Seq(Byte) /\ Len(a \o z) = Len(a) + Len(z)
    BY <1>3, ConcatIs
  <2>2. From(a \o z, Len(a)) = z
    BY <1>3, RestIs
  <2> QED
    BY <2>1, <2>2 DEF p, b
<1> HIDE DEF b
<1>6. c \in Seq(Byte) /\ Len(c) = k
      /\ \A i \in 0 .. k : \A j \in i .. k : SubSeq(c, i + 1, j) = SubSeq(b, i + 1, j)
  <2>1. k \in 0 .. Len(b)
    BY <1>0, <1>5 DEF b, z, p
  <2>2. 0 \in 0 .. k
    BY <1>0
  <2> QED
    BY <1>5, <2>1, <2>2, PieceOfPrefix
<1> HIDE DEF c
<1>7. ASSUME k < p + 2 PROVE StringAt(c, p) = [text |-> <<>>, next |-> p]
  BY <1>6, <1>7 DEF StringAt
<1>8. ASSUME ~(k < p + 2)
      PROVE  StringAt(c, p) = IF k < p + 2 + l THEN [text |-> <<>>, next |-> k] ELSE [text |-> s, next |-> p + 2 + l]
  <2>1. SubSeq(c, p + 1, p + 2) = n
    <3> DEFINE q == p + 2
               i == 0
               j == 2
    <3>1. p \in 0 .. k /\ q \in p .. k /\ p \in 0 .. Len(b) /\ i \in 0 .. Len(b) - p /\ j \in i .. Len(b) - p
          /\ i + 1 = 1 /\ p + i + 1 = p + 1 /\ p + j = q
      BY <1>0, <1>4, <1>5, <1>8
    <3> HIDE DEF q, i, j
    <3>2. SubSeq(c, p + 1, q) = SubSeq(b, p + 1, q)
      BY <1>6, <3>1
    <3>3. SubSeq(From(b, p), i + 1, j) = SubSeq(b, p + i + 1, p + j)
      BY <1>5, <3>1, PieceOfFrom, ZenonT(40)
    <3> QED
      BY <1>4, <1>5, <3>1, <3>2, <3>3 DEF q, j
  <2>2. CASE k < p + 2 + l
    BY <1>1, <1>6, <1>8, <2>1, <2>2 DEF StringAt
  <2>3. CASE ~(k < p + 2 + l)
    <3>1. SubSeq(c, p + 3, p + 2 + l) = s
      <4> DEFINE i == p + 2
                 j == p + 2 + l
                 two == 2
                 e == two + l
                 o == 0
      <4>1. /\ i \in 0 .. k /\ j \in i .. k /\ i + 1 = p + 3
            /\ p \in 0 .. Len(b) /\ two \in 0 .. Len(b) - p /\ e \in two .. Len(b) - p
            /\ p + two + 1 = i + 1 /\ p + e = j
            /\ two \in 0 .. Len(z) /\ o \in 0 .. Len(z) - two /\ l \in o .. Len(z) - two
            /\ two + o + 1 = two + 1 /\ o + 1 = 1 /\ o \in 0 .. l /\ l \in o .. l
        BY <1>0, <1>4, <1>5, <2>3
      <4>2. two = 2
        OBVIOUS
      <4> HIDE DEF i, j, two, o
      <4>3. SubSeq(c, i + 1, j) = SubSeq(b, i + 1, j)
        BY <1>6, <4>1
      <4>4. SubSeq(From(b, p), two + 1, e) = SubSeq(b, p + two + 1, p + e)
        <5> HIDE DEF e
        <5> QED
          BY <1>5, <4>1, PieceOfFrom, ZenonT(40)
      <4>5. SubSeq(From(z, two), o + 1, l) = SubSeq(z, two + o + 1, two + l)
        <5>1. z \in Seq(Byte)
          BY <1>3
        <5> QED
          BY <4>1, <5>1, PieceOfFrom
      <4>6. SubSeq(s \o r, o + 1, l) = SubSeq(s, o + 1, l)
        BY <4>1, PieceOfConcat DEF l
      <4>7. SubSeq(s, 1, l) = s
        BY SubSeqFull DEF l
      <4> QED
        BY <1>4, <1>5, <4>1, <4>2, <4>3, <4>4, <4>5, <4>6, <4>7 DEF j
    <3> QED
      BY <1>1, <1>6, <1>8, <2>1, <2>3, <3>1 DEF StringAt
  <2> QED
    BY <2>2, <2>3
<1> QED
  <2>1. StringAt(c, p) = IF k < p + 2 THEN [text |-> <<>>, next |-> p]
                         ELSE IF k < p + 2 + l THEN [text |-> <<>>, next |-> k]
                         ELSE [text |-> s, next |-> p + 2 + l]
    BY <1>7, <1>8
  <2> QED
    BY <2>1 DEF c, b, z, p, l

\* How a HELLO is laid out.
HelloText(m) == IF m.data = <<>> THEN <<>> ELSE String(m.data[1]) \o String(m.data[2])
HelloBlock(m) == Fields(SubSeq(HelloFields, 1, Carried(m.f[1])), m.f)

LEMMA StringIs ==
    ASSUME NEW s \in Seq(Byte)
    PROVE  String(s) \in Seq(Byte) /\ Len(String(s)) = 2 + Len(s) /\ Len(s) \in Nat
<1> DEFINE l == Len(s)
<1>1. l \in Nat /\ l \in Int
  OBVIOUS
<1> HIDE DEF l
<1>2. Put(l, 2) \in Seq(Byte) /\ Len(Put(l, 2)) = 2
  BY <1>1, PutIs
<1>3. Put(l, 2) \o s \in Seq(Byte) /\ Len(Put(l, 2) \o s) = Len(Put(l, 2)) + Len(s)
  BY <1>2, ConcatIs
<1> QED
  BY <1>1, <1>2, <1>3 DEF String, l

LEMMA HelloIs ==
    ASSUME NEW m, Sendable(m), m.type = "Hello"
    PROVE  /\ m.f \in Seq(Int) /\ m.f[1] \in Nat /\ Len(m.f) = Carried(m.f[1]) /\ Carried(m.f[1]) \in {4, 7, 8, 10}
           /\ \A i \in 1 .. Carried(m.f[1]) : m.f[i] \in Nat
           /\ \/ m.data = <<>>
              \/ /\ m.data = <<m.data[1], m.data[2]>>
                 /\ \A k \in 1 .. 2 : m.data[k] \in Seq(Byte) /\ Len(m.data[k]) < Limit[2]
           /\ HelloBlock(m) \in Seq(Byte) /\ HelloText(m) \in Seq(Byte) /\ Body(m) = HelloBlock(m) \o HelloText(m)
           /\ Len(HelloBlock(m)) = Offset(HelloFields, Carried(m.f[1]) + 1)
           /\ \A i \in 1 .. Carried(m.f[1]) :
                  SubSeq(HelloBlock(m), Offset(HelloFields, i) + 1, Offset(HelloFields, i + 1)) = Put(m.f[i], HelloFields[i])
           /\ \A i \in 1 .. Carried(m.f[1]) : Num(Put(m.f[i], HelloFields[i])) = m.f[i]
<1> DEFINE f == m.f
           c == Carried(m.f[1])
           ws == SubSeq(HelloFields, 1, c)
<1>1. f \in Seq(Int) /\ m.data \in Seq(Seq(Byte)) /\ f # <<>> /\ Fits(f, ws)
      /\ (\/ m.data = <<>>
          \/ Len(m.data) = 2 /\ \A k \in 1 .. 2 : Len(m.data[k]) < Limit[2])
  BY SendableIs DEF Sendable, Plain
<1>2. c \in {4, 7, 8, 10}
  <2>1. f[1] \in Int
    BY <1>1
  <2> QED
    BY <2>1, CarriedIs
<1>a. m.data = <<>> \/ (m.data = <<m.data[1], m.data[2]>>
         /\ \A k \in 1 .. 2 : m.data[k] \in Seq(Byte) /\ Len(m.data[k]) < Limit[2])
  BY <1>1
<1>3. HelloText(m) \in Seq(Byte)
  <2>1. CASE m.data = <<>>
    BY <2>1 DEF HelloText
  <2>2. CASE m.data # <<>>
    <3>1. m.data[1] \in Seq(Byte) /\ m.data[2] \in Seq(Byte)
      BY <1>a, <2>2
    <3>2. String(m.data[1]) \in Seq(Byte) /\ String(m.data[2]) \in Seq(Byte)
      BY <3>1, StringIs
    <3> QED
      BY <2>2, <3>2, ConcatIs DEF HelloText
  <2> QED
    BY <2>1, <2>2
<1>4. Body(m) = HelloBlock(m) \o HelloText(m)
  BY DEF Body, EncodeHello, HelloBlock, HelloText
<1> HIDE DEF c, f
<1>5. /\ ws \in Widths /\ Len(ws) = c /\ \A i \in 1 .. c : ws[i] = HelloFields[i]
      /\ \A i \in 1 .. c + 1 : Offset(ws, i) = Offset(HelloFields, i)
  <2> DEFINE l == HelloFields
             z == 0
  <2>1. l \in Widths /\ Len(l) = 10 /\ l \in Seq(Nat)
    BY HelloOffsets, WidthsAreNat
  <2>2. z \in 0 .. Len(l) /\ c \in z .. Len(l) /\ c - z = c /\ z + 1 = 1 /\ c \in 0 .. Len(l)
        /\ \A i \in 1 .. c : z + i = i
    BY <1>2, <2>1
  <2> HIDE DEF l, z
  <2>3. /\ SubSeq(l, z + 1, c) \in Seq(Nat \ {0}) /\ Len(SubSeq(l, z + 1, c)) = c - z
        /\ \A i \in 1 .. c - z : SubSeq(l, z + 1, c)[i] = l[z + i]
    <3> DEFINE S == Nat \ {0}
    <3>1. l \in Seq(S) /\ z \in 0 .. Len(l) /\ c \in z .. Len(l)
      BY <2>1, <2>2 DEF Widths
    <3> HIDE DEF S
    <3>2. /\ SubSeq(l, z + 1, c) \in Seq(S) /\ Len(SubSeq(l, z + 1, c)) = c - z
          /\ \A i \in 1 .. c - z : SubSeq(l, z + 1, c)[i] = l[z + i]
      BY <3>1, PieceIs
    <3> QED
      BY <3>2 DEF S
  <2>4. \A i \in 1 .. c + 1 : Offset(SubSeq(l, 1, c), i) = Offset(l, i)
    BY <2>1, <2>2, OffsetOfPrefix
  <2> QED
    BY <2>2, <2>3, <2>4 DEF l, Widths
<1> HIDE DEF ws
<1>6. Len(f) = c /\ \A i \in 1 .. c : f[i] \in Nat /\ Num(Put(f[i], ws[i])) = f[i]
  BY <1>1, <1>5, FitsIs
<1>7. HelloBlock(m) = Fields(ws, f)
  BY DEF HelloBlock, ws, f, c
<1>8. /\ Fields(ws, f) \in Seq(Byte) /\ Len(Fields(ws, f)) = Size(ws)
      /\ \A i \in 1 .. Len(ws) :
             SubSeq(Fields(ws, f), Offset(ws, i) + 1, Offset(ws, i + 1)) = Put(f[i], ws[i])
  BY <1>1, <1>5, <1>6, WidthsAreNat, FieldsIs, ZenonT(40)
<1>9. Size(ws) = Offset(HelloFields, c + 1)
  <2>1. c + 1 \in 1 .. c + 1
    BY <1>2
  <2> QED
    BY <1>5, <2>1 DEF Size
<1>10. ASSUME NEW i \in 1 .. c
       PROVE  SubSeq(Fields(ws, f), Offset(HelloFields, i) + 1, Offset(HelloFields, i + 1)) = Put(f[i], HelloFields[i])
  <2> DEFINE j == i + 1
  <2>1. i \in 1 .. c + 1 /\ j \in 1 .. c + 1
    BY <1>2
  <2>2. SubSeq(Fields(ws, f), Offset(ws, i) + 1, Offset(ws, j)) = Put(f[i], ws[i])
    BY <1>5, <1>8
  <2> HIDE DEF j
  <2>3. Offset(ws, i) = Offset(HelloFields, i) /\ Offset(ws, j) = Offset(HelloFields, j) /\ ws[i] = HelloFields[i]
    BY <1>5, <2>1
  <2>4. SubSeq(Fields(ws, f), Offset(HelloFields, i) + 1, Offset(HelloFields, j)) = Put(f[i], HelloFields[i])
    BY <2>2, <2>3
  <2> QED
    BY <2>4 DEF j
<1>11. \A i \in 1 .. c : Num(Put(f[i], HelloFields[i])) = f[i]
  BY <1>5, <1>6
<1>12. f[1] \in Nat
  <2>1. 1 \in 1 .. c
    BY <1>2
  <2> QED
    BY <1>6, <2>1
<1> QED
  BY <1>1, <1>2, <1>a, <1>3, <1>4, <1>6, <1>7, <1>8, <1>9, <1>10, <1>11, <1>12 DEF c, f

\* A HELLO that is cut gives the fields of the blocks that are whole, and the
\* strings that are.
LEMMA HelloCut ==
    ASSUME NEW m, Sendable(m), m.type = "Hello", NEW k \in 16 .. Len(Body(m))
    PROVE  /\ \A i \in 1 .. 10 : DecodeHello(SubSeq(Body(m), 1, k)).f[i] \in {Meant(m).f[i], 0}
           /\ \A i \in 1 .. 2 : DecodeHello(SubSeq(Body(m), 1, k)).data[i] \in {Meant(m).data[i], <<>>}
           /\ k = Len(Body(m)) => DecodeHello(SubSeq(Body(m), 1, k)) = Meant(m)
<1> DEFINE f == m.f
           c == Carried(m.f[1])
           F == HelloBlock(m)
           T == HelloText(m)
           b == Body(m)
           cut == SubSeq(b, 1, k)
           o(i) == Offset(HelloFields, i)
<1>1. /\ f \in Seq(Int) /\ f[1] \in Nat /\ Len(f) = c /\ c \in {4, 7, 8, 10}
      /\ \A i \in 1 .. c : f[i] \in Nat
      /\ F \in Seq(Byte) /\ T \in Seq(Byte) /\ b = F \o T /\ Len(F) = o(c + 1)
      /\ \A i \in 1 .. c : SubSeq(F, o(i) + 1, o(i + 1)) = Put(f[i], HelloFields[i])
      /\ \A i \in 1 .. c : Num(Put(f[i], HelloFields[i])) = f[i]
  BY HelloIs
<1>2. \/ m.data = <<>>
      \/ /\ m.data = <<m.data[1], m.data[2]>>
         /\ \A j \in 1 .. 2 : m.data[j] \in Seq(Byte) /\ Len(m.data[j]) < Limit[2]
  BY HelloIs
<1>3. \A i \in 1 .. 11, j \in 1 .. 11 : i <= j => o(i) \in Nat /\ o(j) \in Nat /\ o(i) <= o(j)
  BY HelloGrows
<1>4. o(1) = 0 /\ o(2) = 4 /\ o(5) = 16 /\ o(8) = 22 /\ o(9) = 26 /\ o(11) = 30
  BY HelloOffsets
<1>5. k \in 16 .. Len(b) /\ k \in Nat
  OBVIOUS
<1>c. f[1] = m.f[1] /\ c = Carried(f[1])
  OBVIOUS
<1> HIDE DEF F, T, f, c, o, b
<1>d. c \in {4, 7, 8, 10}
  BY <1>1
<1>6. b \in Seq(Byte) /\ Len(b) = Len(F) + Len(T) /\ Len(F) \in Nat /\ Len(T) \in Nat
  BY <1>1, ConcatIs, SMTT(30)
<1>7. /\ cut \in Seq(Byte) /\ Len(cut) = k
      /\ \A p \in 0 .. k : \A q \in p .. k : SubSeq(cut, p + 1, q) = SubSeq(b, p + 1, q)
  <2>1. k \in 0 .. Len(b) /\ 0 \in 0 .. k
    BY <1>5
  <2> QED
    BY <1>6, <2>1, PieceOfPrefix
<1> HIDE DEF cut
<1>8. ASSUME NEW i \in 1 .. c, o(i + 1) <= k PROVE Field(cut, HelloFields, i) = f[i]
  <2> DEFINE p == o(i)
             q == o(i + 1)
  <2>1. p \in Nat /\ q \in Nat /\ p <= q /\ q <= Len(F) /\ q <= k
    <3> DEFINE j == i + 1
               e == c + 1
    <3>1. i \in 1 .. 11 /\ j \in 1 .. 11 /\ e \in 1 .. 11 /\ i <= j /\ j <= e
      BY <1>d
    <3> HIDE DEF j, e
    <3>2. o(i) \in Nat /\ o(j) \in Nat /\ o(i) <= o(j) /\ o(j) <= o(e)
      BY <1>3, <3>1
    <3> QED
      BY <1>1, <1>8, <3>2 DEF j, e
  <2>2. SubSeq(F, p + 1, q) = Put(f[i], HelloFields[i]) /\ Num(Put(f[i], HelloFields[i])) = f[i]
    BY <1>1
  <2>3. Field(cut, HelloFields, i) = Num(SubSeq(cut, p + 1, q))
    BY DEF Field, o
  <2> HIDE DEF p, q
  <2>4. p \in 0 .. k /\ q \in p .. k /\ p \in 0 .. Len(F) /\ q \in p .. Len(F)
    BY <1>5, <1>6, <2>1
  <2>5. SubSeq(cut, p + 1, q) = SubSeq(b, p + 1, q)
    BY <1>7, <2>4
  <2>6. SubSeq(F \o T, p + 1, q) = SubSeq(F, p + 1, q)
    BY <1>1, <2>4, PieceOfConcat, ZenonT(40)
  <2> QED
    BY <1>1, <2>2, <2>3, <2>5, <2>6
<1>9. Field(cut, HelloFields, 1) = f[1]
  <2> DEFINE one == 1
  <2>1. one \in 1 .. c /\ o(one + 1) <= k
    BY <1>1, <1>4, <1>5, SMTT(30)
  <2> HIDE DEF one
  <2>2. Field(cut, HelloFields, one) = f[one]
    BY <1>8, <2>1
  <2> QED
    BY <2>2 DEF one
<1> DEFINE there(n) == n <= c /\ k >= o(n + 1)
           Best(n) == there(n) /\ \A j \in {7, 8, 10} : j > n => ~there(j)
           n == Whole(cut)
<1>10. n \in {4, 7, 8, 10} /\ Best(n) /\ n <= c
  <2>1. \A j \in {4, 7, 8, 10} :
            (j <= Carried(Field(cut, HelloFields, 1)) /\ Len(cut) >= Offset(HelloFields, j + 1)) <=> there(j)
    BY <1>7, <1>9, <1>c DEF o
  <2>2. Whole(cut) = CHOOSE j \in {4, 7, 8, 10} : Best(j)
    <3>1. \A j \in {4, 7, 8, 10} :
              Best(j) <=> /\ j <= Carried(Field(cut, HelloFields, 1)) /\ Len(cut) >= Offset(HelloFields, j + 1)
                          /\ \A i \in {7, 8, 10} : i > j =>
                                ~(i <= Carried(Field(cut, HelloFields, 1)) /\ Len(cut) >= Offset(HelloFields, i + 1))
      BY <2>1
    <3> HIDE DEF Best
    <3> QED
      BY <3>1 DEF Whole
  <2>3. there(4)
    <3>1. 4 <= c
      BY <1>1
    <3>2. k >= o(5)
      BY <1>4, <1>5
    <3> QED
      BY <3>1, <3>2
  <2> HIDE DEF there
  <2>4. \E j \in {4, 7, 8, 10} : Best(j)
    <3>1. CASE there(10)
      BY <3>1
    <3>2. CASE ~there(10) /\ there(8)
      BY <3>2
    <3>3. CASE ~there(10) /\ ~there(8) /\ there(7)
      BY <3>3
    <3>4. CASE ~there(10) /\ ~there(8) /\ ~there(7)
      BY <2>3, <3>4
    <3> QED
      BY <3>1, <3>2, <3>3, <3>4
  <2> HIDE DEF Best
  <2>5. n \in {4, 7, 8, 10} /\ Best(n)
    BY <2>2, <2>4
  <2> QED
    BY <2>5 DEF Best, there
<1> HIDE DEF n
<1> DEFINE g == [i \in 1 .. 10 |-> IF i <= n THEN Field(cut, HelloFields, i) ELSE 0]
<1>11. g = [i \in 1 .. 10 |-> IF i <= n THEN f[i] ELSE 0]
  <2>1. ASSUME NEW i \in 1 .. 10, i <= n PROVE Field(cut, HelloFields, i) = f[i]
    <3> DEFINE j == i + 1
               e == n + 1
    <3>a. n \in {4, 7, 8, 10} /\ n <= c
      BY <1>10
    <3>1. i \in 1 .. c /\ j \in 1 .. 11 /\ e \in 1 .. 11 /\ j <= e
      BY <1>d, <2>1, <3>a
    <3>2. o(e) <= k
      BY <1>10
    <3> HIDE DEF j, e
    <3>3. o(j) <= o(e) /\ o(j) \in Nat /\ o(e) \in Nat
      BY <1>3, <3>1
    <3>4. o(j) <= k
      BY <1>5, <3>2, <3>3
    <3> QED
      BY <1>8, <3>1, <3>4 DEF j
  <2> QED
    BY <2>1
<1> DEFINE name == StringAt(cut, o(n + 1))
           next == StringAt(cut, name.next)
<1>12. DecodeHello(cut) = Message("Hello", g, IF n < c THEN << <<>>, <<>> >> ELSE <<name.text, next.text>>)
  <2>1. g[1] = f[1]
    BY <1>10, <1>11
  <2>2. Carried(g[1]) = c
    BY <1>c, <2>1
  <2> HIDE DEF g
  <2> QED
    BY <2>2 DEF DecodeHello, g, n, o
<1>13. Meant(m) = Message("Hello", [i \in 1 .. 10 |-> IF i <= c THEN f[i] ELSE 0],
                          IF m.data = <<>> THEN << <<>>, <<>> >> ELSE m.data)
  <2>1. Len(m.f) = c
    BY <1>1 DEF f
  <2> QED
    BY <2>1 DEF Meant, f
<1> DEFINE d == IF m.data = <<>> THEN << <<>>, <<>> >> ELSE m.data
<1>14. n = c => /\ name.text \in {d[1], <<>>} /\ next.text \in {d[2], <<>>}
                /\ (k = Len(b) => <<name.text, next.text>> = d)
  <2> SUFFICES ASSUME n = c
               PROVE  /\ name.text \in {d[1], <<>>} /\ next.text \in {d[2], <<>>}
                      /\ (k = Len(b) => <<name.text, next.text>> = d)
    OBVIOUS
  <2> DEFINE p == Len(F)
  <2>1. o(n + 1) = p /\ p \in Nat /\ k >= p
    BY <1>1, <1>6, <1>10
  <2>2. CASE m.data = <<>>
    <3>1. Len(b) = p /\ k = p
      <4>1. T = <<>>
        BY <2>2 DEF T, HelloText
      <4> QED
        BY <1>5, <1>6, <2>1, <4>1
    <3>2. StringAt(cut, p) = [text |-> <<>>, next |-> p]
      BY <1>7, <2>1, <3>1 DEF StringAt
    <3> QED
      BY <2>1, <2>2, <3>2
  <2>3. CASE m.data # <<>>
    <3> DEFINE s == m.data[1]
               u == m.data[2]
    <3>1. s \in Seq(Byte) /\ u \in Seq(Byte) /\ Len(s) < Limit[2] /\ Len(u) < Limit[2] /\ d = <<s, u>>
      BY <1>2, <2>3
    <3>2. T = String(s) \o String(u)
      BY <2>3 DEF T, HelloText
    <3> HIDE DEF s, u, d, p
    <3>3. String(s) \in Seq(Byte) /\ String(u) \in Seq(Byte) /\ Len(String(s)) = 2 + Len(s) /\ Len(String(u)) = 2 + Len(u)
          /\ Len(s) \in Nat /\ Len(u) \in Nat
      BY <3>1, StringIs
    <3>4. b = F \o (String(s) \o String(u))
      BY <1>1, <3>2
    <3>5. name = IF k < p + 2 THEN [text |-> <<>>, next |-> p]
                 ELSE IF k < p + 2 + Len(s) THEN [text |-> <<>>, next |-> k]
                 ELSE [text |-> s, next |-> p + 2 + Len(s)]
      <4>1. k \in Len(F) .. Len(F \o (String(s) \o String(u)))
        BY <1>5, <2>1, <3>4 DEF p
      <4>2. StringAt(SubSeq(F \o (String(s) \o String(u)), 1, k), Len(F)) =
               IF k < Len(F) + 2 THEN [text |-> <<>>, next |-> Len(F)]
               ELSE IF k < Len(F) + 2 + Len(s) THEN [text |-> <<>>, next |-> k]
               ELSE [text |-> s, next |-> Len(F) + 2 + Len(s)]
        BY <1>1, <3>1, <3>3, <4>1, StringRead
      <4> QED
        BY <2>1, <3>4, <4>2 DEF cut, p
    <3>6. Len(b) = p + (2 + Len(s)) + (2 + Len(u))
      <4>1. Len(String(s) \o String(u)) = Len(String(s)) + Len(String(u))
        BY <3>3, ConcatIs
      <4> QED
        BY <1>6, <2>1, <3>2, <3>3, <4>1 DEF p
    <3>7. CASE k < p + 2
      <4>1. name = [text |-> <<>>, next |-> p]
        BY <3>5, <3>7
      <4>2. next = [text |-> <<>>, next |-> p]
        BY <1>7, <3>7, <4>1 DEF StringAt
      <4>3. k # Len(b)
        BY <2>1, <3>3, <3>6, <3>7
      <4> QED
        BY <4>1, <4>2, <4>3
    <3>8. CASE ~(k < p + 2) /\ k < p + 2 + Len(s)
      <4>1. name = [text |-> <<>>, next |-> k]
        BY <3>5, <3>8
      <4>2. next = [text |-> <<>>, next |-> k]
        BY <1>5, <1>7, <4>1 DEF StringAt
      <4>3. k # Len(b)
        BY <2>1, <3>3, <3>6, <3>8
      <4> QED
        BY <4>1, <4>2, <4>3
    <3>9. CASE ~(k < p + 2) /\ ~(k < p + 2 + Len(s))
      <4> DEFINE a == F \o String(s)
                 q == p + 2 + Len(s)
      <4>1. name = [text |-> s, next |-> q]
        BY <3>5, <3>9
      <4>2. a \in Seq(Byte) /\ Len(a) = q
        <5>0. F \in Seq(Byte) /\ String(s) \in Seq(Byte)
          BY <1>1, <3>3
        <5>1. F \o String(s) \in Seq(Byte) /\ Len(F \o String(s)) = Len(F) + Len(String(s))
          BY <5>0, ConcatIs
        <5> QED
          BY <2>1, <3>3, <5>1 DEF p
      <4>3. String(u) \o <<>> = String(u) /\ <<>> \in Seq(Byte)
        BY <3>3, ConcatEmptySeq
      <4>4. a \o String(u) = b
        <5>0. F \in Seq(Byte) /\ String(s) \in Seq(Byte) /\ String(u) \in Seq(Byte)
          BY <1>1, <3>3
        <5>1. (F \o String(s)) \o String(u) = F \o (String(s) \o String(u))
          BY <5>0, ConcatAssociative, SMTT(30)
        <5> QED
          BY <3>4, <5>1
      <4> HIDE DEF a
      <4>5. k \in Len(a) .. Len(a \o (String(u) \o <<>>))
        BY <1>5, <2>1, <3>3, <3>9, <4>2, <4>3, <4>4
      <4>6. StringAt(SubSeq(a \o (String(u) \o <<>>), 1, k), Len(a)) =
               IF k < Len(a) + 2 THEN [text |-> <<>>, next |-> Len(a)]
               ELSE IF k < Len(a) + 2 + Len(u) THEN [text |-> <<>>, next |-> k]
               ELSE [text |-> u, next |-> Len(a) + 2 + Len(u)]
        BY <3>1, <4>2, <4>3, <4>5, StringRead, ZenonT(40)
      <4>7. next = IF k < q + 2 THEN [text |-> <<>>, next |-> q]
                   ELSE IF k < q + 2 + Len(u) THEN [text |-> <<>>, next |-> k]
                   ELSE [text |-> u, next |-> q + 2 + Len(u)]
        <5>1. next = StringAt(cut, q)
          BY <4>1
        <5>2. cut = SubSeq(a \o (String(u) \o <<>>), 1, k)
          BY <4>3, <4>4 DEF cut
        <5> HIDE DEF next, q
        <5> QED
          BY <4>2, <4>6, <5>1, <5>2
      <4>8. k = Len(b) => ~(k < q + 2) /\ ~(k < q + 2 + Len(u))
        BY <2>1, <3>3, <3>6
      <4>9. next.text \in {u, <<>>} /\ (k = Len(b) => next.text = u)
        BY <4>7, <4>8
      <4>10. name.text = s
        BY <4>1
      <4> HIDE DEF name, next
      <4> QED
        BY <3>1, <4>9, <4>10
    <3> QED
      BY <3>7, <3>8, <3>9
  <2> QED
    BY <2>2, <2>3
<1>15. k = Len(b) => n = c
  <2>1. ASSUME k = Len(b), n # c PROVE FALSE
    <3>1. c \in {7, 8, 10} /\ c > n
      BY <1>1, <1>10, <2>1
    <3>2. ~there(c)
      BY <1>10, <3>1
    <3>3. k >= o(c + 1)
      BY <1>1, <1>6, <2>1
    <3> QED
      BY <1>1, <3>2, <3>3
  <2> QED
    BY <2>1
<1> HIDE DEF name, next
<1>16. ASSUME NEW i \in 1 .. 10 PROVE DecodeHello(cut).f[i] \in {Meant(m).f[i], 0}
  <2>1. DecodeHello(cut).f = [j \in 1 .. 10 |-> IF j <= n THEN f[j] ELSE 0]
    BY <1>11, <1>12 DEF Message
  <2>2. Meant(m).f = [j \in 1 .. 10 |-> IF j <= c THEN f[j] ELSE 0]
    BY <1>13 DEF Message
  <2>3. i <= n => i <= c
    BY <1>d, <1>10
  <2> QED
    BY <2>1, <2>2, <2>3
<1>17. ASSUME NEW i \in 1 .. 2 PROVE DecodeHello(cut).data[i] \in {Meant(m).data[i], <<>>}
  <2> DEFINE e == IF n < c THEN << <<>>, <<>> >> ELSE <<name.text, next.text>>
  <2>1. DecodeHello(cut).data = e /\ Meant(m).data = d
    BY <1>12, <1>13 DEF Message
  <2>2. n < c \/ n = c
    BY <1>1, <1>10
  <2>3. e[1] \in {d[1], <<>>} /\ e[2] \in {d[2], <<>>}
    BY <1>14, <2>2
  <2>4. i = 1 \/ i = 2
    OBVIOUS
  <2> HIDE DEF e, d
  <2> QED
    BY <2>1, <2>3, <2>4
<1>18. ASSUME k = Len(b) PROVE DecodeHello(cut) = Meant(m)
  <2>1. n = c /\ ~(n < c) /\ <<name.text, next.text>> = d
    BY <1>1, <1>14, <1>15, <1>18, SMTT(30)
  <2> QED
    BY <1>11, <1>12, <1>13, <2>1
<1> QED
  BY <1>16, <1>17, <1>18 DEF cut, b

LEMMA HelloFaithful ==
    ASSUME NEW m, Sendable(m), m.type = "Hello"
    PROVE  Faithful(m)
<1> DEFINE b == Body(m)
           c == Carried(m.f[1])
<1>1. /\ HelloBlock(m) \in Seq(Byte) /\ HelloText(m) \in Seq(Byte) /\ b = HelloBlock(m) \o HelloText(m)
      /\ Len(HelloBlock(m)) = Offset(HelloFields, c + 1) /\ c \in {4, 7, 8, 10}
  BY HelloIs
<1> HIDE DEF b, c
<1>2. b \in Seq(Byte) /\ Len(b) = Len(HelloBlock(m)) + Len(HelloText(m)) /\ Len(HelloText(m)) \in Nat
  BY <1>1, ConcatIs
<1>3. Len(b) >= 16 /\ Offset(HelloFields, 5) = 16
  <2> DEFINE j == c + 1
             i == 5
  <2>1. i \in 1 .. 11 /\ j \in 1 .. 11 /\ i <= j
    BY <1>1
  <2> HIDE DEF j, i
  <2>2. Offset(HelloFields, i) <= Offset(HelloFields, j) /\ Offset(HelloFields, j) \in Nat
    BY <2>1, HelloGrows
  <2>3. Offset(HelloFields, 5) = 16
    BY HelloOffsets
  <2> QED
    BY <1>1, <1>2, <2>2, <2>3 DEF i, j
<1>4. Accepts(m.type, b)
  BY <1>3 DEF Accepts
<1>5. Decode(m.type, b) = Meant(m)
  <2> DEFINE k == Len(b)
  <2>1. k \in 16 .. Len(b)
    BY <1>2, <1>3
  <2> HIDE DEF k
  <2>2. k = Len(Body(m)) => DecodeHello(SubSeq(Body(m), 1, k)) = Meant(m)
    BY <2>1, HelloCut DEF b
  <2>3. DecodeHello(SubSeq(b, 1, Len(b))) = Meant(m)
    BY <2>2 DEF b, k
  <2>4. SubSeq(b, 1, Len(b)) = b
    BY <1>2, SubSeqFull
  <2> QED
    BY <2>3, <2>4 DEF Decode
<1> QED
  BY <1>2, <1>4, <1>5 DEF Faithful, b

\* Whatever can be sent is read as it was meant.
LEMMA AllFaithful ==
    ASSUME NEW m, Sendable(m)
    PROVE  Faithful(m)
<1>1. m.type \in Plain \cup {"Hello", "Touch", "Scroll", "Video", "Config", "Audio"}
  BY SendableIs, TypesAre
<1>2. CASE m.type = "Hello"
  BY <1>2, HelloFaithful
<1>3. CASE m.type = "Touch"
  BY <1>3, TouchFaithful
<1>4. CASE m.type = "Scroll"
  BY <1>4, ScrollFaithful
<1>5. CASE m.type \in {"Video", "Audio"}
  BY <1>5, DataFaithful
<1>6. CASE m.type = "Config"
  BY <1>6, ConfigFaithful
<1>7. CASE m.type \in Plain
  <2>1. Fits(m.f, Layout[m.type]) \/ (m.type = "Input" /\ Fits(m.f, <<1, 2, 2>>))
    BY <1>7 DEF Sendable, Plain
  <2> QED
    BY <1>7, <2>1, PlainFaithful, OldInputFaithful
<1> QED
  BY <1>1, <1>2, <1>3, <1>4, <1>5, <1>6, <1>7

LEMMA CutHarmless ==
    ASSUME NEW m, Sendable(m), m.type = "Hello", NEW n \in 0 .. Len(Body(m)), Accepts("Hello", SubSeq(Body(m), 1, n))
    PROVE  /\ \A k \in 1 .. 10 : DecodeHello(SubSeq(Body(m), 1, n)).f[k] \in {Meant(m).f[k], 0}
           /\ \A k \in 1 .. 2 : DecodeHello(SubSeq(Body(m), 1, n)).data[k] \in {Meant(m).data[k], <<>>}
<1> DEFINE b == Body(m)
<1>1. b \in Seq(Byte)
  BY HelloFaithful DEF Faithful
<1> HIDE DEF b
<1>2. Len(SubSeq(b, 1, n)) = n
  <2>1. n \in 0 .. Len(b) /\ 0 \in 0 .. n
    BY DEF b
  <2> QED
    BY <1>1, <2>1, PieceOfPrefix
<1>3. Len(SubSeq(b, 1, n)) >= Offset(HelloFields, 5)
  BY DEF Accepts, b
<1>4. n >= 16
  BY <1>2, <1>3, HelloOffsets
<1>5. n \in 16 .. Len(Body(m))
  BY <1>4 DEF b
<1> QED
  BY <1>5, HelloCut

-----------------------------------------------------------------------------
(* The stream: what has arrived and what is on its way are, word by word,  *)
(* messages of `sent` that have not come out yet, and junk between them.   *)

\* Where a word has arrived whole, it is at the front, and the rest follows.
LEMMA FrontIs ==
    ASSUME NEW S, NEW q \in Seq(S), NEW w \in Seq(S), NEW e \in Seq(S), NEW r \in Seq(S),
           q \o w = e \o r, Len(e) <= Len(q)
    PROVE  SubSeq(q, 1, Len(e)) = e /\ From(q, Len(e)) \o w = r
<1> DEFINE n == Len(e)
           z == 0
<1>1. n \in 0 .. Len(q) /\ z \in 0 .. Len(q) /\ n \in z .. Len(q) /\ z + 1 = 1
  OBVIOUS
<1>2. SubSeq(e \o r, 1, Len(e)) = e /\ From(e \o r, Len(e)) = r
  BY RestIs
<1> HIDE DEF n, z
<1>3. SubSeq(q \o w, z + 1, n) = SubSeq(q, z + 1, n)
  BY <1>1, PieceOfConcat
<1>4. From(q \o w, n) = From(q, n) \o w
  BY <1>1, FromConcat
<1> QED
  BY <1>1, <1>2, <1>3, <1>4 DEF n

LEMMA EncodedIs ==
    ASSUME NEW m, Sendable(m)
    PROVE  /\ EncodeMessage(m) = Put(1 + Len(Body(m)), 4) \o (<<Code(m.type)>> \o Body(m))
           /\ EncodeMessage(m) \in Seq(Byte) /\ Len(EncodeMessage(m)) = 5 + Len(Body(m))
           /\ <<Code(m.type)>> \o Body(m) \in Seq(Byte)
           /\ Put(1 + Len(Body(m)), 4) \in Seq(Byte) /\ Len(Put(1 + Len(Body(m)), 4)) = 4
           /\ Num(Put(1 + Len(Body(m)), 4)) = 1 + Len(Body(m))
           /\ Len(Body(m)) \in Nat /\ 1 + Len(Body(m)) <= MaxMessage
           /\ Type[Code(m.type)] = m.type
           /\ <<Code(m.type)>> \in Seq(Byte) /\ Body(m) \in Seq(Byte)
           /\ (Put(1 + Len(Body(m)), 4) \o <<Code(m.type)>>) \o Body(m) = EncodeMessage(m)
<1> DEFINE b == Body(m)
           l == 1 + Len(b)
           t == <<Code(m.type)>>
           p == Put(l, 4)
<1>1. b \in Seq(Byte)
  BY AllFaithful DEF Faithful
<1>2. t \in Seq(Byte) /\ Len(t) = 1 /\ Type[Code(m.type)] = m.type
  <2>1. Code(m.type) \in 1 .. 17 /\ Type[Code(m.type)] = m.type
    BY SendableIs, TypesAre
  <2>2. Code(m.type) \in Byte
    BY <2>1, BaseIs DEF Byte
  <2> QED
    BY <2>1, <2>2
<1>3. Len(b) \in Nat /\ l <= MaxMessage /\ l \in Int
  BY <1>1 DEF Sendable
<1>4. EncodeMessage(m) = (p \o t) \o b
  BY DEF EncodeMessage
<1> HIDE DEF b, t, l
<1>5. l \in 0 .. Limit[4] - 1
  <2>1. MaxMessage \in Nat /\ MaxMessage < Limit[4]
    BY CodecAssumption, WordsAssumption
  <2>2. Limit[4] \in Nat
    <3>1. 4 \in Nat
      OBVIOUS
    <3> QED
      BY <3>1, LimitIs
  <2>3. l \in Nat
    BY <1>3 DEF l
  <2> QED
    BY <1>3, <2>1, <2>2, <2>3
<1>6. p \in Seq(Byte) /\ Len(p) = 4 /\ Num(p) = l
  <2>1. 4 \in Nat
    OBVIOUS
  <2> QED
    BY <1>3, <1>5, <2>1, PutIs, NumPutFits
<1> HIDE DEF p
<1>7. (p \o t) \o b = p \o (t \o b)
  <2>1. p \in Seq(Byte) /\ t \in Seq(Byte) /\ b \in Seq(Byte)
    BY <1>1, <1>2, <1>6
  <2> QED
    BY <2>1, ConcatAssociative
<1>8. t \o b \in Seq(Byte) /\ Len(t \o b) = 1 + Len(b)
  <2>1. t \in Seq(Byte) /\ b \in Seq(Byte)
    BY <1>1, <1>2
  <2>2. t \o b \in Seq(Byte) /\ Len(t \o b) = Len(t) + Len(b)
    BY <2>1, ConcatIs
  <2> QED
    BY <1>2, <2>2
<1>9. p \o (t \o b) \in Seq(Byte) /\ Len(p \o (t \o b)) = Len(p) + Len(t \o b)
  BY <1>6, <1>8, ConcatIs, ZenonT(40)
<1>10. EncodeMessage(m) \in Seq(Byte) /\ Len(EncodeMessage(m)) = 5 + Len(b)
  BY <1>3, <1>4, <1>6, <1>7, <1>8, <1>9
<1> QED
  BY <1>1, <1>2, <1>3, <1>4, <1>6, <1>7, <1>8, <1>10 DEF p, t, l, b

\* Three pieces one after the other.
LEMMA JoinedIs ==
    ASSUME NEW p \in Seq(Byte), NEW u \in Seq(Byte), NEW r \in Seq(Byte)
    PROVE  (p \o u) \o r = p \o (u \o r) /\ u \o r \in Seq(Byte)
BY ConcatAssociative, ConcatIs

LEMMA EncodedThen ==
    ASSUME NEW m, Sendable(m), NEW r \in Seq(Byte)
    PROVE  /\ EncodeMessage(m) \o r = Put(1 + Len(Body(m)), 4) \o ((<<Code(m.type)>> \o Body(m)) \o r)
           /\ (<<Code(m.type)>> \o Body(m)) \o r \in Seq(Byte)
<1> DEFINE p == Put(1 + Len(Body(m)), 4)
           u == <<Code(m.type)>> \o Body(m)
<1>1. p \in Seq(Byte) /\ u \in Seq(Byte) /\ EncodeMessage(m) = p \o u
  BY EncodedIs
<1> HIDE DEF p, u
<1>2. (p \o u) \o r = p \o (u \o r) /\ u \o r \in Seq(Byte)
  BY <1>1, JoinedIs
<1> QED
  BY <1>1, <1>2 DEF p, u

\* A message at the front of the stream.
LEMMA MessageFirst ==
    ASSUME NEW m, Sendable(m), NEW q \in Seq(Byte), NEW w \in Seq(Byte), NEW r \in Seq(Byte),
           q \o w = EncodeMessage(m) \o r, Len(q) >= 4
    PROVE  /\ Num(SubSeq(q, 1, 4)) = 1 + Len(Body(m))
           /\ Len(q) >= 5 + Len(Body(m)) =>
                 /\ q[5] = Code(m.type) /\ SubSeq(q, 6, 5 + Len(Body(m))) = Body(m)
                 /\ From(q, 5 + Len(Body(m))) \o w = r
<1> DEFINE b == Body(m)
           t == <<Code(m.type)>>
           p == Put(1 + Len(b), 4)
           e == EncodeMessage(m)
           l == Len(b)
<1>1. /\ e = p \o (t \o b) /\ e \in Seq(Byte) /\ Len(e) = 5 + l /\ t \o b \in Seq(Byte)
      /\ p \in Seq(Byte) /\ Len(p) = 4 /\ Num(p) = 1 + l /\ l \in Nat
      /\ (p \o t) \o b = e
  BY EncodedIs
<1>2. b \in Seq(Byte) /\ t \in Seq(Byte) /\ Len(t) = 1 /\ t[1] = Code(m.type)
  BY EncodedIs
<1>3. Len(q) \in Nat /\ q \o w = e \o r
  OBVIOUS
<1> HIDE DEF b, t, p, e, l
<1>4. SubSeq(q, 1, 4) = p
  <2>2. e \o r = p \o ((t \o b) \o r) /\ (t \o b) \o r \in Seq(Byte)
    BY EncodedThen DEF e, p, t, b
  <2>3. q \o w = p \o ((t \o b) \o r) /\ Len(p) <= Len(q)
    BY <1>1, <1>3, <2>2
  <2>4. SubSeq(q, 1, Len(p)) = p
    BY <1>1, <2>2, <2>3, FrontIs
  <2> QED
    BY <1>1, <2>4
<1>5. ASSUME Len(q) >= 5 + l
      PROVE  q[5] = Code(m.type) /\ SubSeq(q, 6, 5 + l) = b /\ From(q, 5 + l) \o w = r
  <2>1. SubSeq(q, 1, 5 + l) = e /\ From(q, 5 + l) \o w = r
    <3>1. Len(e) <= Len(q)
      BY <1>1, <1>5
    <3>2. SubSeq(q, 1, Len(e)) = e /\ From(q, Len(e)) \o w = r
      BY <1>1, <1>3, <3>1, FrontIs
    <3> QED
      BY <1>1, <3>2
  <2> DEFINE s == p \o t
  <2>2. e = s \o b /\ s \in Seq(Byte) /\ Len(s) = 5 /\ s[5] = Code(m.type)
    <3>0. p \in Seq(Byte) /\ t \in Seq(Byte) /\ b \in Seq(Byte)
      BY <1>1, <1>2
    <3>1. (p \o t) \o b = e
      BY <1>1
    <3>2. /\ p \o t \in Seq(Byte) /\ Len(p \o t) = Len(p) + Len(t)
          /\ \A i \in 1 .. Len(t) : (p \o t)[Len(p) + i] = t[i]
      BY <3>0, ConcatIs
    <3>3. 1 \in 1 .. Len(t) /\ Len(p) + 1 = 5
      BY <1>1, <1>2
    <3>4. (p \o t)[5] = t[1]
      BY <3>2, <3>3
    <3> QED
      BY <1>1, <1>2, <3>1, <3>2, <3>4
  <2> HIDE DEF s
  <2> DEFINE n == 5 + l
             five == 5
             z == 0
  <2>3. /\ five \in 0 .. n /\ n \in five .. n /\ n \in 0 .. Len(q) /\ five + 1 = 6
        /\ z \in 0 .. Len(q) /\ n \in z .. Len(q) /\ five \in 1 .. n - z /\ z + five = 5 /\ z + 1 = 1 /\ n = Len(e)
    BY <1>1, <1>3, <1>5
  <2> HIDE DEF n, five, z
  <2>4. SubSeq(SubSeq(q, 1, n), five + 1, n) = SubSeq(q, five + 1, n)
    BY <2>3, PieceOfPrefix
  <2>5. From(s \o b, Len(s)) = b
    BY <1>2, <2>2, RestIs
  <2>6. SubSeq(q, five + 1, n) = b
    <3>1. SubSeq(q, 1, n) = e
      BY <2>1 DEF n
    <3>2. From(e, five) = b
      BY <2>2, <2>5 DEF five
    <3>3. SubSeq(e, five + 1, n) = b
      BY <2>3, <3>2 DEF From
    <3> QED
      BY <2>4, <3>1, <3>3
  <2>7. q[5] = e[5]
    <3>1. SubSeq(q, z + 1, n)[five] = q[z + five]
      BY <2>3, PieceIs
    <3> QED
      BY <2>1, <2>3, <3>1 DEF n, five
  <2>8. e[5] = s[5]
    <3>1. \A i \in 1 .. Len(s) : (s \o b)[i] = s[i]
      BY <1>2, <2>2, ConcatIs, ZenonT(40)
    <3>2. 5 \in 1 .. Len(s)
      BY <2>2
    <3> QED
      BY <2>2, <3>1, <3>2
  <2> QED
    BY <2>1, <2>2, <2>3, <2>6, <2>7, <2>8 DEF n
<1> QED
  BY <1>1, <1>4, <1>5 DEF b, l

\* A malformed length.
LEMMA JunkIs ==
    ASSUME NEW x \in Junk
    PROVE  Put(x, 4) \in Seq(Byte) /\ Len(Put(x, 4)) = 4 /\ Num(Put(x, 4)) = x /\ (x = 0 \/ x > MaxMessage)
<1> DEFINE w == 4
<1>1. w \in Nat /\ x \in 0 .. Limit[w] - 1 /\ (x = 0 \/ x > MaxMessage)
  BY WordsAssumption
<1> HIDE DEF w
<1>2. x \in Int
  BY <1>1, LimitIs
<1>3. Put(x, w) \in Seq(Byte) /\ Len(Put(x, w)) = w /\ Num(Put(x, w)) = x
  BY <1>1, <1>2, PutIs, NumPutFits
<1> QED
  BY <1>1, <1>3 DEF w

\* From a to b there is one word: a message, the next of s, or junk.
IsWord(s, a, b, j, k) ==
    \/ k = j + 1 /\ a = EncodeMessage(s[k]) \o b
    \/ k = j /\ \E x \in Junk : a = Put(x, 4) \o b
\* The bytes are whole words: the messages of s after the first g, in order, with
\* junk before, between and behind them. r[i] is what is left after i words, and
\* c[i] the messages up to there.
Chain(n, r, c, bytes, g, s) ==
    /\ r[0] = bytes /\ r[n] = <<>> /\ c[0] = g /\ c[n] = Len(s)
    /\ \A i \in 1 .. n : IsWord(s, r[i - 1], r[i], c[i - 1], c[i])
Queued(bytes, g, s) ==
    \E n \in Nat : \E r \in [0 .. n -> Seq(Byte)], c \in [0 .. n -> 0 .. Len(s)] : Chain(n, r, c, bytes, g, s)

LEMMA NothingQueued == Queued(<<>>, 0, <<>>)
<1> DEFINE r == [i \in 0 .. 0 |-> <<>>]
           c == [i \in 0 .. 0 |-> 0]
<1>1. r \in [0 .. 0 -> Seq(Byte)] /\ c \in [0 .. 0 -> 0 .. Len(<<>>)]
  OBVIOUS
<1>2. r[0] = <<>> /\ c[0] = 0 /\ Len(<<>>) = 0
  OBVIOUS
<1> HIDE DEF r, c
<1>3. \A i \in 1 .. 0 : FALSE
  OBVIOUS
<1>4. Chain(0, r, c, <<>>, 0, <<>>)
  BY <1>2, <1>3 DEF Chain
<1> QED
  BY <1>1, <1>4 DEF Queued

\* The words that are sent have bytes.
LEMMA WordsHaveBytes ==
    /\ \A m \in Samples : EncodeMessage(m) \in Seq(Byte) /\ EncodeMessage(m) # <<>>
    /\ \A x \in Junk : Put(x, 4) \in Seq(Byte) /\ Put(x, 4) # <<>>
<1>1. ASSUME NEW m \in Samples PROVE EncodeMessage(m) \in Seq(Byte) /\ EncodeMessage(m) # <<>>
  <2>1. Sendable(m)
    BY WordsAssumption
  <2>2. EncodeMessage(m) \in Seq(Byte) /\ Len(EncodeMessage(m)) = 5 + Len(Body(m)) /\ Len(Body(m)) \in Nat
    BY <2>1, EncodedIs
  <2> QED
    BY <2>2
<1>2. ASSUME NEW x \in Junk PROVE Put(x, 4) \in Seq(Byte) /\ Put(x, 4) # <<>>
  BY JunkIs
<1> QED
  BY <1>1, <1>2

\* A word behind the others.
LEMMA OneMoreQueued ==
    ASSUME NEW s \in Seq(Samples), NEW t \in Seq(Samples), NEW a \in Seq(Byte), NEW e \in Seq(Byte), NEW g,
           Queued(a, g, s),
           \/ \E m \in Samples : t = Append(s, m) /\ e = EncodeMessage(m)
           \/ \E x \in Junk : t = s /\ e = Put(x, 4)
    PROVE  Queued(a \o e, g, t)
<1>0. PICK n \in Nat : \E r \in [0 .. n -> Seq(Byte)], c \in [0 .. n -> 0 .. Len(s)] : Chain(n, r, c, a, g, s)
  BY DEF Queued
<1>1. PICK r \in [0 .. n -> Seq(Byte)], c \in [0 .. n -> 0 .. Len(s)] : Chain(n, r, c, a, g, s)
  BY <1>0
<1> DEFINE rr == [i \in 0 .. n + 1 |-> IF i <= n THEN r[i] \o e ELSE <<>>]
           cc == [i \in 0 .. n + 1 |-> IF i <= n THEN c[i] ELSE Len(t)]
<1>2. Len(s) \in Nat /\ Len(t) \in Nat /\ Len(s) <= Len(t) /\ \A i \in 1 .. Len(s) : t[i] = s[i]
  <2>1. CASE \E m \in Samples : t = Append(s, m)
    BY <2>1
  <2>2. CASE t = s
    BY <2>2
  <2> QED
    BY <2>1, <2>2
<1>3. \A i \in 0 .. n : r[i] \in Seq(Byte) /\ c[i] \in 0 .. Len(s) /\ c[i] \in 0 .. Len(t)
  BY <1>2
<1>4. \A i \in 0 .. n : r[i] \o e \in Seq(Byte)
  BY <1>3, ConcatIs
<1>5. rr \in [0 .. n + 1 -> Seq(Byte)]
  BY <1>4
<1>6. cc \in [0 .. n + 1 -> 0 .. Len(t)]
  <2>1. Len(t) \in 0 .. Len(t)
    BY <1>2
  <2>2. ASSUME NEW i \in 0 .. n + 1 PROVE (IF i <= n THEN c[i] ELSE Len(t)) \in 0 .. Len(t)
    <3>1. i <= n => i \in 0 .. n
      OBVIOUS
    <3> QED
      BY <1>3, <2>1, <3>1
  <2> QED
    BY <2>2
<1>7. rr[0] = a \o e /\ rr[n + 1] = <<>> /\ cc[0] = g /\ cc[n + 1] = Len(t)
  <2>1. r[0] = a /\ c[0] = g
    BY <1>1 DEF Chain
  <2>2. 0 \in 0 .. n + 1 /\ n + 1 \in 0 .. n + 1 /\ 0 <= n /\ ~(n + 1 <= n)
    OBVIOUS
  <2> QED
    BY <2>1, <2>2
<1>8. ASSUME NEW i \in 0 .. n PROVE rr[i] = r[i] \o e /\ cc[i] = c[i]
  <2>1. i \in 0 .. n + 1 /\ i <= n
    OBVIOUS
  <2> QED
    BY <2>1
<1>9. r[n] = <<>> /\ c[n] = Len(s) /\ n \in 0 .. n
  BY <1>1 DEF Chain
<1> HIDE DEF rr, cc
<1>10. ASSUME NEW i \in 1 .. n + 1 PROVE IsWord(t, rr[i - 1], rr[i], cc[i - 1], cc[i])
  <2>1. CASE i \in 1 .. n
    <3>1. i - 1 \in 0 .. n /\ i \in 0 .. n
      BY <2>1
    <3>2. IsWord(s, r[i - 1], r[i], c[i - 1], c[i])
      BY <1>1, <2>1 DEF Chain
    <3>3. rr[i - 1] = r[i - 1] \o e /\ rr[i] = r[i] \o e /\ cc[i - 1] = c[i - 1] /\ cc[i] = c[i]
      BY <1>8, <3>1
    <3>4. r[i] \in Seq(Byte) /\ c[i] \in 0 .. Len(s) /\ c[i - 1] \in 0 .. Len(s)
      BY <1>3, <3>1
    <3>5. CASE c[i] = c[i - 1] + 1 /\ r[i - 1] = EncodeMessage(s[c[i]]) \o r[i]
      <4>1. c[i] \in 1 .. Len(s)
        BY <1>2, <3>4, <3>5
      <4>2. t[c[i]] = s[c[i]] /\ s[c[i]] \in Samples
        <5>1. \A j \in 1 .. Len(s) : s[j] \in Samples
          OBVIOUS
        <5>2. \A j \in 1 .. Len(s) : t[j] = s[j]
          BY <1>2
        <5> DEFINE j == c[i]
        <5>3. j \in 1 .. Len(s)
          BY <4>1
        <5> HIDE DEF j
        <5>4. t[j] = s[j] /\ s[j] \in Samples
          BY <5>1, <5>2, <5>3
        <5> QED
          BY <5>4 DEF j
      <4>3. EncodeMessage(s[c[i]]) \in Seq(Byte)
        BY <4>2, WordsHaveBytes
      <4>4. (EncodeMessage(s[c[i]]) \o r[i]) \o e = EncodeMessage(s[c[i]]) \o (r[i] \o e)
        BY <3>4, <4>3, JoinedIs, ZenonT(40)
      <4> QED
        BY <3>3, <3>5, <4>2, <4>4 DEF IsWord
    <3>6. ASSUME NEW x \in Junk, c[i] = c[i - 1], r[i - 1] = Put(x, 4) \o r[i]
          PROVE  IsWord(t, rr[i - 1], rr[i], cc[i - 1], cc[i])
      <4>1. Put(x, 4) \in Seq(Byte)
        BY WordsHaveBytes
      <4>2. (Put(x, 4) \o r[i]) \o e = Put(x, 4) \o (r[i] \o e)
        BY <3>4, <4>1, JoinedIs, ZenonT(40)
      <4> QED
        BY <3>3, <3>6, <4>2 DEF IsWord
    <3> QED
      BY <3>2, <3>5, <3>6 DEF IsWord
  <2>2. CASE i = n + 1
    <3>1. rr[i - 1] = r[n] \o e /\ cc[i - 1] = Len(s) /\ i - 1 = n
      <4>1. i - 1 = n
        BY <2>2
      <4> QED
        BY <1>8, <1>9, <4>1
    <3>2. rr[i - 1] = e \o <<>>
      BY <1>9, <3>1, ConcatEmptySeq
    <3>3. rr[i] = <<>> /\ cc[i] = Len(t)
      BY <1>7, <2>2
    <3>4. ASSUME NEW m \in Samples, t = Append(s, m), e = EncodeMessage(m)
          PROVE  IsWord(t, rr[i - 1], rr[i], cc[i - 1], cc[i])
      <4>1. Len(t) = Len(s) + 1 /\ t[Len(t)] = m
        BY <3>4
      <4> QED
        BY <3>1, <3>2, <3>3, <3>4, <4>1 DEF IsWord
    <3>5. ASSUME NEW x \in Junk, t = s, e = Put(x, 4)
          PROVE  IsWord(t, rr[i - 1], rr[i], cc[i - 1], cc[i])
      BY <3>1, <3>2, <3>3, <3>5 DEF IsWord
    <3> QED
      BY <3>4, <3>5
  <2> QED
    BY <2>1, <2>2
<1>11. Chain(n + 1, rr, cc, a \o e, g, t)
  BY <1>7, <1>10 DEF Chain
<1>12. n + 1 \in Nat
  OBVIOUS
<1> QED
  BY <1>5, <1>6, <1>11, <1>12 DEF Queued

\* The first word: junk, or the next message.
LEMMA FirstQueued ==
    ASSUME NEW s \in Seq(Samples), NEW a, NEW g, Queued(a, g, s), a # <<>>
    PROVE  \E r \in Seq(Byte) :
              \/ \E x \in Junk : a = Put(x, 4) \o r /\ Queued(r, g, s)
              \/ g + 1 \in 1 .. Len(s) /\ a = EncodeMessage(s[g + 1]) \o r /\ Queued(r, g + 1, s)
<1>0. PICK n \in Nat : \E r \in [0 .. n -> Seq(Byte)], c \in [0 .. n -> 0 .. Len(s)] : Chain(n, r, c, a, g, s)
  BY DEF Queued
<1>1. PICK r \in [0 .. n -> Seq(Byte)], c \in [0 .. n -> 0 .. Len(s)] : Chain(n, r, c, a, g, s)
  BY <1>0
<1>2. r[0] = a /\ r[n] = <<>> /\ c[0] = g /\ c[n] = Len(s)
  BY <1>1 DEF Chain
<1>3. n # 0
  BY <1>2
<1>4. n - 1 \in Nat /\ 1 \in 1 .. n /\ 1 \in 0 .. n /\ 0 \in 0 .. n /\ 1 - 1 = 0
  BY <1>3
<1> DEFINE rr == [i \in 0 .. n - 1 |-> r[i + 1]]
           cc == [i \in 0 .. n - 1 |-> c[i + 1]]
<1>5. ASSUME NEW i \in 0 .. n - 1 PROVE i + 1 \in 0 .. n /\ i + 1 \in 1 .. n /\ r[i + 1] \in Seq(Byte) /\ c[i + 1] \in 0 .. Len(s)
  <2>1. i + 1 \in 0 .. n /\ i + 1 \in 1 .. n
    BY <1>4
  <2> QED
    BY <2>1
<1>6. rr \in [0 .. n - 1 -> Seq(Byte)] /\ cc \in [0 .. n - 1 -> 0 .. Len(s)]
  BY <1>5
<1>7. rr[0] = r[1] /\ cc[0] = c[1] /\ rr[n - 1] = <<>> /\ cc[n - 1] = Len(s)
  <2>1. 0 \in 0 .. n - 1 /\ n - 1 \in 0 .. n - 1 /\ (n - 1) + 1 = n /\ 0 + 1 = 1
    BY <1>4
  <2> QED
    BY <1>2, <2>1
<1>8. ASSUME NEW i \in 1 .. n - 1 PROVE IsWord(s, rr[i - 1], rr[i], cc[i - 1], cc[i])
  <2>1. i \in 0 .. n - 1 /\ i - 1 \in 0 .. n - 1 /\ i + 1 \in 1 .. n /\ (i + 1) - 1 = i /\ (i - 1) + 1 = i
    BY <1>4
  <2>2. rr[i] = r[i + 1] /\ rr[i - 1] = r[i] /\ cc[i] = c[i + 1] /\ cc[i - 1] = c[i]
    BY <2>1
  <2>3. IsWord(s, r[(i + 1) - 1], r[i + 1], c[(i + 1) - 1], c[i + 1])
    BY <1>1, <2>1 DEF Chain
  <2> HIDE DEF rr, cc
  <2> QED
    BY <2>1, <2>2, <2>3
<1> HIDE DEF rr, cc
<1>9. Chain(n - 1, rr, cc, r[1], c[1], s)
  BY <1>7, <1>8 DEF Chain
<1>10. Queued(r[1], c[1], s)
  BY <1>4, <1>6, <1>9 DEF Queued
<1>11. IsWord(s, r[0], r[1], c[0], c[1])
  BY <1>1, <1>4 DEF Chain
<1>12. r[1] \in Seq(Byte) /\ c[1] \in 0 .. Len(s) /\ c[0] \in 0 .. Len(s)
  BY <1>4
<1>13. CASE c[1] = c[0] + 1 /\ r[0] = EncodeMessage(s[c[1]]) \o r[1]
  <2>1. g + 1 \in 1 .. Len(s) /\ c[1] = g + 1
    BY <1>2, <1>12, <1>13
  <2> QED
    BY <1>2, <1>10, <1>12, <1>13, <2>1
<1>14. CASE c[1] = c[0] /\ \E x \in Junk : r[0] = Put(x, 4) \o r[1]
  BY <1>2, <1>10, <1>12, <1>14
<1> QED
  BY <1>11, <1>13, <1>14 DEF IsWord

\* Where no byte is left, no message is.
LEMMA AllCameOut ==
    ASSUME NEW s \in Seq(Samples), NEW g, Queued(<<>>, g, s)
    PROVE  g = Len(s)
<1>0. PICK n \in Nat : \E r \in [0 .. n -> Seq(Byte)], c \in [0 .. n -> 0 .. Len(s)] : Chain(n, r, c, <<>>, g, s)
  BY DEF Queued
<1>1. PICK r \in [0 .. n -> Seq(Byte)], c \in [0 .. n -> 0 .. Len(s)] : Chain(n, r, c, <<>>, g, s)
  BY <1>0
<1>2. r[0] = <<>> /\ c[0] = g /\ c[n] = Len(s)
  BY <1>1 DEF Chain
<1>3. ASSUME n # 0 PROVE FALSE
  <2>1. 1 \in 1 .. n /\ 1 \in 0 .. n /\ 0 \in 0 .. n /\ 1 - 1 = 0
    BY <1>3
  <2>2. IsWord(s, r[0], r[1], c[0], c[1])
    BY <1>1, <2>1 DEF Chain
  <2>3. r[1] \in Seq(Byte) /\ c[1] \in 0 .. Len(s) /\ c[0] \in 0 .. Len(s)
    BY <2>1
  <2>4. PICK e \in Seq(Byte) : e # <<>> /\ r[0] = e \o r[1]
    <3>1. CASE c[1] = c[0] + 1 /\ r[0] = EncodeMessage(s[c[1]]) \o r[1]
      <4>1. c[1] \in 1 .. Len(s)
        BY <2>3, <3>1
      <4>2. s[c[1]] \in Samples
        BY <4>1
      <4>3. EncodeMessage(s[c[1]]) \in Seq(Byte) /\ EncodeMessage(s[c[1]]) # <<>>
        BY <4>2, WordsHaveBytes
      <4> QED
        BY <3>1, <4>3
    <3>2. ASSUME NEW x \in Junk, r[0] = Put(x, 4) \o r[1]
          PROVE  \E e \in Seq(Byte) : e # <<>> /\ r[0] = e \o r[1]
      <4>1. Put(x, 4) \in Seq(Byte) /\ Put(x, 4) # <<>>
        BY WordsHaveBytes
      <4> QED
        BY <3>2, <4>1
    <3> QED
      BY <2>2, <3>1, <3>2 DEF IsWord
  <2>5. e \o r[1] = <<>>
    BY <1>2, <2>4
  <2>6. e = <<>>
    BY <2>3, <2>5, ConcatEqualIffEmpty
  <2> QED
    BY <2>4, <2>6
<1> QED
  BY <1>2, <1>3

-----------------------------------------------------------------------------
(* The parser.                                                             *)

\* A byte that arrives leaves what is to come as it is.
LEMMA FedIs ==
    ASSUME NEW b \in Seq(Byte), NEW w \in Seq(Byte), w # <<>>, NEW p \in 0 .. Len(b)
    PROVE  /\ Append(b, Head(w)) \in Seq(Byte) /\ Tail(w) \in Seq(Byte)
           /\ p \in 0 .. Len(Append(b, Head(w)))
           /\ From(Append(b, Head(w)), p) \o Tail(w) = From(b, p) \o w
<1> DEFINE h == Head(w)
           l == Tail(w)
           one == <<h>>
           f == From(b, p)
<1>1. h \in Byte /\ l \in Seq(Byte)
  BY HeadTailProperties
<1>2. one \in Seq(Byte)
  BY <1>1
<1>3. w = one \o l
  <2>1. Len(w) \in Nat /\ Len(w) # 0
    OBVIOUS
  <2>2. 1 \in 1 .. Len(w) /\ Len(w) \in 1 .. Len(w)
    BY <2>1
  <2>3. SubSeq(w, 1, Len(w)) = <<w[1]>> \o SubSeq(w, 1 + 1, Len(w))
    BY <2>2, SubSeqRecursiveFirst
  <2>4. SubSeq(w, 1, Len(w)) = w /\ Tail(w) = SubSeq(w, 2, Len(w)) /\ Head(w) = w[1] /\ 1 + 1 = 2
    BY SubSeqFull, TailIsSubSeq
  <2> QED
    BY <2>3, <2>4
<1>4. f \in Seq(Byte)
  BY FromIs
<1> HIDE DEF l, f
<1>5. Append(b, h) = b \o one
  BY <1>1, <1>2, AppendIsConcat
<1>6. b \o one \in Seq(Byte) /\ Len(b \o one) = Len(b) + 1
  BY <1>2, ConcatIs
<1> HIDE DEF one
<1>7. From(b \o one, p) = f \o one
  BY <1>2, FromConcat DEF f
<1>8. (f \o one) \o l = f \o (one \o l)
  BY <1>1, <1>2, <1>4, JoinedIs, ZenonT(40)
<1>9. p \in 0 .. Len(b) + 1
  OBVIOUS
<1> QED
  BY <1>1, <1>3, <1>5, <1>6, <1>7, <1>8, <1>9 DEF f, l

\* What the parser reads at pos_ is what is at the front of the rest.
LEMMA ReadIs ==
    ASSUME NEW b \in Seq(Byte), NEW p \in 0 .. Len(b), Len(b) - p >= 4
    PROVE  /\ From(b, p) \in Seq(Byte) /\ Len(From(b, p)) = Len(b) - p
           /\ SubSeq(b, p + 1, p + 4) = SubSeq(From(b, p), 1, 4)
           /\ p + 4 \in 0 .. Len(b) /\ From(From(b, p), 4) = From(b, p + 4)
<1> DEFINE z == 0
           four == 4
<1>1. z \in 0 .. Len(b) - p /\ four \in z .. Len(b) - p /\ four \in 0 .. Len(b) - p /\ z + 1 = 1 /\ p + z + 1 = p + 1
  OBVIOUS
<1>2. p + 4 \in 0 .. Len(b)
  OBVIOUS
<1> HIDE DEF z, four
<1>3. From(b, p) \in Seq(Byte) /\ Len(From(b, p)) = Len(b) - p
  BY FromIs
<1>4. SubSeq(From(b, p), z + 1, four) = SubSeq(b, p + z + 1, p + four)
  BY <1>1, PieceOfFrom
<1>5. From(From(b, p), four) = From(b, p + four)
  BY <1>1, FromFrom
<1> QED
  BY <1>1, <1>2, <1>3, <1>4, <1>5 DEF four

LEMMA ReadMessageIs ==
    ASSUME NEW b \in Seq(Byte), NEW p \in 0 .. Len(b), NEW l \in Nat, Len(b) - p >= 5 + l
    PROVE  /\ b[p + 5] = From(b, p)[5]
           /\ SubSeq(b, p + 6, p + (5 + l)) = SubSeq(From(b, p), 6, 5 + l)
           /\ p + (5 + l) \in 0 .. Len(b) /\ From(From(b, p), 5 + l) = From(b, p + (5 + l))
<1> DEFINE five == 5
           n == 5 + l
<1>1. /\ five \in 0 .. Len(b) - p /\ n \in five .. Len(b) - p /\ n \in 0 .. Len(b) - p /\ five + 1 = 6 /\ p + five + 1 = p + 6
      /\ five \in 1 .. Len(b) - p
  OBVIOUS
<1>2. p + (5 + l) \in 0 .. Len(b)
  OBVIOUS
<1> HIDE DEF five, n
<1>3. SubSeq(From(b, p), five + 1, n) = SubSeq(b, p + five + 1, p + n)
  BY <1>1, PieceOfFrom
<1>4. From(From(b, p), n) = From(b, p + n)
  BY <1>1, FromFrom
<1>5. From(b, p)[five] = b[p + five]
  BY <1>1, FromIs
<1> QED
  BY <1>1, <1>2, <1>3, <1>4, <1>5 DEF five, n

-----------------------------------------------------------------------------
(* The inductive invariant.                                                *)

Meanings == {Meant(m) : m \in Samples}
Rest == From(buf, pos) \o wire

CameOut ==
    /\ got \in Seq(Meanings)
    /\ Len(got) <= Len(sent)
    /\ \A i \in 1 .. Len(got) : got[i] = Meant(sent[i])

Inv == TypeOK /\ CameOut /\ Queued(Rest, Len(got), sent)

LEMMA StreamIs ==
    ASSUME TypeOK
    PROVE  /\ sent \in Seq(Samples) /\ wire \in Seq(Byte) /\ buf \in Seq(Byte) /\ pos \in 0 .. Len(buf)
           /\ Len(sent) \in Nat /\ Len(buf) \in Nat /\ From(buf, pos) \in Seq(Byte) /\ Rest \in Seq(Byte)
<1>1. sent \in Seq(Samples) /\ wire \in Seq(Byte) /\ buf \in Seq(Byte) /\ pos \in 0 .. Len(buf)
  BY DEF TypeOK, Byte
<1>2. From(buf, pos) \in Seq(Byte)
  BY <1>1, FromIs
<1>3. From(buf, pos) \o wire \in Seq(Byte)
  BY <1>1, <1>2, ConcatIs
<1> QED
  BY <1>1, <1>2, <1>3 DEF Rest

LEMMA InitInv == Init => Inv
<1> SUFFICES ASSUME Init PROVE Inv
  OBVIOUS
<1>1. sent = <<>> /\ wire = <<>> /\ buf = <<>> /\ pos = 0 /\ got = <<>> /\ words = 0
  BY DEF Init
<1>2. TypeOK
  BY <1>1, CodecAssumption DEF TypeOK
<1>3. CameOut
  BY <1>1 DEF CameOut
<1>4. Rest = <<>>
  <2>1. Len(buf) = pos /\ buf \in Seq(Byte)
    BY <1>1
  <2>2. From(buf, pos) = <<>>
    BY <2>1, FromEnd
  <2> QED
    BY <1>1, <2>2 DEF Rest
<1>5. Len(got) = 0
  BY <1>1
<1> QED
  BY <1>1, <1>2, <1>3, <1>4, <1>5, NothingQueued DEF Inv

LEMMA SendInv ==
    ASSUME Inv, NEW m \in Samples, Send(m)
    PROVE  Inv'
<1>1. /\ words' = words + 1 /\ words < MaxSent /\ wire = <<>> /\ sent' = Append(sent, m) /\ wire' = EncodeMessage(m)
      /\ buf' = buf /\ pos' = pos /\ got' = got
  BY DEF Send
<1>2. TypeOK /\ CameOut /\ Queued(Rest, Len(got), sent)
  BY DEF Inv
<1>3. /\ sent \in Seq(Samples) /\ wire \in Seq(Byte) /\ buf \in Seq(Byte) /\ pos \in 0 .. Len(buf) /\ Len(sent) \in Nat
      /\ From(buf, pos) \in Seq(Byte) /\ Rest \in Seq(Byte)
  BY <1>2, StreamIs
<1>4. EncodeMessage(m) \in Seq(Byte)
  BY WordsHaveBytes
<1>5. sent' \in Seq(Samples) /\ Len(sent') = Len(sent) + 1 /\ \A i \in 1 .. Len(sent) : sent'[i] = sent[i]
  BY <1>1, <1>3, AppendProperties
<1>6. Len(got) \in Nat /\ Len(got) <= Len(sent)
  BY <1>2 DEF CameOut
<1>7. TypeOK'
  <2>1. words' \in 0 .. MaxSent
    BY <1>1, <1>2, CodecAssumption DEF TypeOK
  <2>2. Len(got') <= Len(sent')
    BY <1>1, <1>3, <1>5, <1>6
  <2> QED
    BY <1>1, <1>3, <1>4, <1>5, <2>1, <2>2 DEF TypeOK, Byte
<1>8. CameOut'
  <2>1. \A i \in 1 .. Len(got) : got[i] = Meant(sent'[i])
    <3>1. ASSUME NEW i \in 1 .. Len(got) PROVE got[i] = Meant(sent'[i])
      <4>1. i \in 1 .. Len(sent)
        BY <1>3, <1>6
      <4> QED
        BY <1>2, <1>5, <4>1 DEF CameOut
    <3> QED
      BY <3>1
  <2> QED
    BY <1>1, <1>2, <1>3, <1>5, <1>6, <2>1 DEF CameOut
<1>9. Queued(Rest, Len(got), sent)'
  <2>1. Rest' = Rest \o EncodeMessage(m)
    <3>1. Rest = From(buf, pos)
      BY <1>1, <1>3, ConcatEmptySeq DEF Rest
    <3>2. Rest' = From(buf, pos) \o EncodeMessage(m)
      BY <1>1 DEF Rest
    <3> QED
      BY <3>1, <3>2
  <2>2. Queued(Rest \o EncodeMessage(m), Len(got), sent')
    BY <1>1, <1>2, <1>3, <1>4, <1>5, OneMoreQueued
  <2> QED
    BY <1>1, <2>1, <2>2
<1> QED
  BY <1>7, <1>8, <1>9 DEF Inv

LEMMA SendJunkInv ==
    ASSUME Inv, NEW x \in Junk, SendJunk(x)
    PROVE  Inv'
<1>1. /\ words' = words + 1 /\ words < MaxSent /\ wire = <<>> /\ sent' = sent /\ wire' = Put(x, 4)
      /\ buf' = buf /\ pos' = pos /\ got' = got
  BY DEF SendJunk
<1>2. TypeOK /\ CameOut /\ Queued(Rest, Len(got), sent)
  BY DEF Inv
<1>3. /\ sent \in Seq(Samples) /\ wire \in Seq(Byte) /\ buf \in Seq(Byte) /\ pos \in 0 .. Len(buf) /\ Len(sent) \in Nat
      /\ From(buf, pos) \in Seq(Byte) /\ Rest \in Seq(Byte)
  BY <1>2, StreamIs
<1>4. Put(x, 4) \in Seq(Byte)
  BY WordsHaveBytes
<1>5. TypeOK'
  <2>1. words' \in 0 .. MaxSent
    BY <1>1, <1>2, CodecAssumption DEF TypeOK
  <2> QED
    BY <1>1, <1>2, <1>4, <2>1 DEF TypeOK, Byte
<1>6. CameOut'
  BY <1>1, <1>2 DEF CameOut
<1>7. Queued(Rest, Len(got), sent)'
  <2>1. Rest' = Rest \o Put(x, 4)
    <3>1. Rest = From(buf, pos)
      BY <1>1, <1>3, ConcatEmptySeq DEF Rest
    <3>2. Rest' = From(buf, pos) \o Put(x, 4)
      BY <1>1 DEF Rest
    <3> QED
      BY <3>1, <3>2
  <2>2. Queued(Rest \o Put(x, 4), Len(got), sent)
    BY <1>2, <1>3, <1>4, OneMoreQueued
  <2> QED
    BY <1>1, <2>1, <2>2
<1> QED
  BY <1>5, <1>6, <1>7 DEF Inv

LEMMA FeedInv ==
    ASSUME Inv, Feed
    PROVE  Inv'
<1>1. /\ wire # <<>> /\ buf' = Append(buf, Head(wire)) /\ wire' = Tail(wire)
      /\ words' = words /\ sent' = sent /\ pos' = pos /\ got' = got
  BY DEF Feed
<1>2. TypeOK /\ CameOut /\ Queued(Rest, Len(got), sent)
  BY DEF Inv
<1>3. wire \in Seq(Byte) /\ buf \in Seq(Byte) /\ pos \in 0 .. Len(buf)
  BY <1>2, StreamIs
<1>4. /\ Append(buf, Head(wire)) \in Seq(Byte) /\ Tail(wire) \in Seq(Byte)
      /\ pos \in 0 .. Len(Append(buf, Head(wire)))
      /\ From(Append(buf, Head(wire)), pos) \o Tail(wire) = From(buf, pos) \o wire
  BY <1>1, <1>3, FedIs
<1>5. TypeOK'
  BY <1>1, <1>2, <1>4 DEF TypeOK, Byte
<1>6. CameOut'
  BY <1>1, <1>2 DEF CameOut
<1>7. Rest' = Rest
  BY <1>1, <1>4 DEF Rest
<1> QED
  BY <1>1, <1>2, <1>5, <1>6, <1>7 DEF Inv

\* With four bytes in the buffer, the parser is before a junk word or before the
\* next message, and its length tells which.
LEMMA WordIs ==
    ASSUME Inv, Len(buf) - pos >= 4
    PROVE  \E r \in Seq(Byte) :
              \/ Malformed /\ From(buf, pos + 4) \o wire = r /\ Queued(r, Len(got), sent)
              \/ /\ ~Malformed /\ Len(got) + 1 \in 1 .. Len(sent) /\ sent[Len(got) + 1] \in Samples
                 /\ Length = 1 + Len(Body(sent[Len(got) + 1]))
                 /\ From(buf, pos) \o wire = EncodeMessage(sent[Len(got) + 1]) \o r
                 /\ Queued(r, Len(got) + 1, sent)
<1> DEFINE q == From(buf, pos)
<1>1. TypeOK /\ Queued(Rest, Len(got), sent)
  BY DEF Inv
<1>2. sent \in Seq(Samples) /\ wire \in Seq(Byte) /\ buf \in Seq(Byte) /\ pos \in 0 .. Len(buf) /\ q \in Seq(Byte)
  BY <1>1, StreamIs
<1>3. /\ Len(q) = Len(buf) - pos /\ SubSeq(buf, pos + 1, pos + 4) = SubSeq(q, 1, 4)
      /\ From(q, 4) = From(buf, pos + 4)
  BY <1>2, ReadIs
<1>4. Rest = q \o wire
  BY DEF Rest
<1> HIDE DEF q
<1>5. Length = Num(SubSeq(q, 1, 4)) /\ Len(q) >= 4
  BY <1>3 DEF Length
<1>6. Rest # <<>>
  <2>1. Len(q \o wire) = Len(q) + Len(wire) /\ Len(wire) \in Nat
    BY <1>2, ConcatIs
  <2>2. Len(q \o wire) # 0
    BY <1>5, <2>1
  <2> QED
    BY <1>4, <2>2
<1>7. PICK r \in Seq(Byte) :
         \/ \E x \in Junk : Rest = Put(x, 4) \o r /\ Queued(r, Len(got), sent)
         \/ /\ Len(got) + 1 \in 1 .. Len(sent) /\ Rest = EncodeMessage(sent[Len(got) + 1]) \o r
            /\ Queued(r, Len(got) + 1, sent)
  BY <1>1, <1>2, <1>6, FirstQueued
<1>8. ASSUME NEW x \in Junk, Rest = Put(x, 4) \o r, Queued(r, Len(got), sent)
      PROVE  Malformed /\ From(buf, pos + 4) \o wire = r
  <2>1. q \o wire = Put(x, 4) \o r
    BY <1>4, <1>8
  <2>2. Num(SubSeq(q, 1, 4)) = x /\ From(q, 4) \o wire = r
    <3> DEFINE p == Put(x, 4)
    <3>1. q \in Seq(Byte) /\ wire \in Seq(Byte) /\ p \in Seq(Byte)
      BY <1>2, JunkIs
    <3>2. q \o wire = p \o r /\ Len(p) = 4 /\ Len(p) <= Len(q) /\ Num(p) = x
      BY <1>5, <2>1, JunkIs
    <3> HIDE DEF p
    <3>3. SubSeq(q, 1, Len(p)) = p /\ From(q, Len(p)) \o wire = r
      BY <3>1, <3>2, FrontIs
    <3> QED
      BY <3>2, <3>3
  <2>3. x = 0 \/ x > MaxMessage
    BY JunkIs
  <2>4. Malformed
    BY <1>5, <2>2, <2>3 DEF Malformed
  <2> QED
    BY <1>3, <2>2, <2>4
<1>9. ASSUME Len(got) + 1 \in 1 .. Len(sent), Rest = EncodeMessage(sent[Len(got) + 1]) \o r
      PROVE  ~Malformed /\ sent[Len(got) + 1] \in Samples /\ Length = 1 + Len(Body(sent[Len(got) + 1]))
  <2> DEFINE m == sent[Len(got) + 1]
  <2>1. m \in Samples
    BY <1>2, <1>9
  <2>2. q \o wire = EncodeMessage(m) \o r
    BY <1>4, <1>9
  <2> HIDE DEF m
  <2>3. Sendable(m)
    BY <2>1, WordsAssumption
  <2>4. Num(SubSeq(q, 1, 4)) = 1 + Len(Body(m))
    BY <1>2, <1>5, <2>2, <2>3, MessageFirst
  <2>5. Len(Body(m)) \in Nat /\ 1 + Len(Body(m)) <= MaxMessage /\ MaxMessage \in Nat
    BY <2>3, EncodedIs, CodecAssumption
  <2>6. ~Malformed
    BY <1>5, <2>4, <2>5 DEF Malformed
  <2> QED
    BY <1>5, <2>1, <2>4, <2>6 DEF m
<1>10. q \o wire = Rest
  BY <1>4
<1> QED
  BY <1>7, <1>8, <1>9, <1>10 DEF q

LEMMA SkipInv ==
    ASSUME Inv, Skip
    PROVE  Inv'
<1>1. /\ Len(buf) - pos >= 4 /\ Malformed /\ pos' = pos + 4
      /\ words' = words /\ sent' = sent /\ wire' = wire /\ buf' = buf /\ got' = got
  BY DEF Skip
<1>2. TypeOK /\ CameOut
  BY DEF Inv
<1>3. PICK r \in Seq(Byte) : From(buf, pos + 4) \o wire = r /\ Queued(r, Len(got), sent)
  BY <1>1, WordIs
<1>4. pos + 4 \in 0 .. Len(buf)
  <2>1. buf \in Seq(Byte) /\ pos \in 0 .. Len(buf)
    BY <1>2, StreamIs
  <2> QED
    BY <1>1, <2>1, ReadIs
<1>5. TypeOK'
  BY <1>1, <1>2, <1>4 DEF TypeOK
<1>6. CameOut'
  BY <1>1, <1>2 DEF CameOut
<1>7. Rest' = r
  BY <1>1, <1>3 DEF Rest
<1> QED
  BY <1>1, <1>3, <1>5, <1>6, <1>7 DEF Inv

LEMMA NextMessageInv ==
    ASSUME Inv, NextMessage
    PROVE  Inv'
<1> DEFINE b == SubSeq(buf, pos + 6, pos + 4 + Length)
           type == Type[buf[pos + 5]]
           end == pos + 4 + Length
           m == sent[Len(got) + 1]
           q == From(buf, pos)
           l == Len(Body(m))
<1>1. /\ Len(buf) - pos >= 4 /\ ~Malformed /\ Len(buf) - pos >= 4 + Length
      /\ got' = IF Accepts(type, b) THEN Append(got, Decode(type, b)) ELSE got
      /\ IF end > Compact THEN buf' = From(buf, end) /\ pos' = 0 ELSE pos' = end /\ buf' = buf
      /\ words' = words /\ sent' = sent /\ wire' = wire
  BY DEF NextMessage
<1>2. TypeOK /\ CameOut
  BY DEF Inv
<1>3. /\ sent \in Seq(Samples) /\ wire \in Seq(Byte) /\ buf \in Seq(Byte) /\ pos \in 0 .. Len(buf) /\ q \in Seq(Byte)
      /\ Len(sent) \in Nat /\ Len(buf) \in Nat
  BY <1>2, StreamIs
<1>4. Len(got) + 1 \in 1 .. Len(sent) /\ m \in Samples /\ Length = 1 + l
      /\ \E r \in Seq(Byte) : q \o wire = EncodeMessage(m) \o r /\ Queued(r, Len(got) + 1, sent)
  BY <1>1, WordIs
<1>5. PICK r \in Seq(Byte) : q \o wire = EncodeMessage(m) \o r /\ Queued(r, Len(got) + 1, sent)
  BY <1>4
<1>6. Sendable(m)
  BY <1>4, WordsAssumption
<1>7. l \in Nat /\ Type[Code(m.type)] = m.type
  BY <1>6, EncodedIs
<1>8. end = pos + (5 + l) /\ Len(buf) - pos >= 5 + l /\ Len(buf) - pos >= 4
  BY <1>1, <1>3, <1>4, <1>7
<1>9. Len(q) = Len(buf) - pos
  BY <1>1, <1>3, ReadIs
<1>10. /\ buf[pos + 5] = q[5] /\ SubSeq(buf, pos + 6, pos + (5 + l)) = SubSeq(q, 6, 5 + l)
       /\ pos + (5 + l) \in 0 .. Len(buf) /\ From(q, 5 + l) = From(buf, pos + (5 + l))
  <2> HIDE DEF l
  <2> QED
    BY <1>3, <1>7, <1>8, ReadMessageIs
<1>11. q[5] = Code(m.type) /\ SubSeq(q, 6, 5 + l) = Body(m) /\ From(q, 5 + l) \o wire = r
  <2>1. Len(q) >= 4 /\ Len(q) >= 5 + Len(Body(m))
    BY <1>8, <1>9
  <2> HIDE DEF m, q, l
  <2>2. /\ q[5] = Code(m.type) /\ SubSeq(q, 6, 5 + Len(Body(m))) = Body(m)
        /\ From(q, 5 + Len(Body(m))) \o wire = r
    BY <1>3, <1>5, <1>6, <2>1, MessageFirst, ZenonT(40)
  <2> QED
    BY <2>2 DEF l
<1>12. type = m.type /\ b = Body(m)
  BY <1>7, <1>8, <1>10, <1>11
<1>13. Accepts(m.type, Body(m)) /\ Decode(m.type, Body(m)) = Meant(m)
  BY <1>6, AllFaithful DEF Faithful
<1>14. got' = Append(got, Meant(m))
  BY <1>1, <1>12, <1>13
<1>15. end \in 0 .. Len(buf) /\ From(buf, end) \o wire = r
  BY <1>8, <1>10, <1>11
<1>16. Len(got) \in Nat /\ got \in Seq(Meanings) /\ \A i \in 1 .. Len(got) : got[i] = Meant(sent[i])
  BY <1>2 DEF CameOut
<1>17. /\ got' \in Seq(Meanings) /\ Len(got') = Len(got) + 1 /\ Len(got') <= Len(sent')
       /\ \A i \in 1 .. Len(got) : got'[i] = got[i]
       /\ got'[Len(got) + 1] = Meant(m)
  <2>1. Meant(m) \in Meanings
    BY <1>4 DEF Meanings
  <2> QED
    BY <1>1, <1>3, <1>4, <1>14, <1>16, <2>1, AppendProperties, SMTT(30)
<1>18. CameOut'
  <2>1. ASSUME NEW i \in 1 .. Len(got) + 1 PROVE got'[i] = Meant(sent'[i])
    <3>1. i \in 1 .. Len(got) \/ i = Len(got) + 1
      BY <1>16
    <3> QED
      BY <1>1, <1>16, <1>17, <3>1
  <2> HIDE DEF m
  <2> QED
    BY <1>17, <2>1 DEF CameOut, Meanings
<1> HIDE DEF b, type, end, m, q, l
<1>19. buf' \in Seq(Byte) /\ pos' \in 0 .. Len(buf') /\ From(buf', pos') = From(buf, end)
  <2>1. CASE end > Compact
    <3>1. buf' = From(buf, end) /\ pos' = 0
      BY <1>1, <2>1
    <3>2. From(buf, end) \in Seq(Byte)
      BY <1>3, <1>15, FromIs
    <3>3. SubSeq(buf', 1, Len(buf')) = buf' /\ Len(buf') \in Nat
      BY <3>1, <3>2, SubSeqFull
    <3>4. From(buf', 0) = buf'
      BY <3>3 DEF From
    <3> QED
      BY <3>1, <3>2, <3>3, <3>4
  <2>2. CASE ~(end > Compact)
    BY <1>1, <1>3, <1>15, <2>2
  <2> QED
    BY <2>1, <2>2
<1>20. TypeOK'
  BY <1>1, <1>2, <1>17, <1>19 DEF TypeOK, Byte
<1>21. Rest' = r
  BY <1>1, <1>15, <1>19 DEF Rest
<1>22. Queued(Rest, Len(got), sent)'
  BY <1>1, <1>5, <1>17, <1>21
<1> QED
  BY <1>18, <1>20, <1>22 DEF Inv

LEMMA NextInv == Inv /\ [Next]_vars => Inv'
<1> SUFFICES ASSUME Inv, [Next]_vars PROVE Inv'
  OBVIOUS
<1>1. CASE UNCHANGED vars
  BY <1>1 DEF vars, Inv, TypeOK, CameOut, Rest
<1> QED
  BY <1>1, SendInv, SendJunkInv, FeedInv, SkipInv, NextMessageInv DEF Next

LEMMA InvMessages == Inv => MessagesArrive
<1> SUFFICES ASSUME Inv PROVE MessagesArrive
  OBVIOUS
<1>1. TypeOK /\ CameOut /\ Queued(Rest, Len(got), sent)
  BY DEF Inv
<1>2. sent \in Seq(Samples) /\ wire \in Seq(Byte) /\ buf \in Seq(Byte) /\ pos \in 0 .. Len(buf) /\ Len(sent) \in Nat
  BY <1>1, StreamIs
<1>3. ASSUME NEW i \in DOMAIN got PROVE i \in DOMAIN sent /\ got[i] = Meant(sent[i])
  <2>1. DOMAIN got = 1 .. Len(got) /\ Len(got) \in Nat /\ DOMAIN sent = 1 .. Len(sent) /\ Len(got) <= Len(sent)
    BY <1>1, <1>2 DEF CameOut
  <2> QED
    BY <1>1, <1>2, <1>3, <2>1 DEF CameOut
<1>4. ASSUME wire = <<>>, Len(buf) = pos PROVE Len(got) = Len(sent)
  <2>1. From(buf, pos) = <<>>
    BY <1>2, <1>4, FromEnd
  <2>2. Rest = <<>>
    BY <1>4, <2>1 DEF Rest
  <2> QED
    BY <1>1, <1>2, <2>2, AllCameOut
<1> QED
  BY <1>3, <1>4 DEF MessagesArrive

\* The type invariant.
THEOREM TypeCorrect == Spec => []TypeOK
<1>1. Inv => TypeOK
  BY DEF Inv
<1> QED
  BY <1>1, InitInv, NextInv, PTL DEF Spec

\* Whatever is sent, and however it is cut, comes out as it was meant, in order
\* and in full.
THEOREM EveryMessageArrives == Spec => []MessagesArrive
  BY InitInv, NextInv, InvMessages, PTL DEF Spec

-----------------------------------------------------------------------------
(* What a HELLO turns into.                                                *)

\* A HELLO that came out is one that was sent.
LEMMA HelloOut ==
    ASSUME Inv, NEW i \in DOMAIN got, got[i].type = "Hello"
    PROVE  /\ Sendable(sent[i]) /\ sent[i].type = "Hello"
           /\ got[i].f = [k \in 1 .. 10 |-> IF k <= Len(sent[i].f) THEN sent[i].f[k] ELSE 0]
<1> DEFINE m == sent[i]
<1>1. got[i] = Meant(m) /\ i \in DOMAIN sent
  BY InvMessages DEF MessagesArrive
<1>2. m \in Samples
  BY <1>1, StreamIs DEF Inv
<1> HIDE DEF m
<1>3. Sendable(m)
  BY <1>2, WordsAssumption
<1>4. m = Message(m.type, m.f, m.data)
  BY <1>3, SendableIs
<1>5. ASSUME m.type # "Hello" PROVE Meant(m).type = m.type
  <2>1. m = [type |-> m.type, f |-> m.f, data |-> m.data]
    BY <1>4 DEF Message
  <2>2. \A x : [m EXCEPT !.f = x].type = m.type
    BY <2>1
  <2> QED
    BY <1>5, <2>2 DEF Meant
<1>6. m.type = "Hello"
  BY <1>1, <1>5
<1>7. Meant(m).f = [k \in 1 .. 10 |-> IF k <= Len(m.f) THEN m.f[k] ELSE 0]
  BY <1>6 DEF Meant, Message
<1> QED
  BY <1>1, <1>3, <1>6, <1>7 DEF m

LEMMA SignedIs ==
    ASSUME NEW x \in Int
    PROVE  Signed(x, 4) \in Int
<1> DEFINE w == 4
<1>1. w \in Nat
  OBVIOUS
<1> HIDE DEF w
<1>2. Limit[w] \in Int
  BY <1>1, LimitIs
<1>3. Signed(x, w) \in Int
  BY <1>2 DEF Signed
<1> QED
  BY <1>3 DEF w

LEMMA ModeHzIs ==
    ASSUME NEW fps \in Int
    PROVE  ModeHz(fps) \in 1 .. MaxModeHz
BY CodecAssumption DEF ModeHz, MaxModeHz

LEMMA ParamsFps ==
    ASSUME NEW f, \A k \in 1 .. 10 : f[k] \in Nat
    PROVE  SessionParams(f).fps \in Int
<1>1. f[5] \in Int
  OBVIOUS
<1>2. Signed(f[5], 4) \in Int
  BY <1>1, SignedIs
<1>3. Cli.fps \in Int
  BY CodecAssumption
<1> DEFINE g == IF f[5] > 0 THEN Signed(f[5], 4) ELSE Cli.fps
<1>4. SessionParams(f).fps = IF f[1] < 4 THEN Cli.fps ELSE g
  BY DEF SessionParams
<1> QED
  BY <1>2, <1>3, <1>4

LEMMA HelloFieldsIs ==
    ASSUME Inv, NEW i \in DOMAIN got, got[i].type = "Hello"
    PROVE  /\ \A k \in 1 .. 10 : got[i].f[k] \in Nat
           /\ \A k \in 1 .. 10 : got[i].f[k] = IF k <= Len(sent[i].f) THEN sent[i].f[k] ELSE 0
           /\ Len(sent[i].f) = Carried(got[i].f[1])
<1> DEFINE m == sent[i]
<1>1. /\ Sendable(m) /\ m.type = "Hello"
      /\ got[i].f = [k \in 1 .. 10 |-> IF k <= Len(m.f) THEN m.f[k] ELSE 0]
  BY HelloOut
<1> HIDE DEF m
<1>2. /\ m.f[1] \in Nat /\ Len(m.f) = Carried(m.f[1]) /\ Carried(m.f[1]) \in {4, 7, 8, 10}
      /\ \A k \in 1 .. Carried(m.f[1]) : m.f[k] \in Nat
  BY <1>1, HelloIs
<1> DEFINE g == got[i].f
<1>3. \A k \in 1 .. 10 : g[k] = IF k <= Len(m.f) THEN m.f[k] ELSE 0
  BY <1>1
<1> HIDE DEF g
<1>4. ASSUME NEW k \in 1 .. 10 PROVE g[k] \in Nat
  <2> DEFINE n == Len(m.f)
  <2>1. n \in Nat /\ \A j \in 1 .. n : m.f[j] \in Nat
    BY <1>2
  <2>2. g[k] = IF k <= n THEN m.f[k] ELSE 0
    BY <1>3
  <2> HIDE DEF n
  <2>3. k <= n => k \in 1 .. n
    BY <2>1
  <2> QED
    BY <2>1, <2>2, <2>3
<1>5. g[1] = m.f[1]
  BY <1>2, <1>3
<1> QED
  BY <1>2, <1>3, <1>4, <1>5 DEF m, g

LEMMA InvCut == Inv => CutHelloHarmless
<1> SUFFICES ASSUME Inv, sent # <<>>, Last(sent).type = "Hello"
             PROVE  \A n \in 0 .. Len(Body(Last(sent))) : Accepts("Hello", SubSeq(Body(Last(sent)), 1, n)) =>
                       /\ \A k \in 1 .. 10 : DecodeHello(SubSeq(Body(Last(sent)), 1, n)).f[k] \in {Meant(Last(sent)).f[k], 0}
                       /\ \A k \in 1 .. 2 : DecodeHello(SubSeq(Body(Last(sent)), 1, n)).data[k] \in {Meant(Last(sent)).data[k], <<>>}
  BY DEF CutHelloHarmless
<1> DEFINE m == Last(sent)
<1>1. m \in Samples
  <2>1. sent \in Seq(Samples)
    BY StreamIs DEF Inv
  <2>2. Len(sent) \in 1 .. Len(sent)
    BY <2>1
  <2>3. sent[Len(sent)] \in Samples
    BY <2>1, <2>2
  <2> QED
    BY <2>3 DEF Last
<1>2. Sendable(m)
  BY <1>1, WordsAssumption
<1> HIDE DEF m
<1>3. m.type = "Hello"
  BY DEF m
<1>4. ASSUME NEW n \in 0 .. Len(Body(m)), Accepts("Hello", SubSeq(Body(m), 1, n))
      PROVE  /\ \A k \in 1 .. 10 : DecodeHello(SubSeq(Body(m), 1, n)).f[k] \in {Meant(m).f[k], 0}
             /\ \A k \in 1 .. 2 : DecodeHello(SubSeq(Body(m), 1, n)).data[k] \in {Meant(m).data[k], <<>>}
  BY <1>2, <1>3, <1>4, CutHarmless
<1> QED
  BY <1>4 DEF m

LEMMA InvObeyed == Inv => HelloObeyed
<1> SUFFICES ASSUME Inv, NEW i \in DOMAIN got, got[i].type = "Hello"
             PROVE  LET f == got[i].f
                        asks == sent[i].f
                        p == SessionParams(f)
                        said(k) == Len(asks) >= k /\ asks[k] # 0
                    IN  /\ p.fps = IF said(5) THEN Signed(asks[5], 4) ELSE Cli.fps
                        /\ p.kbps = IF said(8) THEN Signed(asks[8], 4) ELSE Cli.kbps
                        /\ p.audio = IF Len(asks) < 7 THEN Cli.audio ELSE said(6)
                        /\ ModeHz(p.fps) \in 1 .. MaxModeHz
  BY DEF HelloObeyed
<1> DEFINE f == got[i].f
           asks == sent[i].f
           p == SessionParams(f)
<1>1. /\ \A k \in 1 .. 10 : f[k] \in Nat
      /\ \A k \in 1 .. 10 : f[k] = IF k <= Len(asks) THEN asks[k] ELSE 0
      /\ Len(asks) = Carried(f[1])
  BY HelloFieldsIs
<1> HIDE DEF f, asks
<1>2. f[1] \in Nat /\ f[5] \in Nat /\ f[6] \in Nat /\ f[8] \in Nat
  BY <1>1
<1>3. /\ f[5] = IF 5 <= Len(asks) THEN asks[5] ELSE 0
      /\ f[6] = IF 6 <= Len(asks) THEN asks[6] ELSE 0
      /\ f[8] = IF 8 <= Len(asks) THEN asks[8] ELSE 0
  BY <1>1
<1>4. ModeHz(p.fps) \in 1 .. MaxModeHz
  <2>1. p.fps \in Int
    BY <1>1, ParamsFps
  <2> QED
    BY <2>1, ModeHzIs
<1>5. CASE f[1] < 4
  <2>1. p = Cli
    BY <1>5 DEF SessionParams
  <2>2. Len(asks) = 4
    BY <1>1, <1>2, <1>5 DEF Carried
  <2> HIDE DEF p
  <2> QED
    BY <1>4, <2>1, <2>2 DEF f, asks, p
<1>6. CASE f[1] >= 4
  <2>1. /\ p.fps = IF f[5] > 0 THEN Signed(f[5], 4) ELSE Cli.fps
        /\ p.audio = (f[6] # 0)
        /\ p.kbps = IF f[1] >= 5 /\ f[8] > 0 THEN Signed(f[8], 4) ELSE Cli.kbps
    BY <1>2, <1>6 DEF SessionParams
  <2>2. Len(asks) \in {7, 8, 10} /\ (f[1] >= 5 <=> Len(asks) >= 8)
    BY <1>1, <1>2, <1>6 DEF Carried
  <2> HIDE DEF p
  <2>3. f[5] = asks[5] /\ f[6] = asks[6] /\ ~(Len(asks) < 7) /\ Len(asks) >= 5 /\ Len(asks) >= 6
    <3> DEFINE n == Len(asks)
    <3>1. n \in {7, 8, 10}
      BY <2>2
    <3> HIDE DEF n
    <3>2. 5 <= n /\ 6 <= n /\ ~(n < 7) /\ n >= 5 /\ n >= 6
      BY <3>1
    <3> QED
      BY <1>3, <3>2 DEF n
  <2>4. p.fps = IF Len(asks) >= 5 /\ asks[5] # 0 THEN Signed(asks[5], 4) ELSE Cli.fps
    <3>1. f[5] > 0 <=> asks[5] # 0
      BY <1>2, <2>3
    <3> QED
      BY <2>1, <2>3, <3>1
  <2>5. p.kbps = IF Len(asks) >= 8 /\ asks[8] # 0 THEN Signed(asks[8], 4) ELSE Cli.kbps
    <3>1. CASE Len(asks) >= 8
      <4>1. f[8] = asks[8]
        BY <1>3, <2>2, <3>1
      <4>2. f[8] > 0 <=> asks[8] # 0
        BY <1>2, <4>1
      <4> QED
        BY <2>1, <2>2, <3>1, <4>1, <4>2
    <3>2. CASE ~(Len(asks) >= 8)
      BY <2>1, <2>2, <3>2
    <3> QED
      BY <3>1, <3>2
  <2>6. p.audio = IF Len(asks) < 7 THEN Cli.audio ELSE Len(asks) >= 6 /\ asks[6] # 0
    BY <2>1, <2>3
  <2> QED
    BY <1>4, <2>4, <2>5, <2>6 DEF f, asks, p
<1> QED
  BY <1>2, <1>5, <1>6

\* Every HELLO is heard, whole or cut.
THEOREM EveryHelloHeard == Spec => []HelloHeard
<1>1. Inv => HelloHeard
  BY InvCut, InvObeyed DEF HelloHeard
<1> QED
  BY <1>1, InitInv, NextInv, PTL DEF Spec

-----------------------------------------------------------------------------
(* The mode in the EDID.                                                   *)

\* Numbers of w bits.
Bits4 == 0 .. 15
Bits8 == {x \in Nat : x <= 255}
Bits12 == {x \in Nat : x <= 4095}
Bits16 == {x \in Nat : x <= 65535}

LEMMA SmallNibble ==
    ASSUME NEW a \in Bits4
    PROVE  a % 16 = a /\ a \in Int
<1>1. a \in Int /\ 0 <= a /\ a <= 15
  BY SMT DEF Bits4
<1> QED
  BY <1>1, SMT

LEMMA SmallByte ==
    ASSUME NEW a \in Bits8
    PROVE  a % 256 = a /\ a \in Int
<1> DEFINE q == a \div 256
<1>1. a \in Int /\ 0 <= a /\ a <= 255
  BY SMT DEF Bits8
<1>2. q \in Int /\ 256 * q <= a /\ a < 256 * q + 256 /\ a % 256 = a - 256 * q
  BY <1>1, SMT
<1> HIDE DEF q
<1>3. q = 0
  BY <1>1, <1>2, SMT
<1> QED
  BY <1>1, <1>2, <1>3, SMT

\* A number in bytes: the low one, and the others.
LEMMA BytesIs ==
    ASSUME NEW x \in Nat
    PROVE  /\ x \div 256 \in Nat /\ x % 256 \in Nat /\ x = (x % 256) + 256 * (x \div 256) /\ x % 256 < 256
<1> DEFINE q == x \div 256
           l == x % 256
<1>1. q \in Int /\ 256 * q <= x /\ x < 256 * q + 256 /\ l = x - 256 * q
  BY SMT
<1> HIDE DEF q, l
<1>2. q >= 0 /\ l >= 0 /\ l < 256 /\ l \in Int /\ x = l + 256 * q
  BY <1>1, SMT
<1> QED
  BY <1>1, <1>2, SMT DEF q, l

\* The high nibble of a number of twelve bits.
LEMMA NibbleIs ==
    ASSUME NEW x \in Bits12
    PROVE  /\ x \div 256 \in Bits4 /\ (x \div 256) % 16 = x \div 256
           /\ x = (x % 256) + 256 * (x \div 256) /\ x % 256 \in Int /\ x \div 256 \in Int
<1> DEFINE q == x \div 256
           l == x % 256
<1>1. x \in Nat /\ x <= 4095
  BY SMT DEF Bits12
<1>2. q \in Nat /\ l \in Nat /\ x = l + 256 * q /\ l < 256
  BY <1>1, BytesIs, SMT
<1> HIDE DEF q, l
<1>3. q <= 15
  BY <1>1, <1>2, SMT
<1>4. q \in Bits4
  BY <1>2, <1>3, SMT DEF Bits4
<1>5. q % 16 = q
  BY <1>4, SmallNibble, SMT
<1>6. l \in Int /\ q \in Int
  BY <1>2, SMT
<1> QED
  BY <1>2, <1>4, <1>5, <1>6 DEF q, l

LEMMA NibblesIs ==
    ASSUME NEW a \in Bits4, NEW b \in Bits4
    PROVE  (a * 16 + b) \div 16 = a /\ (a * 16 + b) % 16 = b
<1>1. a \in Int /\ 0 <= a /\ a <= 15 /\ b \in Int /\ 0 <= b /\ b <= 15
  BY SMT DEF Bits4
<1> QED
  BY <1>1, SMT

\* Two numbers of twelve bits, of which the high nibbles share a byte.
LEMMA NibblesRead ==
    ASSUME NEW x \in Bits12, NEW y \in Bits12
    PROVE  /\ Low(x) + 256 * (High(x, y) \div 16) = x
           /\ Low(y) + 256 * (High(x, y) % 16) = y
<1> DEFINE a == x \div 256
           b == y \div 256
           l == x % 256
           m == y % 256
<1>1. a \in Bits4 /\ a % 16 = a /\ x = l + 256 * a /\ l \in Int /\ a \in Int
  BY NibbleIs
<1>2. b \in Bits4 /\ b % 16 = b /\ y = m + 256 * b /\ m \in Int /\ b \in Int
  BY NibbleIs
<1>3. High(x, y) = (a % 16) * 16 + (b % 16) /\ Low(x) = l /\ Low(y) = m
  BY SMT DEF High, Low
<1> HIDE DEF a, b, l, m
<1>4. High(x, y) = a * 16 + b
  BY <1>1, <1>2, <1>3, SMT
<1>5. (a * 16 + b) \div 16 = a /\ (a * 16 + b) % 16 = b
  BY <1>1, <1>2, NibblesIs, SMT
<1>6. High(x, y) \div 16 = a /\ High(x, y) % 16 = b
  BY <1>4, <1>5, SMT
<1>7. Low(x) + 256 * (High(x, y) \div 16) = l + 256 * a /\ Low(y) + 256 * (High(x, y) % 16) = m + 256 * b
  BY <1>3, <1>6, Zenon
<1> QED
  BY <1>1, <1>2, <1>7, SMT

\* A clock of ten kHz and no more than 655.35 MHz, in two bytes.
LEMMA ClockRead ==
    ASSUME NEW k \in Bits16
    PROVE  10 * (Low((10 * k) \div 10) + 256 * Low((10 * k) \div 2560)) = 10 * k
<1> DEFINE a == k \div 256
           l == k % 256
           c == Low((10 * k) \div 10)
           d == Low((10 * k) \div 2560)
<1>1. k \in Nat /\ k <= 65535
  BY SMTT(30) DEF Bits16
<1>2. a \in Nat /\ l \in Nat /\ k = l + 256 * a
  BY <1>1, BytesIs, SMT
<1>3. c = l
  <2>1. (10 * k) \div 10 = k
    BY <1>1, SMT
  <2> QED
    BY <2>1, SMT DEF Low
<1>4. d = a % 256
  <2>1. (10 * k) \div 2560 = k \div 256
    BY <1>1, SMT
  <2> QED
    BY <2>1, SMT DEF Low
<1> HIDE DEF a, l, c, d
<1>5. a <= 255
  BY <1>1, <1>2, SMT
<1>6. a \in Bits8
  BY <1>2, <1>5, SMT DEF Bits8
<1>7. a % 256 = a
  BY <1>6, SmallByte, SMT
<1>8. 10 * (c + 256 * d) = 10 * k
  BY <1>2, <1>3, <1>4, <1>7, SMT
<1> QED
  BY <1>8, SMT DEF c, d

\* A mode that fits the fields of a DTD.
FitsDtd(t) ==
    /\ \E k \in Bits16 : t.clock = 10 * k
    /\ t.hActive \in Bits12 /\ t.hBlank \in Bits12 /\ t.vActive \in Bits12 /\ t.vBlank \in Bits12
    /\ t.hFront \in Bits8 /\ t.hSync \in Bits8 /\ t.vFront \in Bits4 /\ t.vSync \in Bits4
    /\ t.hMm \in Bits12 /\ t.vMm \in Bits12
IsTiming(t) ==
    t = [clock |-> t.clock, hActive |-> t.hActive, hBlank |-> t.hBlank, hFront |-> t.hFront, hSync |-> t.hSync,
         vActive |-> t.vActive, vBlank |-> t.vBlank, vFront |-> t.vFront, vSync |-> t.vSync,
         hMm |-> t.hMm, vMm |-> t.vMm]

\* It is read as it was written.
LEMMA DtdRead ==
    ASSUME NEW t, FitsDtd(t), IsTiming(t)
    PROVE  ReadDtd(WriteDtd(t)) = t
<1> DEFINE d == WriteDtd(t)
<1>1. /\ d[1] = Low(t.clock \div 10) /\ d[2] = Low(t.clock \div 2560)
      /\ d[3] = Low(t.hActive) /\ d[4] = Low(t.hBlank) /\ d[5] = High(t.hActive, t.hBlank)
      /\ d[6] = Low(t.vActive) /\ d[7] = Low(t.vBlank) /\ d[8] = High(t.vActive, t.vBlank)
  BY SMT DEF WriteDtd
<1>2. /\ d[9] = Low(t.hFront) /\ d[10] = Low(t.hSync) /\ d[11] = (t.vFront % 16) * 16 + (t.vSync % 16)
      /\ d[13] = Low(t.hMm) /\ d[14] = Low(t.vMm) /\ d[15] = High(t.hMm, t.vMm)
  BY SMT DEF WriteDtd
<1> HIDE DEF d
<1>3. 10 * (d[1] + 256 * d[2]) = t.clock
  <2>1. PICK k \in Bits16 : t.clock = 10 * k
    BY SMT DEF FitsDtd
  <2>2. 10 * (Low((10 * k) \div 10) + 256 * Low((10 * k) \div 2560)) = 10 * k
    BY ClockRead, SMT
  <2> QED
    BY <1>1, <2>1, <2>2, SMT
<1>4. d[3] + 256 * (d[5] \div 16) = t.hActive /\ d[4] + 256 * (d[5] % 16) = t.hBlank
  <2>1. t.hActive \in Bits12 /\ t.hBlank \in Bits12
    BY SMT DEF FitsDtd
  <2> QED
    BY <1>1, <2>1, NibblesRead, SMT
<1>5. d[6] + 256 * (d[8] \div 16) = t.vActive /\ d[7] + 256 * (d[8] % 16) = t.vBlank
  <2>1. t.vActive \in Bits12 /\ t.vBlank \in Bits12
    BY SMT DEF FitsDtd
  <2> QED
    BY <1>1, <2>1, NibblesRead, SMT
<1>6. d[13] + 256 * (d[15] \div 16) = t.hMm /\ d[14] + 256 * (d[15] % 16) = t.vMm
  <2>1. t.hMm \in Bits12 /\ t.vMm \in Bits12
    BY SMT DEF FitsDtd
  <2> QED
    BY <1>2, <2>1, NibblesRead, SMT
<1>7. d[9] = t.hFront /\ d[10] = t.hSync
  <2>1. t.hFront \in Bits8 /\ t.hSync \in Bits8
    BY SMT DEF FitsDtd
  <2>2. t.hFront % 256 = t.hFront /\ t.hSync % 256 = t.hSync
    BY <2>1, SmallByte
  <2> QED
    BY <1>2, <2>2 DEF Low
<1>8. d[11] \div 16 = t.vFront /\ d[11] % 16 = t.vSync
  <2>1. t.vFront \in Bits4 /\ t.vSync \in Bits4
    BY SMT DEF FitsDtd
  <2>2. t.vFront % 16 = t.vFront /\ t.vSync % 16 = t.vSync
    BY <2>1, SmallNibble
  <2>3. d[11] = t.vFront * 16 + t.vSync
    BY <1>2, <2>1, <2>2, SMT
  <2> QED
    BY <2>1, <2>3, NibblesIs, SMT
<1>9. ReadDtd(d) =
          [clock |-> t.clock, hActive |-> t.hActive, hBlank |-> t.hBlank, hFront |-> t.hFront, hSync |-> t.hSync,
           vActive |-> t.vActive, vBlank |-> t.vBlank, vFront |-> t.vFront, vSync |-> t.vSync,
           hMm |-> t.hMm, vMm |-> t.vMm]
  BY <1>3, <1>4, <1>5, <1>6, <1>7, <1>8, SMT DEF ReadDtd
<1> QED
  BY <1>9, Zenon DEF IsTiming, d

-----------------------------------------------------------------------------
\* The dimensions of a mode are positive: a HELLO without any gets those of the
\* command line.
LEMMA DimsIs ==
    ASSUME NEW f, f[2] \in Int, f[3] \in Int
    PROVE  Dims(f).w \in Nat \ {0} /\ Dims(f).h \in Nat \ {0}
<1> DEFINE w == Signed(f[2], 4)
           h == Signed(f[3], 4)
           turn == (SessionParams(f).orientation \in {1, 3}) # (h > w)
           or(x, default) == IF x <= 0 THEN default ELSE x
<1>1. w \in Int /\ h \in Int
  BY SignedIs
<1>2. Cli.w \in Nat \ {0} /\ Cli.h \in Nat \ {0}
  BY CodecAssumption
<1>3. /\ Dims(f).w = or(IF turn THEN h ELSE w, Cli.w)
      /\ Dims(f).h = or(IF turn THEN w ELSE h, Cli.h)
  BY DEF Dims
<1> HIDE DEF w, h, turn
<1>4. (IF turn THEN h ELSE w) \in Int /\ (IF turn THEN w ELSE h) \in Int
  BY <1>1
<1>5. ASSUME NEW x \in Int, NEW d \in Nat \ {0} PROVE or(x, d) \in Nat \ {0}
  OBVIOUS
<1> HIDE DEF or
<1> QED
  BY <1>2, <1>3, <1>4, <1>5

LEMMA VSyncIs == \A w, h : VSync(w, h) \in {4, 5, 6, 7, 10}
<1> SUFFICES ASSUME NEW w, NEW h PROVE VSync(w, h) \in {4, 5, 6, 7, 10}
  OBVIOUS
<1> DEFINE ratios == <<[x |-> 4, y |-> 3, vs |-> 4], [x |-> 16, y |-> 9, vs |-> 5],
                       [x |-> 16, y |-> 10, vs |-> 6], [x |-> 5, y |-> 4, vs |-> 7],
                       [x |-> 15, y |-> 9, vs |-> 7]>>
           near(r) == LET d == w * r.y - r.x * h IN 50 * (IF d < 0 THEN -d ELSE d) < r.y * h
           fits == {i \in DOMAIN ratios : near(ratios[i])}
           first == CHOOSE i \in fits : \A j \in fits : i <= j
<1>1. VSync(w, h) = IF fits = {} THEN 10 ELSE ratios[first].vs
  BY DEF VSync
<1>2. DOMAIN ratios = 1 .. 5
  OBVIOUS
<1>3. \A i \in 1 .. 5 : ratios[i].vs \in {4, 5, 6, 7}
  OBVIOUS
<1>4. fits \subseteq 1 .. 5
  BY <1>2
<1> HIDE DEF ratios, fits, near
<1>5. ASSUME fits # {} PROVE first \in fits
  <2>1. \E i \in fits : \A j \in fits : i <= j
    <3>1. ASSUME 1 \in fits PROVE \A j \in fits : 1 <= j
      BY <1>4
    <3>2. ASSUME 1 \notin fits, 2 \in fits PROVE \A j \in fits : 2 <= j
      BY <1>4, <3>2
    <3>3. ASSUME 1 \notin fits, 2 \notin fits, 3 \in fits PROVE \A j \in fits : 3 <= j
      BY <1>4, <3>3
    <3>4. ASSUME 1 \notin fits, 2 \notin fits, 3 \notin fits, 4 \in fits PROVE \A j \in fits : 4 <= j
      BY <1>4, <3>4
    <3>5. ASSUME 1 \notin fits, 2 \notin fits, 3 \notin fits, 4 \notin fits
          PROVE  5 \in fits /\ \A j \in fits : 5 <= j
      <4>1. \A j \in fits : j = 5
        BY <1>4, <3>5
      <4> QED
        BY <1>5, <4>1
    <3> QED
      BY <3>1, <3>2, <3>3, <3>4, <3>5
  <2> QED
    BY <2>1
<1>6. fits # {} => first \in 1 .. 5
  BY <1>4, <1>5
<1> HIDE DEF first
<1> QED
  BY <1>1, <1>3, <1>6

Lines(h, hz) == CeilDiv(460 * (h + 3) * hz, 1000000 - 460 * hz)

\* The blanking lines: no more than 240 at 4095 lines and 120 Hz.
LEMMA LinesIs ==
    ASSUME NEW h \in Nat, h <= 4095, NEW hz \in Nat, hz <= 120
    PROVE  Lines(h, hz) \in Nat /\ Lines(h, hz) <= 240
<1> DEFINE a == 460 * (h + 3) * hz
           b == 1000000 - 460 * hz
           n == (a + b - 1) \div b
<1>1. b \in Int /\ b >= 944800 /\ b <= 1000000
  BY SMT
<1>2. a \in Int /\ a >= 0 /\ a <= 226209600
  <2> DEFINE c == h + 3
  <2>1. c \in Nat /\ c <= 4098
    BY SMT
  <2> HIDE DEF c
  <2>2. c * hz \in Nat /\ c * hz <= 4098 * 120
    BY <2>1, SMT
  <2> DEFINE e == c * hz
  <2>3. 460 * c * hz = 460 * e
    BY <2>1, SMT
  <2> HIDE DEF e
  <2>4. 460 * e \in Int /\ 460 * e >= 0 /\ 460 * e <= 226209600
    BY <2>2, SMT DEF e
  <2> QED
    BY <2>3, <2>4, SMT DEF c
<1> HIDE DEF a, b
<1>3. n \in Int /\ b * n <= a + b - 1 /\ a + b - 1 < b * n + b
  <2> DEFINE x == a + b - 1
  <2>1. x \in Int /\ b \in Nat \ {0}
    BY <1>1, <1>2, SMT
  <2> HIDE DEF x
  <2>2. x \div b \in Int /\ b * (x \div b) <= x /\ x < b * (x \div b) + b
    BY <2>1, DivIs, SMT
  <2> QED
    BY <2>2, SMT DEF x
<1> HIDE DEF n
<1>4. n >= 0
  <2>1. ASSUME n <= -1 PROVE FALSE
    <3>1. b * n <= b * (-1)
      BY <1>1, <1>3, <2>1, SMT
    <3>2. b * n + b <= 0
      BY <1>1, <1>3, <3>1, SMT
    <3> QED
      BY <1>1, <1>2, <1>3, <3>2, SMT
  <2> QED
    BY <1>3, <2>1, SMT
<1>5. n <= 240
  <2>1. ASSUME n >= 241 PROVE FALSE
    <3>1. b * n >= b * 241
      BY <1>1, <1>3, <2>1, SMT
    <3>2. b * 241 <= a + b - 1
      BY <1>1, <1>2, <1>3, <3>1, SMT
    <3> QED
      BY <1>1, <1>2, <3>2, SMT
  <2> QED
    BY <1>3, <2>1, SMT
<1> QED
  BY <1>3, <1>4, <1>5, SMT DEF n, a, b, Lines, CeilDiv

MaxClock == 655350

\* The clock is written in units of 10 kHz, in a word.
LEMMA ClockIsWord ==
    ASSUME NEW y \in Nat, 10 * y <= MaxClock
    PROVE  y \in Bits16
<1>1. y <= 65535
  BY SMT DEF MaxClock
<1> QED
  BY <1>1, SMT DEF Bits16

\* Every mode that is written fits the fields of the DTD.
LEMMA TimingFits ==
    ASSUME NEW w \in Nat \ {0}, NEW h \in Nat \ {0}, NEW hz \in 1 .. MaxModeHz,
           Timing(w, h, hz).clock <= MaxClock, Timing(w, h, hz).hActive < 4096, Timing(w, h, hz).vActive < 4096
    PROVE  FitsDtd(Timing(w, h, hz)) /\ IsTiming(Timing(w, h, hz))
<1> DEFINE t == Timing(w, h, hz)
           hActive == (w \div 8) * 8
           vs == VSync(w, h)
           lines == Lines(h, hz)
           vBlank == IF lines < 4 + vs THEN 4 + vs ELSE lines
           x == (hActive + 160) * (h + vBlank) * hz
           k == x \div 250000
           mmw == (508 * w + 960) \div 1920
           mmh == (508 * h + 960) \div 1920
<1>1. t = [clock |-> k * 250,
           hActive |-> hActive, hBlank |-> 160, hFront |-> 48, hSync |-> 32,
           vActive |-> h, vBlank |-> vBlank, vFront |-> 3, vSync |-> vs,
           hMm |-> mmw, vMm |-> mmh]
  BY SMT DEF Timing, Lines
<1>2. hz \in Nat /\ hz <= 120 /\ hz >= 1
  BY SMT DEF MaxModeHz
<1> HIDE DEF t, hActive, vs, lines, vBlank, x, k, mmw, mmh
<1>3. /\ t.clock = k * 250 /\ t.hActive = hActive /\ t.hBlank = 160 /\ t.hFront = 48 /\ t.hSync = 32
      /\ t.vActive = h /\ t.vBlank = vBlank /\ t.vFront = 3 /\ t.vSync = vs /\ t.hMm = mmw /\ t.vMm = mmh
  BY <1>1, SMT
<1>4. t.clock <= MaxClock /\ t.hActive < 4096 /\ t.vActive < 4096
  BY SMT DEF t
<1>5. h \in Nat /\ h <= 4095 /\ h >= 1
  BY <1>3, <1>4, SMT
<1>6. hActive \in Nat /\ hActive <= 4095 /\ w < hActive + 8
  <2> DEFINE q == w \div 8
  <2>1. q \in Int /\ 8 * q <= w /\ w < 8 * q + 8 /\ w \in Nat
    BY SMT
  <2>2. hActive = q * 8
    BY SMT DEF hActive
  <2> HIDE DEF q
  <2>3. q >= 0
    BY <2>1, SMT
  <2> QED
    BY <1>3, <1>4, <2>1, <2>2, <2>3, SMT
<1>7. lines \in Nat /\ lines <= 240
  BY <1>2, <1>5, LinesIs, SMT DEF lines
<1>8. vs \in Nat /\ vs <= 10
  <2>1. vs \in {4, 5, 6, 7, 10}
    BY VSyncIs, SMT DEF vs
  <2> QED
    BY <2>1, SMT
<1>9. vBlank \in Nat /\ vBlank <= 240
  BY <1>7, <1>8, SMT DEF vBlank
<1>10. k \in Nat
  <2>1. x \in Nat
    <3> DEFINE a == hActive + 160
               b == h + vBlank
    <3>1. a \in Nat /\ b \in Nat
      BY <1>5, <1>6, <1>9, SMT
    <3> HIDE DEF a, b
    <3>2. a * b * hz \in Nat
      BY <1>2, <3>1, SMT
    <3> QED
      BY <3>2, SMT DEF x, a, b
  <2> DEFINE p == 250000
  <2>2. p \in Nat \ {0}
    BY SMT
  <2>3. k = x \div p
    BY SMT DEF k
  <2> HIDE DEF p
  <2>4. k \in Int /\ p * k <= x /\ x < p * k + p
    BY <2>1, <2>2, <2>3, DivIs, SMT
  <2>5. ASSUME k <= -1 PROVE FALSE
    <3>1. p * k <= p * (-1)
      BY <2>2, <2>4, <2>5, SMT
    <3> QED
      BY <2>1, <2>2, <2>4, <3>1, SMT
  <2> QED
    BY <2>4, <2>5, SMT
<1>11. 25 * k \in Bits16 /\ t.clock = 10 * (25 * k)
  <2>1. k * 250 <= MaxClock
    BY <1>3, <1>4, SMT
  <2>2. 25 * k \in Bits16
    <3>1. 25 * k \in Nat
      BY <1>10, SMT
    <3>2. 10 * (25 * k) <= MaxClock
      BY <1>10, <2>1, SMT
    <3> QED
      BY <3>1, <3>2, ClockIsWord, SMTT(30)
  <2>3. k * 250 = 10 * (25 * k)
    BY <1>10, SMT
  <2> QED
    BY <1>3, <2>2, <2>3, SMT
<1>12. mmw \in Nat /\ mmw <= 4095
  <2>1. mmw \in Int /\ 1920 * mmw <= 508 * w + 960 /\ 508 * w + 960 < 1920 * mmw + 1920
    BY SMT DEF mmw
  <2> QED
    BY <1>6, <2>1, SMT
<1>13. mmh \in Nat /\ mmh <= 4095
  <2>1. mmh \in Int /\ 1920 * mmh <= 508 * h + 960 /\ 508 * h + 960 < 1920 * mmh + 1920
    BY SMT DEF mmh
  <2> QED
    BY <1>5, <2>1, SMT
<1>14. hActive \in Bits12 /\ h \in Bits12 /\ vBlank \in Bits12 /\ mmw \in Bits12 /\ mmh \in Bits12 /\ vs \in Bits4
  BY <1>5, <1>6, <1>8, <1>9, <1>12, <1>13, SMTT(30) DEF Bits12, Bits4
<1>15. 160 \in Bits12 /\ 48 \in Bits8 /\ 32 \in Bits8 /\ 3 \in Bits4
  BY SMT DEF Bits12, Bits8, Bits4
<1>16. FitsDtd(t)
  BY <1>3, <1>11, <1>14, <1>15, SMT DEF FitsDtd
<1>17. IsTiming(t)
  BY <1>1, <1>3, SMT DEF IsTiming
<1> QED
  BY <1>16, <1>17, SMT DEF t

LEMMA Timing1080Fits == FitsDtd(Timing1080p60) /\ IsTiming(Timing1080p60)
<1> DEFINE t == Timing1080p60
<1>1. /\ t.clock = 10 * 14850 /\ t.hActive = 1920 /\ t.hBlank = 280 /\ t.hFront = 88 /\ t.hSync = 44
      /\ t.vActive = 1080 /\ t.vBlank = 45 /\ t.vFront = 4 /\ t.vSync = 5 /\ t.hMm = 480 /\ t.vMm = 270
  BY SMT DEF Timing1080p60
<1>2. 14850 \in Bits16
  BY SMT DEF Bits16
<1>3. /\ 1920 \in Bits12 /\ 280 \in Bits12 /\ 1080 \in Bits12 /\ 45 \in Bits12 /\ 480 \in Bits12 /\ 270 \in Bits12
      /\ 88 \in Bits8 /\ 44 \in Bits8 /\ 4 \in Bits4 /\ 5 \in Bits4
  BY SMT DEF Bits12, Bits8, Bits4
<1>4. IsTiming(t)
  BY SMT DEF Timing1080p60, IsTiming
<1> HIDE DEF t
<1>5. FitsDtd(t)
  BY <1>1, <1>2, <1>3, SMT DEF FitsDtd
<1> QED
  BY <1>4, <1>5, SMT DEF t

LEMMA InvMode == Inv => ModeSurvives
<1> SUFFICES ASSUME Inv, NEW i \in DOMAIN got, got[i].type = "Hello",
                    Mode(got[i].f).clock <= 655350, Mode(got[i].f).hActive < 4096, Mode(got[i].f).vActive < 4096
             PROVE  ReadDtd(WriteDtd(Mode(got[i].f))) = Mode(got[i].f)
  BY SMT DEF ModeSurvives
<1> DEFINE f == got[i].f
           w == Dims(f).w
           h == Dims(f).h
           hz == ModeHz(SessionParams(f).fps)
           t == Mode(f)
<1>1. \A k \in 1 .. 10 : f[k] \in Nat
  BY HelloFieldsIs, SMTT(30)
<1> HIDE DEF f
<1>2. w \in Nat \ {0} /\ h \in Nat \ {0}
  <2>1. f[2] \in Int /\ f[3] \in Int
    BY <1>1, SMT
  <2> QED
    BY <2>1, DimsIs, SMT
<1>3. hz \in 1 .. MaxModeHz
  <2>1. SessionParams(f).fps \in Int
    BY <1>1, ParamsFps, SMT
  <2> QED
    BY <2>1, ModeHzIs, SMT
<1>4. t = IF <<w, h, hz>> = <<1920, 1080, 60>> THEN Timing1080p60 ELSE Timing(w, h, hz)
  BY SMT DEF Mode, ModeTiming
<1>5. t.clock <= MaxClock /\ t.hActive < 4096 /\ t.vActive < 4096
  BY SMT DEF f, MaxClock
<1> HIDE DEF w, h, hz, t
<1>6. FitsDtd(t) /\ IsTiming(t)
  <2>1. CASE t = Timing1080p60
    BY <2>1, Timing1080Fits, SMT
  <2>2. CASE t = Timing(w, h, hz)
    BY <1>2, <1>3, <1>5, <2>2, TimingFits, SMT
  <2> QED
    BY <1>4, <2>1, <2>2, SMT
<1>7. ReadDtd(WriteDtd(t)) = t
  BY <1>6, DtdRead, SMT
<1> QED
  BY <1>7, SMT DEF t, f

\* The desktop reads every mode that the fields of the EDID can hold.
THEOREM EveryModeSurvives == Spec => []ModeSurvives
  BY InitInv, NextInv, InvMode, PTL DEF Spec

=============================================================================
