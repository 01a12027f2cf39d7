--------------------------- MODULE RpcRouterProofs ---------------------------
(***************************************************************************)
(* Safety of the RPC calls for every number of URLs, of attempts and of    *)
(* callers.  The loops over providers, roles and URLs are folds of the     *)
(* library: the lemmas of the first part say what each of them leaves in   *)
(* its list, and above them stand                                          *)
(*                                                                         *)
(*   RouterInv  where a call of sendRpc is in its walk, and what it has    *)
(*              tried before, at and behind that place;                    *)
(*   SenderInv  which endpoints a caller of the round-robin sender has     *)
(*              asked, counted from where it started.                      *)
(***************************************************************************)
EXTENDS RpcRouter, LibraryFacts

-----------------------------------------------------------------------------
(* The loops. *)

\* F has, for each k, what the first k elements have pushed.
FlatMapsTo(F, U, s, f) ==
  /\ F \in [0 .. Len(s) -> Seq(U)]
  /\ F[0] = <<>>
  /\ \A k \in 1 .. Len(s) : F[k] = F[k - 1] \o f[s[k]]
  /\ FlatMap(s, f) = F[Len(s)]

\* FlatMap is a fold.
LEMMA FlatMapFold ==
  ASSUME NEW U, NEW T, NEW s \in Seq(T), NEW f, \A x \in ToSet(s) : f[x] \in Seq(U)
  PROVE  \E F : FlatMapsTo(F, U, s, f)
<1> DEFINE n == Len(s)
           step == [y \in Seq(U) \X (1 .. n) |-> y[1] \o f[s[y[2]]]]
           Eq(h) == h = [S \in SUBSET (1 .. n) |->
                           IF S = {} THEN <<>> ELSE h[S \ {Max(S)}] \o f[s[Max(S)]]]
<1>1. n \in Nat /\ DOMAIN s = 1 .. n /\ \A k \in 1 .. n : f[s[k]] \in Seq(U)
  BY DEF ToSet
<1>2. FlatMap(s, f) = (CHOOSE h : Eq(h))[1 .. n]
  BY <1>1 DEF FlatMap, FoldLeft, MapThenFoldSet
<1>3. \A x \in Seq(U), k \in 1 .. n : step[<<x, k>>] = x \o f[s[k]]
  OBVIOUS
<1>4. \A x \in Seq(U), k \in 1 .. n : x \o f[s[k]] \in Seq(U)
  BY <1>1
<1>5. \A S \in SUBSET (1 .. n) : S # {} => Max(S) \in 1 .. n
  <2>1. ASSUME NEW S \in SUBSET (1 .. n), S # {} PROVE Max(S) \in S
    <3>1. S \subseteq 0 .. n
      OBVIOUS
    <3> QED
      BY <1>1, <2>1, <3>1, MaxOf
  <2> QED
    BY <2>1
<1> HIDE DEF step, n
<1>6. PICK h \in [SUBSET (1 .. n) -> Seq(U)] : IsFold(h, step, <<>>, n)
  <2>1. \A x \in Seq(U), k \in 1 .. n : step[<<x, k>>] \in Seq(U)
    <3>1. ASSUME NEW x \in Seq(U), NEW k \in 1 .. n PROVE step[<<x, k>>] \in Seq(U)
      <4>1. step[<<x, k>>] = x \o f[s[k]] /\ x \o f[s[k]] \in Seq(U)
        BY <1>3, <1>4, Zenon
      <4> QED
        BY <4>1, Zenon
    <3> QED
      BY <3>1
  <2>2. <<>> \in Seq(U)
    OBVIOUS
  <2> QED
    BY <1>1, <2>1, <2>2, FoldExists
<1>7. Eq(h)
  <2>1. ASSUME NEW S \in SUBSET (1 .. n)
        PROVE  h[S] = IF S = {} THEN <<>> ELSE h[S \ {Max(S)}] \o f[s[Max(S)]]
    <3>1. S \ {Max(S)} \in SUBSET (1 .. n)
      OBVIOUS
    <3> QED
      BY <1>3, <1>5, <1>6, <3>1 DEF IsFold
  <2> QED
    BY <2>1
<1>8. PICK g : g = (CHOOSE k : Eq(k)) /\ Eq(g)
  <2> HIDE DEF Eq
  <2> QED
    BY <1>7
<1>9. ASSUME NEW S \in SUBSET (1 .. n)
      PROVE  g[S] = IF S = {} THEN <<>> ELSE g[S \ {Max(S)}] \o f[s[Max(S)]]
  BY <1>8
<1>10. g[1 .. 0] = <<>>
  <2>1. 1 .. 0 = {} /\ {} \in SUBSET (1 .. n)
    OBVIOUS
  <2> QED
    BY <1>9, <2>1
<1>11. ASSUME NEW k \in 1 .. n PROVE g[1 .. k] = g[1 .. (k - 1)] \o f[s[k]]
  <2>1. /\ 1 .. k \in SUBSET (1 .. n) /\ 1 .. k # {}
        /\ Max(1 .. k) = k /\ (1 .. k) \ {k} = 1 .. (k - 1)
    BY <1>1, Prefix
  <2> QED
    BY <1>9, <2>1
<1>12. ASSUME NEW k \in 0 .. n PROVE g[1 .. k] \in Seq(U)
  <2> DEFINE G == {l \in 0 .. n : g[1 .. l] \in Seq(U)}
  <2>1. 0 \in G
    <3>1. <<>> \in Seq(U) /\ 0 \in 0 .. n
      BY <1>1
    <3> QED
      BY <1>10, <3>1
  <2>2. ASSUME NEW l \in 1 .. n, l - 1 \in G PROVE l \in G
    <3>1. g[1 .. (l - 1)] \in Seq(U) /\ l \in 0 .. n
      BY <1>1, <2>2
    <3>2. g[1 .. l] = g[1 .. (l - 1)] \o f[s[l]] /\ f[s[l]] \in Seq(U)
      BY <1>1, <1>11
    <3>3. g[1 .. l] \in Seq(U)
      BY <3>1, <3>2
    <3> QED
      BY <3>1, <3>3
  <2> HIDE DEF G
  <2>3. k \in G
    BY <1>1, <2>1, <2>2, InductionUpTo
  <2> QED
    BY <2>3 DEF G
<1> DEFINE F == [k \in 0 .. n |-> g[1 .. k]]
<1>13. F \in [0 .. n -> Seq(U)] /\ F[0] = <<>> /\ F[n] = g[1 .. n]
  BY <1>1, <1>10, <1>12
<1>14. ASSUME NEW k \in 1 .. n PROVE F[k] = F[k - 1] \o f[s[k]]
  <2>1. k \in 0 .. n /\ k - 1 \in 0 .. n
    BY <1>1
  <2> QED
    BY <1>11, <2>1
<1> HIDE DEF F, Eq
<1>15. FlatMap(s, f) = F[n]
  BY <1>2, <1>8, <1>13, Zenon
<1> QED
  BY <1>13, <1>14, <1>15 DEF n, FlatMapsTo

\* What comes of a list's elements is what f has for one of them, and nothing comes
\* twice that f does not have twice.
LEMMA FlatMapFacts ==
  ASSUME NEW U, NEW T, NEW s \in Seq(T), NEW f, \A x \in ToSet(s) : f[x] \in Seq(U)
  PROVE  /\ FlatMap(s, f) \in Seq(U)
         /\ \A x \in ToSet(FlatMap(s, f)) : \E k \in 1 .. Len(s) : x \in ToSet(f[s[k]])
         /\ /\ IsInjective(s)
            /\ \A x \in ToSet(s) : IsInjective(f[x])
            /\ \A x, y \in ToSet(s) : x # y => ToSet(f[x]) \cap ToSet(f[y]) = {}
            => IsInjective(FlatMap(s, f))
<1>0. PICK F : FlatMapsTo(F, U, s, f)
  BY FlatMapFold
<1>1. /\ F \in [0 .. Len(s) -> Seq(U)]
      /\ F[0] = <<>>
      /\ \A k \in 1 .. Len(s) : F[k] = F[k - 1] \o f[s[k]]
      /\ FlatMap(s, f) = F[Len(s)]
  BY <1>0 DEF FlatMapsTo
<1> DEFINE n == Len(s)
           From(k) == \A x \in ToSet(F[k]) : \E l \in 1 .. k : x \in ToSet(f[s[l]])
           Once == /\ IsInjective(s)
                   /\ \A x \in ToSet(s) : IsInjective(f[x])
                   /\ \A x, y \in ToSet(s) : x # y => ToSet(f[x]) \cap ToSet(f[y]) = {}
           G == {k \in 0 .. n : From(k) /\ (Once => IsInjective(F[k]))}
<1>2. n \in Nat /\ DOMAIN s = 1 .. n /\ \A k \in 1 .. n : s[k] \in ToSet(s)
  BY DEF ToSet
<1>3. 0 \in G
  <2>1. ToSet(F[0]) = {} /\ IsInjective(F[0])
    BY <1>1 DEF ToSet, IsInjective
  <2> QED
    BY <1>2, <2>1
<1>4. ASSUME NEW k \in 1 .. n, k - 1 \in G PROVE k \in G
  <2> DEFINE a == F[k - 1]
             b == f[s[k]]
  <2>1. F[k] = a \o b /\ a \in Seq(U) /\ b \in Seq(U) /\ k - 1 \in 0 .. n /\ k \in 0 .. n
    <3>1. k \in 0 .. n /\ k - 1 \in 0 .. n
      BY <1>2
    <3>2. F[k] = a \o b
      BY <1>1
    <3> QED
      BY <1>1, <1>2, <3>1, <3>2
  <2>2. From(k - 1) /\ (Once => IsInjective(a))
    BY <1>4
  <2> HIDE DEF a, b, From, Once
  <2>3. /\ DOMAIN (a \o b) = 1 .. (Len(a) + Len(b)) /\ Len(a) \in Nat /\ Len(b) \in Nat
        /\ DOMAIN a = 1 .. Len(a) /\ DOMAIN b = 1 .. Len(b)
        /\ \A i \in 1 .. (Len(a) + Len(b)) :
             (a \o b)[i] = IF i <= Len(a) THEN a[i] ELSE b[i - Len(a)]
    BY <2>1
  <2>4. ASSUME NEW i \in DOMAIN (a \o b)
        PROVE  \/ i \in DOMAIN a /\ (a \o b)[i] = a[i] /\ a[i] \in ToSet(a)
               \/ /\ i > Len(a) /\ i - Len(a) \in DOMAIN b
                  /\ (a \o b)[i] = b[i - Len(a)] /\ b[i - Len(a)] \in ToSet(b)
    BY <2>3 DEF ToSet
  <2>5. From(k)
    <3>1. ASSUME NEW x \in ToSet(a \o b) PROVE \E l \in 1 .. k : x \in ToSet(f[s[l]])
      <4>1. x \in ToSet(a) \/ x \in ToSet(b)
        BY <2>4 DEF ToSet
      <4>2. CASE x \in ToSet(a)
        BY <1>2, <2>2, <4>2 DEF From, a
      <4>3. CASE x \in ToSet(b)
        BY <1>2, <4>3 DEF b
      <4> QED
        BY <4>1, <4>2, <4>3
    <3> QED
      BY <2>1, <3>1 DEF From
  <2>6. ASSUME Once PROVE IsInjective(F[k])
    <3>1. IsInjective(a) /\ IsInjective(b)
      BY <1>2, <2>2, <2>6 DEF Once, b
    <3>2. ToSet(a) \cap ToSet(b) = {}
      <4>1. ASSUME NEW l \in 1 .. (k - 1) PROVE ToSet(f[s[l]]) \cap ToSet(b) = {}
        <5>1. l \in 1 .. n /\ l # k
          BY <1>2
        <5>2. s[l] # s[k]
          BY <1>2, <2>6, <5>1 DEF Once, IsInjective
        <5> QED
          BY <1>2, <2>6, <5>1, <5>2 DEF Once, b
      <4> QED
        BY <2>2, <4>1 DEF From, a
    <3>3. ASSUME NEW i \in DOMAIN (a \o b), NEW j \in DOMAIN (a \o b), (a \o b)[i] = (a \o b)[j]
          PROVE  i = j
      <4>1. CASE i \in DOMAIN a /\ j \in DOMAIN a
        BY <2>3, <3>1, <3>3, <4>1 DEF IsInjective
      <4>2. CASE i > Len(a) /\ j > Len(a)
        <5>1. i - Len(a) = j - Len(a)
          BY <2>3, <2>4, <3>1, <3>3, <4>2 DEF IsInjective
        <5> QED
          BY <2>3, <4>2, <5>1
      <4>3. CASE i \in DOMAIN a /\ j > Len(a)
        BY <2>3, <2>4, <3>2, <3>3, <4>3
      <4>4. CASE j \in DOMAIN a /\ i > Len(a)
        BY <2>3, <2>4, <3>2, <3>3, <4>4
      <4> QED
        BY <2>4, <4>1, <4>2, <4>3, <4>4
    <3> QED
      BY <2>1, <3>3 DEF IsInjective
  <2> QED
    BY <2>1, <2>5, <2>6
<1>5. n \in G
  <2>1. n \in Nat
    BY <1>2
  <2> HIDE DEF G, n
  <2>2. 0 .. n \subseteq G
    BY <1>3, <1>4, <2>1, InductionUpTo
  <2> QED
    BY <2>1, <2>2
<1>6. From(n) /\ (Once => IsInjective(F[n]))
  BY <1>5
<1>7. F[n] \in Seq(U) /\ FlatMap(s, f) = F[n]
  BY <1>1, <1>2
<1> QED
  BY <1>6, <1>7

\* The first c of a list have all that f has for the k-th element, and nothing but what f
\* has for the elements up to it.
Cuts(out, s, f, k, c) ==
  /\ \A x \in ToSet(f[s[k]]) : \E i \in 1 .. c : out[i] = x
  /\ \A i \in 1 .. c : \E l \in 1 .. k : out[i] \in ToSet(f[s[l]])

\* Whatever f has for an element is in the list, and before it is nothing but what f has
\* for that element and those before it.
LEMMA FlatMapOrder ==
  ASSUME NEW U, NEW T, NEW s \in Seq(T), NEW f, \A x \in ToSet(s) : f[x] \in Seq(U)
  PROVE  \A k \in 1 .. Len(s) :
           \E c \in 0 .. Len(FlatMap(s, f)) : Cuts(FlatMap(s, f), s, f, k, c)
<1>0. PICK F : FlatMapsTo(F, U, s, f)
  BY FlatMapFold
<1>1. /\ F \in [0 .. Len(s) -> Seq(U)]
      /\ F[0] = <<>>
      /\ \A k \in 1 .. Len(s) : F[k] = F[k - 1] \o f[s[k]]
      /\ FlatMap(s, f) = F[Len(s)]
  BY <1>0 DEF FlatMapsTo
<1> DEFINE n == Len(s)
           From(m) == \A i \in 1 .. Len(F[m]) : \E l \in 1 .. m : F[m][i] \in ToSet(f[s[l]])
           Cut(k, m) == \E c \in 0 .. Len(F[m]) :
             /\ \A x \in ToSet(f[s[k]]) : \E i \in 1 .. c : F[m][i] = x
             /\ \A i \in 1 .. c : \E l \in 1 .. k : F[m][i] \in ToSet(f[s[l]])
           G == {m \in 0 .. n : From(m) /\ \A k \in 1 .. m : Cut(k, m)}
<1>2. n \in Nat /\ DOMAIN s = 1 .. n /\ \A k \in 1 .. n : s[k] \in ToSet(s)
  BY DEF ToSet
<1>3. 0 \in G
  <2>1. Len(F[0]) = 0
    BY <1>1
  <2> QED
    BY <1>2, <2>1
<1>4. ASSUME NEW m \in 1 .. n, m - 1 \in G PROVE m \in G
  <2> DEFINE a == F[m - 1]
             b == f[s[m]]
             w == F[m]
  <2>1. w = a \o b /\ a \in Seq(U) /\ b \in Seq(U) /\ m - 1 \in 0 .. n /\ m \in 0 .. n
    <3>1. m \in 0 .. n /\ m - 1 \in 0 .. n
      BY <1>2
    <3>2. F[m] = a \o b
      BY <1>1
    <3> QED
      BY <1>1, <1>2, <3>1, <3>2
  <2>2. /\ \A i \in 1 .. Len(a) : \E l \in 1 .. (m - 1) : a[i] \in ToSet(f[s[l]])
        /\ \A k \in 1 .. (m - 1) : Cut(k, m - 1)
    BY <1>4
  <2>3. ASSUME NEW k \in 1 .. (m - 1)
        PROVE  \E c \in 0 .. Len(a) :
                 /\ \A x \in ToSet(f[s[k]]) : \E i \in 1 .. c : a[i] = x
                 /\ \A i \in 1 .. c : \E l \in 1 .. k : a[i] \in ToSet(f[s[l]])
    BY <2>2
  <2> HIDE DEF a, b, w, Cut
  <2>4. /\ w \in Seq(U) /\ Len(w) = Len(a) + Len(b) /\ Len(a) \in Nat /\ Len(b) \in Nat
        /\ \A i \in 1 .. Len(a) : w[i] = a[i]
        /\ \A i \in 1 .. Len(b) : w[Len(a) + i] = b[i]
        /\ \A i \in 1 .. Len(w) : i \in 1 .. Len(a) \/ i - Len(a) \in 1 .. Len(b)
        /\ DOMAIN b = 1 .. Len(b)
    BY <2>1
  <2>5. \A i \in 1 .. Len(w) : \E l \in 1 .. m : w[i] \in ToSet(f[s[l]])
    <3> SUFFICES ASSUME NEW i \in 1 .. Len(w) PROVE \E l \in 1 .. m : w[i] \in ToSet(f[s[l]])
      OBVIOUS
    <3>1. CASE i \in 1 .. Len(a)
      <4>1. PICK l \in 1 .. (m - 1) : a[i] \in ToSet(f[s[l]])
        BY <2>2, <3>1
      <4>2. l \in 1 .. m
        BY <1>2
      <4> QED
        BY <2>4, <3>1, <4>1, <4>2
    <3>2. CASE i - Len(a) \in 1 .. Len(b)
      <4>1. w[i] = b[i - Len(a)]
        <5>1. i = Len(a) + (i - Len(a))
          BY <2>4
        <5> QED
          BY <2>4, <3>2, <5>1
      <4>2. b[i - Len(a)] \in ToSet(b)
        BY <2>4, <3>2 DEF ToSet
      <4>3. m \in 1 .. m
        BY <1>2
      <4> QED
        BY <4>1, <4>2, <4>3 DEF b
    <3> QED
      BY <2>4, <3>1, <3>2
  <2>6. ASSUME NEW k \in 1 .. (m - 1) PROVE Cut(k, m)
    <3>1. PICK c \in 0 .. Len(a) :
            /\ \A x \in ToSet(f[s[k]]) : \E i \in 1 .. c : a[i] = x
            /\ \A i \in 1 .. c : \E l \in 1 .. k : a[i] \in ToSet(f[s[l]])
      BY <2>3
    <3>2. c \in 0 .. Len(w) /\ \A i \in 1 .. c : w[i] = a[i]
      BY <2>4
    <3>3. /\ \A x \in ToSet(f[s[k]]) : \E i \in 1 .. c : w[i] = x
          /\ \A i \in 1 .. c : \E l \in 1 .. k : w[i] \in ToSet(f[s[l]])
      BY <3>1, <3>2
    <3> QED
      BY <3>2, <3>3 DEF Cut, w
  <2>7. Cut(m, m)
    <3>1. Len(w) \in 0 .. Len(w)
      BY <2>4
    <3>2. ASSUME NEW x \in ToSet(f[s[m]]) PROVE \E i \in 1 .. Len(w) : w[i] = x
      <4>1. PICK j \in 1 .. Len(b) : b[j] = x
        BY <2>4, <3>2 DEF ToSet, b
      <4>2. Len(a) + j \in 1 .. Len(w) /\ w[Len(a) + j] = x
        BY <2>4, <4>1
      <4> QED
        BY <4>2
    <3> QED
      BY <2>5, <3>1, <3>2 DEF Cut, w
  <2>8. \A k \in 1 .. m : Cut(k, m)
    <3>1. \A k \in 1 .. m : k \in 1 .. (m - 1) \/ k = m
      BY <1>2
    <3> QED
      BY <2>6, <2>7, <3>1
  <2> QED
    BY <2>1, <2>5, <2>8 DEF w
<1>5. n \in G
  <2>1. n \in Nat
    BY <1>2
  <2> HIDE DEF G, n
  <2>2. 0 .. n \subseteq G
    BY <1>3, <1>4, <2>1, InductionUpTo
  <2> QED
    BY <2>1, <2>2
<1>6. \A k \in 1 .. n : \E c \in 0 .. Len(F[n]) : Cuts(F[n], s, f, k, c)
  <2>1. ASSUME NEW k \in 1 .. n
        PROVE  \E c \in 0 .. Len(F[n]) :
                 /\ \A x \in ToSet(f[s[k]]) : \E i \in 1 .. c : F[n][i] = x
                 /\ \A i \in 1 .. c : \E l \in 1 .. k : F[n][i] \in ToSet(f[s[l]])
    BY <1>5
  <2> QED
    BY <2>1 DEF Cuts
<1>7. FlatMap(s, f) = F[n]
  BY <1>1
<1>8. \A k \in 1 .. Len(s) : \E c \in 0 .. Len(F[n]) : Cuts(F[n], s, f, k, c)
  BY <1>6
<1> HIDE DEF Cut, From, G, n
<1> QED
  BY <1>7, <1>8

\* The element is pushed unless one of its key is there.
Push(out, x, key) ==
  IF \E k \in DOMAIN out : key[out[k]] = key[x] THEN out ELSE Append(out, x)

\* F has, for each k, what is left of the first k elements.
DedupesTo(F, T, s, key) ==
  /\ F \in [0 .. Len(s) -> Seq(T)]
  /\ F[0] = <<>>
  /\ \A k \in 1 .. Len(s) : F[k] = Push(F[k - 1], s[k], key)
  /\ Dedupe(s, key) = F[Len(s)]

\* Dedupe is a fold.
LEMMA DedupeFold ==
  ASSUME NEW T, NEW s \in Seq(T), NEW key
  PROVE  \E F : DedupesTo(F, T, s, key)
<1> DEFINE n == Len(s)
           step == [y \in Seq(T) \X (1 .. n) |-> Push(y[1], s[y[2]], key)]
           Eq(h) == h = [S \in SUBSET (1 .. n) |->
                           IF S = {} THEN <<>> ELSE Push(h[S \ {Max(S)}], s[Max(S)], key)]
<1>1. n \in Nat /\ DOMAIN s = 1 .. n /\ \A k \in 1 .. n : s[k] \in T
  OBVIOUS
<1>2. Dedupe(s, key) = (CHOOSE h : Eq(h))[1 .. n]
  BY <1>1 DEF Dedupe, Push, FoldLeft, MapThenFoldSet
<1>3. \A x \in Seq(T), k \in 1 .. n : step[<<x, k>>] = Push(x, s[k], key)
  OBVIOUS
<1>4. \A x \in Seq(T), k \in 1 .. n : Push(x, s[k], key) \in Seq(T)
  BY <1>1 DEF Push
<1>5. \A S \in SUBSET (1 .. n) : S # {} => Max(S) \in 1 .. n
  <2>1. ASSUME NEW S \in SUBSET (1 .. n), S # {} PROVE Max(S) \in S
    <3>1. S \subseteq 0 .. n
      OBVIOUS
    <3> QED
      BY <1>1, <2>1, <3>1, MaxOf
  <2> QED
    BY <2>1
<1> HIDE DEF step, n
<1>6. PICK h \in [SUBSET (1 .. n) -> Seq(T)] : IsFold(h, step, <<>>, n)
  <2>1. \A x \in Seq(T), k \in 1 .. n : step[<<x, k>>] \in Seq(T)
    <3>1. ASSUME NEW x \in Seq(T), NEW k \in 1 .. n PROVE step[<<x, k>>] \in Seq(T)
      <4>1. step[<<x, k>>] = Push(x, s[k], key) /\ Push(x, s[k], key) \in Seq(T)
        BY <1>3, <1>4, Zenon
      <4> QED
        BY <4>1, Zenon
    <3> QED
      BY <3>1
  <2>2. <<>> \in Seq(T)
    OBVIOUS
  <2> QED
    BY <1>1, <2>1, <2>2, FoldExists
<1>7. Eq(h)
  <2>1. ASSUME NEW S \in SUBSET (1 .. n)
        PROVE  h[S] = IF S = {} THEN <<>> ELSE Push(h[S \ {Max(S)}], s[Max(S)], key)
    <3>1. S \ {Max(S)} \in SUBSET (1 .. n)
      OBVIOUS
    <3> QED
      BY <1>3, <1>5, <1>6, <3>1 DEF IsFold
  <2> QED
    BY <2>1
<1>8. PICK g : g = (CHOOSE k : Eq(k)) /\ Eq(g)
  <2> HIDE DEF Eq
  <2> QED
    BY <1>7
<1>9. ASSUME NEW S \in SUBSET (1 .. n)
      PROVE  g[S] = IF S = {} THEN <<>> ELSE Push(g[S \ {Max(S)}], s[Max(S)], key)
  BY <1>8
<1>10. g[1 .. 0] = <<>>
  <2>1. 1 .. 0 = {} /\ {} \in SUBSET (1 .. n)
    OBVIOUS
  <2> QED
    BY <1>9, <2>1
<1>11. ASSUME NEW k \in 1 .. n PROVE g[1 .. k] = Push(g[1 .. (k - 1)], s[k], key)
  <2>1. /\ 1 .. k \in SUBSET (1 .. n) /\ 1 .. k # {}
        /\ Max(1 .. k) = k /\ (1 .. k) \ {k} = 1 .. (k - 1)
    BY <1>1, Prefix
  <2> QED
    BY <1>9, <2>1
<1>12. ASSUME NEW k \in 0 .. n PROVE g[1 .. k] \in Seq(T)
  <2> DEFINE G == {l \in 0 .. n : g[1 .. l] \in Seq(T)}
  <2>1. 0 \in G
    <3>1. <<>> \in Seq(T) /\ 0 \in 0 .. n
      BY <1>1
    <3> QED
      BY <1>10, <3>1
  <2>2. ASSUME NEW l \in 1 .. n, l - 1 \in G PROVE l \in G
    <3>1. g[1 .. (l - 1)] \in Seq(T) /\ l \in 0 .. n
      BY <1>1, <2>2
    <3>2. g[1 .. l] = Push(g[1 .. (l - 1)], s[l], key) /\ s[l] \in T
      BY <1>1, <1>11
    <3>3. g[1 .. l] \in Seq(T)
      BY <3>1, <3>2 DEF Push
    <3> QED
      BY <3>1, <3>3
  <2> HIDE DEF G
  <2>3. k \in G
    BY <1>1, <2>1, <2>2, InductionUpTo
  <2> QED
    BY <2>3 DEF G
<1> DEFINE F == [k \in 0 .. n |-> g[1 .. k]]
<1>13. F \in [0 .. n -> Seq(T)] /\ F[0] = <<>> /\ F[n] = g[1 .. n]
  BY <1>1, <1>10, <1>12
<1>14. ASSUME NEW k \in 1 .. n PROVE F[k] = Push(F[k - 1], s[k], key)
  <2>1. k \in 0 .. n /\ k - 1 \in 0 .. n
    BY <1>1
  <2> QED
    BY <1>11, <2>1
<1> HIDE DEF F, Eq
<1>15. Dedupe(s, key) = F[n]
  BY <1>2, <1>8, <1>13, Zenon
<1> QED
  BY <1>13, <1>14, <1>15 DEF n, DedupesTo

\* What is left comes before any element of a later one's key.
InOrder(out, s, key) ==
  \A i, j \in DOMAIN out : i < j =>
    \E l \in DOMAIN s : /\ out[i] = s[l]
                        /\ \A m \in DOMAIN s : key[s[m]] = key[out[j]] => l < m

\* What is left has the list's keys, each once, on elements of the list, in the order in
\* which the keys come up.
LEMMA DedupeFacts ==
  ASSUME NEW T, NEW s \in Seq(T), NEW key, NEW out, out = Dedupe(s, key)
  PROVE  /\ out \in Seq(T)
         /\ \A i, j \in DOMAIN out : key[out[i]] = key[out[j]] => i = j
         /\ \A i \in DOMAIN out : \E l \in DOMAIN s : out[i] = s[l]
         /\ \A l \in DOMAIN s : \E i \in DOMAIN out : key[out[i]] = key[s[l]]
         /\ InOrder(out, s, key)
<1>0. PICK F : DedupesTo(F, T, s, key)
  BY DedupeFold
<1>1. /\ F \in [0 .. Len(s) -> Seq(T)]
      /\ F[0] = <<>>
      /\ \A k \in 1 .. Len(s) : F[k] = Push(F[k - 1], s[k], key)
      /\ Dedupe(s, key) = F[Len(s)]
  BY <1>0 DEF DedupesTo
<1> DEFINE n == Len(s)
           Once(k) == \A i, j \in DOMAIN F[k] : key[F[k][i]] = key[F[k][j]] => i = j
           From(k) == \A i \in DOMAIN F[k] : \E l \in 1 .. k : F[k][i] = s[l]
           All(k)  == \A l \in 1 .. k : \E i \in DOMAIN F[k] : key[F[k][i]] = key[s[l]]
           First(k) == \A i, j \in DOMAIN F[k] : i < j =>
             \E l \in 1 .. k : /\ F[k][i] = s[l]
                               /\ \A m \in 1 .. n : key[s[m]] = key[F[k][j]] => l < m
           G == {k \in 0 .. n : Once(k) /\ From(k) /\ All(k) /\ First(k)}
<1>2. n \in Nat /\ DOMAIN s = 1 .. n /\ \A k \in 1 .. n : s[k] \in T
  OBVIOUS
<1>3. 0 \in G
  BY <1>1, <1>2
<1>4. ASSUME NEW k \in 1 .. n, k - 1 \in G PROVE k \in G
  <2> DEFINE a == F[k - 1]
  <2>1. F[k] = Push(a, s[k], key) /\ a \in Seq(T) /\ k - 1 \in 0 .. n /\ k \in 0 .. n
    <3>1. k \in 0 .. n /\ k - 1 \in 0 .. n
      BY <1>2
    <3> QED
      BY <1>1, <3>1
  <2>2. /\ \A i, j \in DOMAIN a : key[a[i]] = key[a[j]] => i = j
        /\ \A i \in DOMAIN a : \E l \in 1 .. (k - 1) : a[i] = s[l]
        /\ \A l \in 1 .. (k - 1) : \E i \in DOMAIN a : key[a[i]] = key[s[l]]
        /\ \A i, j \in DOMAIN a : i < j =>
             \E l \in 1 .. (k - 1) : /\ a[i] = s[l]
                                     /\ \A m \in 1 .. n : key[s[m]] = key[a[j]] => l < m
    BY <1>4
  <2>3. \A l \in 1 .. k : l \in 1 .. (k - 1) \/ l = k
    BY <1>2
  <2>4. 1 .. (k - 1) \subseteq 1 .. k /\ k \in 1 .. k
    BY <1>2
  <2> HIDE DEF a
  <2>5. CASE \E i \in DOMAIN a : key[a[i]] = key[s[k]]
    <3>1. F[k] = a
      BY <2>1, <2>5 DEF Push
    <3>2. Once(k)
      BY <2>2, <3>1
    <3>3. From(k)
      BY <2>2, <2>4, <3>1
    <3>4. All(k)
      BY <2>2, <2>3, <2>5, <3>1
    <3>5. First(k)
      BY <2>2, <2>4, <3>1
    <3> QED
      BY <2>1, <3>2, <3>3, <3>4, <3>5
  <2>6. CASE ~ \E i \in DOMAIN a : key[a[i]] = key[s[k]]
    <3>1. F[k] = Append(a, s[k])
      BY <2>1, <2>6 DEF Push
    <3>2. /\ DOMAIN F[k] = 1 .. (Len(a) + 1) /\ DOMAIN a = 1 .. Len(a) /\ Len(a) \in Nat
          /\ F[k][Len(a) + 1] = s[k] /\ \A i \in 1 .. Len(a) : F[k][i] = a[i]
      BY <1>2, <2>1, <3>1
    <3>3. \A i \in DOMAIN F[k] : \/ i \in DOMAIN a /\ F[k][i] = a[i]
                                 \/ i = Len(a) + 1 /\ F[k][i] = s[k]
      BY <3>2
    <3>4. Once(k)
      BY <2>2, <2>6, <3>3, SMTT(40)
    <3>5. From(k)
      BY <2>2, <2>4, <3>3, SMTT(40)
    <3>6. All(k)
      <4>1. DOMAIN a \subseteq DOMAIN F[k] /\ Len(a) + 1 \in DOMAIN F[k]
        BY <3>2
      <4>2. ASSUME NEW l \in 1 .. (k - 1) PROVE \E i \in DOMAIN F[k] : key[F[k][i]] = key[s[l]]
        <5>1. PICK i \in DOMAIN a : key[a[i]] = key[s[l]]
          BY <2>2
        <5>2. i \in DOMAIN F[k] /\ F[k][i] = a[i]
          BY <3>2, <4>1
        <5> QED
          BY <5>1, <5>2
      <4> QED
        BY <2>3, <3>2, <4>1, <4>2
    <3>7. First(k)
      <4> SUFFICES ASSUME NEW i \in DOMAIN F[k], NEW j \in DOMAIN F[k], i < j
                   PROVE  \E l \in 1 .. k :
                            /\ F[k][i] = s[l]
                            /\ \A m \in 1 .. n : key[s[m]] = key[F[k][j]] => l < m
        OBVIOUS
      <4>1. i \in DOMAIN a /\ F[k][i] = a[i]
        BY <3>2
      <4>2. CASE j \in DOMAIN a
        <5>1. F[k][j] = a[j]
          BY <3>2, <4>2
        <5>2. PICK l \in 1 .. (k - 1) : /\ a[i] = s[l]
                                        /\ \A m \in 1 .. n : key[s[m]] = key[a[j]] => l < m
          BY <2>2, <4>1, <4>2
        <5> QED
          BY <2>4, <4>1, <5>1, <5>2
      <4>3. CASE j \notin DOMAIN a
        <5>1. F[k][j] = s[k]
          BY <3>3, <4>3
        <5>2. PICK l \in 1 .. (k - 1) : a[i] = s[l]
          BY <2>2, <4>1
        <5>3. ASSUME NEW m \in 1 .. n, key[s[m]] = key[s[k]] PROVE l < m
          <6>1. m \notin 1 .. (k - 1)
            BY <2>2, <2>6, <5>3
          <6> QED
            BY <1>2, <5>2, <6>1
        <5> QED
          BY <2>4, <4>1, <5>1, <5>2, <5>3
      <4> QED
        BY <4>2, <4>3
    <3> QED
      BY <2>1, <3>4, <3>5, <3>6, <3>7
  <2> QED
    BY <2>5, <2>6
<1>5. n \in G
  <2>1. n \in Nat
    BY <1>2
  <2> HIDE DEF G, n
  <2>2. 0 .. n \subseteq G
    BY <1>3, <1>4, <2>1, InductionUpTo
  <2> QED
    BY <2>1, <2>2
<1>6. Once(n) /\ From(n) /\ All(n) /\ First(n)
  BY <1>5
<1>7. F[n] \in Seq(T) /\ Dedupe(s, key) = F[n]
  BY <1>1, <1>2
<1>8. /\ \A i, j \in DOMAIN F[n] : key[F[n][i]] = key[F[n][j]] => i = j
      /\ \A i \in DOMAIN F[n] : \E l \in DOMAIN s : F[n][i] = s[l]
      /\ \A l \in DOMAIN s : \E i \in DOMAIN F[n] : key[F[n][i]] = key[s[l]]
      /\ \A i, j \in DOMAIN F[n] : i < j =>
           \E l \in DOMAIN s : /\ F[n][i] = s[l]
                               /\ \A m \in DOMAIN s : key[s[m]] = key[F[n][j]] => l < m
  <2>1. /\ \A i, j \in DOMAIN F[n] : key[F[n][i]] = key[F[n][j]] => i = j
        /\ \A i \in DOMAIN F[n] : \E l \in 1 .. n : F[n][i] = s[l]
        /\ \A l \in 1 .. n : \E i \in DOMAIN F[n] : key[F[n][i]] = key[s[l]]
        /\ \A i, j \in DOMAIN F[n] : i < j =>
             \E l \in 1 .. n : /\ F[n][i] = s[l]
                               /\ \A m \in 1 .. n : key[s[m]] = key[F[n][j]] => l < m
    BY <1>6
  <2>2. DOMAIN s = 1 .. n
    BY <1>2
  <2> HIDE DEF n
  <2>3. \A i \in DOMAIN F[n] : \E l \in DOMAIN s : F[n][i] = s[l]
    BY <2>1, <2>2
  <2>4. \A l \in DOMAIN s : \E i \in DOMAIN F[n] : key[F[n][i]] = key[s[l]]
    BY <2>1, <2>2
  <2>5. ASSUME NEW i \in DOMAIN F[n], NEW j \in DOMAIN F[n], i < j
        PROVE  \E l \in DOMAIN s : /\ F[n][i] = s[l]
                                   /\ \A m \in DOMAIN s : key[s[m]] = key[F[n][j]] => l < m
    <3>1. PICK l \in 1 .. n : /\ F[n][i] = s[l]
                              /\ \A m \in 1 .. n : key[s[m]] = key[F[n][j]] => l < m
      BY <2>1, <2>5
    <3> QED
      BY <2>2, <3>1
  <2> QED
    BY <2>1, <2>3, <2>4, <2>5
<1>9. InOrder(F[n], s, key)
  BY <1>8 DEF InOrder
<1>10. out = F[n]
  BY <1>7
<1> HIDE DEF n
<1> QED
  BY <1>7, <1>8, <1>9, <1>10

\* A filter keeps the elements of the list that are in the set.
LEMMA KeptFacts ==
  ASSUME NEW T, NEW s \in Seq(T), NEW S
  PROVE  /\ Kept(s, S) \in Seq(T)
         /\ ToSet(Kept(s, S)) = ToSet(s) \cap S
<1> DEFINE f == [x \in ToSet(s) |-> IF x \in S THEN <<x>> ELSE <<>>]
<1>1. \A x \in ToSet(s) : /\ f[x] \in Seq(T)
                          /\ ToSet(f[x]) = {x} \cap S
  <2>1. ToSet(s) \subseteq T
    BY DEF ToSet
  <2>2. ASSUME NEW x \in ToSet(s) PROVE f[x] \in Seq(T) /\ ToSet(f[x]) = {x} \cap S
    <3>1. f[x] = IF x \in S THEN <<x>> ELSE <<>>
      OBVIOUS
    <3>2. <<x>> \in Seq(T) /\ <<>> \in Seq(T) /\ ToSet(<<x>>) = {x} /\ ToSet(<<>>) = {}
      BY <2>1 DEF ToSet
    <3> HIDE DEF f
    <3> QED
      BY <3>1, <3>2
  <2> QED
    BY <2>2
<1> HIDE DEF f
<1>2. FlatMap(s, f) \in Seq(T) /\ \A x \in ToSet(FlatMap(s, f)) : \E k \in 1 .. Len(s) : x \in ToSet(f[s[k]])
  BY <1>1, FlatMapFacts
<1>3. \A k \in 1 .. Len(s) : s[k] \in ToSet(s)
  BY DEF ToSet
<1>4. Kept(s, S) = FlatMap(s, f)
  BY DEF Kept, f
<1>5. ASSUME NEW x \in ToSet(FlatMap(s, f)) PROVE x \in ToSet(s) \cap S
  <2>1. PICK k \in 1 .. Len(s) : x \in ToSet(f[s[k]])
    BY <1>2
  <2>2. s[k] \in ToSet(s) /\ ToSet(f[s[k]]) = {s[k]} \cap S
    BY <1>1, <1>3
  <2> QED
    BY <2>1, <2>2
<1>6. ASSUME NEW x \in ToSet(s) \cap S PROVE x \in ToSet(FlatMap(s, f))
  <2> DEFINE out == FlatMap(s, f)
  <2>1. PICK k \in 1 .. Len(s) : s[k] = x
    BY DEF ToSet
  <2>2. x \in ToSet(f[s[k]])
    BY <1>1, <2>1
  <2>3. out \in Seq(T)
    BY <1>2
  <2>4. \E c \in 0 .. Len(out) : Cuts(out, s, f, k, c)
    <3> HIDE DEF out
    <3>1. \A y \in ToSet(s) : f[y] \in Seq(T)
      BY <1>1
    <3>2. out = FlatMap(s, f)
      BY DEF out
    <3> QED
      BY <2>1, <3>1, <3>2, FlatMapOrder
  <2> HIDE DEF out
  <2>5. PICK c \in 0 .. Len(out) : \E i \in 1 .. c : out[i] = x
    BY <2>2, <2>4 DEF Cuts
  <2>6. PICK i \in 1 .. c : out[i] = x
    BY <2>5
  <2>7. i \in DOMAIN out
    BY <2>3
  <2> QED
    BY <2>6, <2>7 DEF ToSet, out
<1> QED
  BY <1>2, <1>4, <1>5, <1>6

-----------------------------------------------------------------------------
(* The URLs of a call. *)

\* The loops' ingredients.
LEMMA RoleFacts ==
  /\ Providers = {"zan", "uniblock", "quicknode", "default"}
  /\ \A p \in Providers : RolesOf[p] \subseteq Roles
  /\ ToSet(Known) = {"zan", "uniblock", "quicknode"} /\ Known \in Seq(Providers)
<1>1. Providers = {"zan", "uniblock", "quicknode", "default"}
  BY DEF Providers, RolesOf
<1>2. ToSet(Known) = {"zan", "uniblock", "quicknode"}
  <2>1. Len(Known) = 3 /\ DOMAIN Known = 1 .. 3 /\ Known[1] = "zan" /\ Known[2] = "uniblock" /\ Known[3] = "quicknode"
    BY DEF Known
  <2>2. 1 .. 3 = {1, 2, 3}
    OBVIOUS
  <2> QED
    BY <2>1, <2>2 DEF ToSet
<1>3. Known \in Seq(Providers)
  BY <1>1 DEF Known
<1> QED
  BY <1>1, <1>2, <1>3 DEF RolesOf, Roles

\* Without a provider of its own, the environment has the public default.
LEMMA BuiltProviders ==
  ASSUME NEW c
  PROVE  /\ buildProviders(c) \in Seq(Providers)
         /\ \A p \in ToSet(buildProviders(c)) : p = "default" \/ (p \in ToSet(Known) /\ c[p] > 0)
<1> DEFINE S == {p \in ToSet(Known) : c[p] > 0}
           configured == Kept(Known, S)
<1>1. configured \in Seq(Providers) /\ ToSet(configured) \subseteq S
  <2> HIDE DEF S
  <2> QED
    BY RoleFacts, KeptFacts
<1>2. buildProviders(c) = IF configured = <<>> THEN <<"default">> ELSE configured
  BY DEF buildProviders
<1> HIDE DEF configured
<1> DEFINE public == <<"default">>
<1>3. public \in Seq(Providers) /\ ToSet(public) = {"default"}
  BY RoleFacts DEF ToSet
<1>4. CASE configured = <<>>
  <2> HIDE DEF public
  <2>1. buildProviders(c) = public
    BY <1>2, <1>4 DEF public
  <2> QED
    BY <1>3, <2>1
<1>5. CASE configured # <<>>
  BY <1>1, <1>2, <1>5
<1> QED
  BY <1>4, <1>5

\* The role orders are orders of roles.
LEMMA RoleOrders ==
  ASSUME NEW method \in Methods, NEW hint \in Roles \cup {None}
  PROVE  rolesForMethod(method, hint) \in Seq(Roles)
<1> DEFINE rest == Kept(<<"primary", "bulk", "fallback">>, Roles \ {hint})
<1>1. <<"primary", "bulk", "fallback">> \in Seq(Roles)
  BY DEF Roles
<1>2. rest \in Seq(Roles)
  <2> DEFINE o == <<"primary", "bulk", "fallback">>
             S == Roles \ {hint}
  <2> HIDE DEF o, S
  <2>1. o \in Seq(Roles)
    BY <1>1 DEF o
  <2>2. Kept(o, S) \in Seq(Roles)
    BY <2>1, KeptFacts
  <2> QED
    BY <2>2 DEF o, S
<1> HIDE DEF rest
<1>3. CASE hint # None
  <2>1. rolesForMethod(method, hint) = <<hint>> \o rest
    BY <1>3 DEF rolesForMethod, rest
  <2>2. <<hint>> \in Seq(Roles)
    BY <1>3
  <2> QED
    BY <1>2, <1>3, <2>1, <2>2
<1>4. CASE hint = None
  <2>1. rolesForMethod(method, hint) =
          CASE method = "trace"            -> <<"trace", "fallback">>
            [] method \in {"bulk", "logs"} -> <<"bulk", "primary", "fallback">>
            [] OTHER                       -> <<"primary", "bulk", "fallback">>
    BY <1>4 DEF rolesForMethod
  <2>2. <<"trace", "fallback">> \in Seq(Roles) /\ <<"bulk", "primary", "fallback">> \in Seq(Roles)
    BY DEF Roles
  <2>3. CASE method = "trace"
    BY <1>4, <2>1, <2>2, <2>3
  <2>4. CASE method \in {"bulk", "logs"}
    BY <1>4, <2>1, <2>2, <2>4
  <2>5. CASE method = "other"
    BY <1>1, <1>4, <2>1, <2>5
  <2> QED
    BY <2>3, <2>4, <2>5 DEF Methods
<1> QED
  BY <1>3, <1>4

\* The providers of a role order: the configured ones with a role of it, each once, and
\* none before one that the order prefers.
LEMMA EligibleProviders ==
  ASSUME NEW c, NEW order \in Seq(Roles)
  PROVE  /\ eligibleProviders(c, order) \in Seq(Providers)
         /\ IsInjective(eligibleProviders(c, order))
         /\ \A p \in Providers :
              p \in ToSet(eligibleProviders(c, order)) <=>
                /\ p \in ToSet(buildProviders(c))
                /\ \E role \in ToSet(order) : role \in RolesOf[p]
         /\ \A i, j \in DOMAIN eligibleProviders(c, order) : i < j =>
              ~Prefers(order, eligibleProviders(c, order)[j], eligibleProviders(c, order)[i])
<1> DEFINE hits == [role \in Roles |->
                      Kept(buildProviders(c), {p \in Providers : role \in RolesOf[p]})]
           identity == [p \in Providers |-> p]
           all == FlatMap(order, hits)
           out == Dedupe(all, identity)
<1>1. eligibleProviders(c, order) = out
  BY DEF eligibleProviders
<1>2. ASSUME NEW role \in Roles
      PROVE  /\ hits[role] \in Seq(Providers)
             /\ \A p \in Providers :
                  p \in ToSet(hits[role]) <=> p \in ToSet(buildProviders(c)) /\ role \in RolesOf[p]
  <2> DEFINE S == {p \in Providers : role \in RolesOf[p]}
  <2>1. hits[role] = Kept(buildProviders(c), S)
    OBVIOUS
  <2> HIDE DEF S, hits
  <2>2. /\ Kept(buildProviders(c), S) \in Seq(Providers)
        /\ ToSet(Kept(buildProviders(c), S)) = ToSet(buildProviders(c)) \cap S
    BY BuiltProviders, KeptFacts
  <2> QED
    BY <2>1, <2>2 DEF S
<1> HIDE DEF hits
<1>3. \A role \in ToSet(order) : role \in Roles
  BY DEF ToSet
<1>4. /\ all \in Seq(Providers)
      /\ \A p \in ToSet(all) : \E k \in 1 .. Len(order) : p \in ToSet(hits[order[k]])
      /\ \A k \in 1 .. Len(order) : \E e \in 0 .. Len(all) : Cuts(all, order, hits, k, e)
  <2>1. \A role \in ToSet(order) : hits[role] \in Seq(Providers)
    BY <1>2, <1>3
  <2>2. all = FlatMap(order, hits)
    OBVIOUS
  <2> HIDE DEF all
  <2>3. all \in Seq(Providers) /\ \A p \in ToSet(all) : \E k \in 1 .. Len(order) : p \in ToSet(hits[order[k]])
    BY <2>1, <2>2, FlatMapFacts
  <2> QED
    BY <2>1, <2>2, <2>3, FlatMapOrder
<1> HIDE DEF all
<1>5. /\ out \in Seq(Providers)
      /\ \A i, j \in DOMAIN out : identity[out[i]] = identity[out[j]] => i = j
      /\ \A i \in DOMAIN out : \E l \in DOMAIN all : out[i] = all[l]
      /\ \A l \in DOMAIN all : \E i \in DOMAIN out : identity[out[i]] = identity[all[l]]
      /\ InOrder(out, all, identity)
  <2> HIDE DEF identity, out
  <2> QED
    BY <1>4, DedupeFacts DEF out
<1> HIDE DEF out
<1>6. /\ \A i \in DOMAIN out : out[i] \in Providers /\ identity[out[i]] = out[i]
      /\ \A l \in DOMAIN all : all[l] \in Providers /\ identity[all[l]] = all[l]
      /\ DOMAIN all = 1 .. Len(all) /\ Len(all) \in Nat
  BY <1>4, <1>5
<1> HIDE DEF identity
<1>7. IsInjective(out)
  BY <1>5, <1>6 DEF IsInjective
<1>8. ASSUME NEW p \in ToSet(out)
      PROVE  p \in ToSet(buildProviders(c)) /\ \E role \in ToSet(order) : role \in RolesOf[p]
  <2>1. p \in ToSet(all) /\ p \in Providers
    BY <1>5, <1>6 DEF ToSet
  <2>2. PICK k \in 1 .. Len(order) : p \in ToSet(hits[order[k]])
    BY <1>4, <2>1
  <2>3. order[k] \in ToSet(order)
    BY DEF ToSet
  <2> QED
    BY <1>2, <1>3, <2>1, <2>2, <2>3
<1>9. ASSUME NEW p \in ToSet(buildProviders(c)), p \in Providers,
             NEW role \in ToSet(order), role \in RolesOf[p]
      PROVE  p \in ToSet(out)
  <2>1. PICK k \in 1 .. Len(order) : order[k] = role
    BY DEF ToSet
  <2>2. p \in ToSet(hits[order[k]])
    BY <1>2, <1>3, <1>9, <2>1
  <2>3. PICK e \in 0 .. Len(all) : \E i \in 1 .. e : all[i] = p
    BY <1>4, <2>2 DEF Cuts
  <2>4. PICK i \in 1 .. e : all[i] = p
    BY <2>3
  <2>5. i \in DOMAIN all
    BY <1>6
  <2>6. PICK j \in DOMAIN out : identity[out[j]] = identity[all[i]]
    BY <1>5, <2>5
  <2>7. out[j] = p
    BY <1>6, <2>4, <2>5, <2>6
  <2> QED
    BY <2>7 DEF ToSet
<1>10. ASSUME NEW i \in DOMAIN out, NEW j \in DOMAIN out, i < j, Prefers(order, out[j], out[i])
       PROVE  FALSE
  <2>1. PICK k \in DOMAIN order : /\ order[k] \in RolesOf[out[j]]
                                  /\ \A l \in 1 .. k : order[l] \notin RolesOf[out[i]]
    BY <1>10 DEF Prefers
  <2>2. PICK l \in DOMAIN all : /\ out[i] = all[l]
                                /\ \A m \in DOMAIN all : identity[all[m]] = identity[out[j]] => l < m
    BY <1>5, <1>10 DEF InOrder
  <2>3. out[i] \in Providers /\ out[j] \in Providers /\ out[j] \in ToSet(buildProviders(c))
    BY <1>6, <1>8 DEF ToSet
  <2>4. k \in 1 .. Len(order) /\ \A q \in 1 .. Len(order) : order[q] \in ToSet(order)
    BY DEF ToSet
  <2>5. out[j] \in ToSet(hits[order[k]])
    BY <1>2, <1>3, <2>1, <2>3, <2>4
  <2>6. PICK e \in 0 .. Len(all) :
          /\ \A p \in ToSet(hits[order[k]]) : \E q \in 1 .. e : all[q] = p
          /\ \A q \in 1 .. e : \E o \in 1 .. k : all[q] \in ToSet(hits[order[o]])
    BY <1>4, <2>4 DEF Cuts
  <2>7. PICK m \in 1 .. e : all[m] = out[j]
    BY <2>5, <2>6
  <2>8. m \in DOMAIN all /\ l < m
    BY <1>6, <2>2, <2>7
  <2>9. l \in 1 .. e
    BY <1>6, <2>8
  <2>10. PICK o \in 1 .. k : out[i] \in ToSet(hits[order[o]])
    BY <2>2, <2>6, <2>9
  <2>11. o \in 1 .. Len(order)
    BY <2>4
  <2>12. order[o] \in RolesOf[out[i]]
    BY <1>2, <1>3, <2>3, <2>4, <2>10, <2>11
  <2> QED
    BY <2>1, <2>12
<1>11. \A p \in ToSet(out) : p \in Providers
  BY <1>6 DEF ToSet
<1> QED
  BY <1>1, <1>5, <1>7, <1>8, <1>9, <1>10, <1>11

\* The environment: a count of URLs for each provider that has one.
Configured(c) ==
  c \in [ToSet(Known) -> 0 .. MaxUrls]

\* A call's URLs: each that may serve it, once, and none before those of a provider that
\* the call prefers.
LEMMA CallUrls ==
  ASSUME Configured(conf), NEW c, c.method \in Methods, c.hint \in Roles \cup {None}
  PROVE  /\ UrlsFor(c) \in Seq(Targets)
         /\ IsInjective(UrlsFor(c))
         /\ \A t \in Targets :
              /\ t[1] \in ToSet(buildProviders(conf)) /\ t[2] <= UrlCount(conf, t[1])
              /\ \E role \in ToSet(rolesForMethod(c.method, c.hint)) : role \in RolesOf[t[1]]
              /\ ~ WindowTooSmall(c, t[1])
              => t \in ToSet(UrlsFor(c))
         /\ \A a, b \in DOMAIN UrlsFor(c) : a < b =>
              ~Prefers(rolesForMethod(c.method, c.hint), UrlsFor(c)[b][1], UrlsFor(c)[a][1])
<1> DEFINE order == rolesForMethod(c.method, c.hint)
           s == eligibleProviders(conf, order)
           urls(p) == [u \in 1 .. UrlCount(conf, p) |-> <<p, u>>]
           urlsOf == [p \in Providers |-> IF WindowTooSmall(c, p) THEN <<>> ELSE urls(p)]
<1>1. order \in Seq(Roles)
  BY RoleOrders
<1> HIDE DEF order
<1>2. /\ s \in Seq(Providers) /\ IsInjective(s)
      /\ \A p \in Providers : p \in ToSet(s) <=>
           /\ p \in ToSet(buildProviders(conf))
           /\ \E role \in ToSet(order) : role \in RolesOf[p]
      /\ \A p \in ToSet(s) : p \in Providers
      /\ \A i, j \in DOMAIN s : i < j => ~Prefers(order, s[j], s[i])
  <2>1. /\ s \in Seq(Providers) /\ IsInjective(s)
        /\ \A p \in Providers : p \in ToSet(s) <=>
             /\ p \in ToSet(buildProviders(conf))
             /\ \E role \in ToSet(order) : role \in RolesOf[p]
        /\ \A i, j \in DOMAIN s : i < j => ~Prefers(order, s[j], s[i])
    BY <1>1, EligibleProviders
  <2> HIDE DEF s
  <2>2. \A p \in ToSet(s) : p \in Providers
    BY <2>1 DEF ToSet
  <2> QED
    BY <2>1, <2>2
<1>3. UrlsFor(c) = FlatMap(s, urlsOf)
  BY DEF UrlsFor, order
<1> HIDE DEF s
<1>4. ASSUME NEW p \in ToSet(s)
      PROVE  /\ urls(p) \in Seq(Targets) /\ IsInjective(urls(p))
             /\ \A t \in ToSet(urls(p)) : t[1] = p
             /\ \A t \in Targets : t[1] = p /\ t[2] <= UrlCount(conf, p) => t \in ToSet(urls(p))
  <2>1. p \in Providers /\ UrlCount(conf, p) \in 0 .. MaxUrls
    <3>1. p = "default" \/ conf[p] \in 0 .. MaxUrls
      BY <1>2, BuiltProviders DEF Configured
    <3>2. MaxUrls \in Nat \ {0}
      BY RouterAssumption
    <3> QED
      BY <1>2, <3>1, <3>2 DEF UrlCount
  <2> DEFINE n == UrlCount(conf, p)
  <2>2. n \in Nat /\ \A u \in 1 .. n : u \in 1 .. MaxUrls
    BY <2>1, RouterAssumption
  <2> HIDE DEF n
  <2>3. \A u \in 1 .. n : <<p, u>> \in Targets /\ <<p, u>>[1] = p /\ <<p, u>>[2] = u
    BY <2>1, <2>2 DEF Targets
  <2> DEFINE f == [u \in 1 .. n |-> <<p, u>>]
  <2>4. f \in Seq(Targets) /\ DOMAIN f = 1 .. n
    BY <2>2, <2>3
  <2>5. \A u \in 1 .. n : f[u] = <<p, u>>
    OBVIOUS
  <2> HIDE DEF f
  <2>6. IsInjective(f)
    BY <2>3, <2>4, <2>5 DEF IsInjective
  <2>7. \A t \in ToSet(f) : t[1] = p
    BY <2>3, <2>4, <2>5 DEF ToSet
  <2>8. urls(p) = f
    BY DEF f, n
  <2>9. ASSUME NEW t \in Targets, t[1] = p, t[2] <= n PROVE t \in ToSet(f)
    <3>1. t = <<t[1], t[2]>> /\ t[2] \in 1 .. MaxUrls
      BY DEF Targets
    <3>2. t[2] \in 1 .. n
      BY <2>2, <2>9, <3>1, RouterAssumption
    <3> QED
      BY <2>4, <2>5, <2>9, <3>1, <3>2 DEF ToSet
  <2> QED
    BY <2>4, <2>6, <2>7, <2>8, <2>9 DEF n
<1> HIDE DEF urls
<1>5. ASSUME NEW p \in ToSet(s)
      PROVE  /\ urlsOf[p] \in Seq(Targets) /\ IsInjective(urlsOf[p])
             /\ \A t \in ToSet(urlsOf[p]) : t[1] = p
             /\ \A t \in Targets :
                  t[1] = p /\ t[2] <= UrlCount(conf, p) /\ ~ WindowTooSmall(c, p)
                    => t \in ToSet(urlsOf[p])
  <2>1. urlsOf[p] = IF WindowTooSmall(c, p) THEN <<>> ELSE urls(p)
    BY <1>2
  <2>2. <<>> \in Seq(Targets) /\ IsInjective(<<>>) /\ ToSet(<<>>) = {}
    BY DEF IsInjective, ToSet
  <2> HIDE DEF urlsOf
  <2>3. CASE WindowTooSmall(c, p)
    BY <2>1, <2>2, <2>3
  <2>4. CASE ~ WindowTooSmall(c, p)
    BY <1>4, <2>1, <2>4
  <2> QED
    BY <2>3, <2>4
<1> HIDE DEF urlsOf
<1>6. \A p, q \in ToSet(s) : p # q => ToSet(urlsOf[p]) \cap ToSet(urlsOf[q]) = {}
  <2>1. \A p \in ToSet(s) : \A t \in ToSet(urlsOf[p]) : t[1] = p
    BY <1>5
  <2> QED
    BY <2>1
<1> DEFINE out == FlatMap(s, urlsOf)
<1>7. /\ out \in Seq(Targets) /\ IsInjective(out)
      /\ \A t \in ToSet(out) : \E k \in 1 .. Len(s) : t \in ToSet(urlsOf[s[k]])
      /\ \A k \in 1 .. Len(s) : \E e \in 0 .. Len(out) : Cuts(out, s, urlsOf, k, e)
  <2>1. out = FlatMap(s, urlsOf)
    OBVIOUS
  <2> HIDE DEF out
  <2>2. \A p \in ToSet(s) : urlsOf[p] \in Seq(Targets) /\ IsInjective(urlsOf[p])
    BY <1>5
  <2>3. /\ out \in Seq(Targets) /\ IsInjective(out)
        /\ \A t \in ToSet(out) : \E k \in 1 .. Len(s) : t \in ToSet(urlsOf[s[k]])
    BY <1>2, <1>6, <2>1, <2>2, FlatMapFacts
  <2>4. \A k \in 1 .. Len(s) : \E e \in 0 .. Len(out) : Cuts(out, s, urlsOf, k, e)
    BY <1>2, <2>1, <2>2, FlatMapOrder
  <2> QED
    BY <2>3, <2>4
<1> HIDE DEF out
<1>8. /\ DOMAIN out = 1 .. Len(out) /\ Len(out) \in Nat
      /\ DOMAIN s = 1 .. Len(s) /\ Len(s) \in Nat /\ \A k \in 1 .. Len(s) : s[k] \in ToSet(s)
  BY <1>2, <1>7 DEF ToSet
<1>9. ASSUME NEW t \in Targets, t[1] \in ToSet(buildProviders(conf)), t[2] <= UrlCount(conf, t[1]),
             \E role \in ToSet(order) : role \in RolesOf[t[1]], ~ WindowTooSmall(c, t[1])
      PROVE  t \in ToSet(out)
  <2>1. t[1] \in Providers
    BY DEF Targets
  <2>2. t[1] \in ToSet(s)
    BY <1>2, <1>9, <2>1
  <2>3. t \in ToSet(urlsOf[t[1]])
    BY <1>5, <1>9, <2>2
  <2>4. PICK k \in 1 .. Len(s) : s[k] = t[1]
    BY <1>8, <2>2 DEF ToSet
  <2>5. PICK e \in 0 .. Len(out) : \E i \in 1 .. e : out[i] = t
    BY <1>7, <2>3, <2>4 DEF Cuts
  <2>6. PICK i \in 1 .. e : out[i] = t
    BY <2>5
  <2> QED
    BY <1>8, <2>6, SMTT(40) DEF ToSet
<1>10. ASSUME NEW a \in DOMAIN out, NEW b \in DOMAIN out, a < b,
              Prefers(order, out[b][1], out[a][1])
       PROVE  FALSE
  <2>1. /\ out[a] \in ToSet(out) /\ out[b] \in ToSet(out)
    BY DEF ToSet
  <2>2. PICK i \in 1 .. Len(s) : out[a] \in ToSet(urlsOf[s[i]])
    BY <1>7, <2>1
  <2>3. PICK j \in 1 .. Len(s) : out[b] \in ToSet(urlsOf[s[j]])
    BY <1>7, <2>1
  <2>4. out[a][1] = s[i] /\ out[b][1] = s[j]
    BY <1>5, <1>8, <2>2, <2>3
  <2>5. i # j
    <3>1. PICK k \in DOMAIN order : /\ order[k] \in RolesOf[out[b][1]]
                                    /\ \A l \in 1 .. k : order[l] \notin RolesOf[out[a][1]]
      BY <1>10 DEF Prefers
    <3>2. k \in 1 .. k
      BY <1>1
    <3>3. out[a][1] # out[b][1]
      BY <3>1, <3>2
    <3> QED
      BY <2>4, <3>3
  <2>6. ~(i < j)
    BY <1>2, <1>8, <1>10, <2>4
  <2>7. j < i
    BY <1>8, <2>5, <2>6
  <2>8. PICK e \in 0 .. Len(out) :
          /\ \A t \in ToSet(urlsOf[s[j]]) : \E q \in 1 .. e : out[q] = t
          /\ \A q \in 1 .. e : \E l \in 1 .. j : out[q] \in ToSet(urlsOf[s[l]])
    BY <1>7 DEF Cuts
  <2>9. PICK q \in 1 .. e : out[q] = out[b]
    BY <2>3, <2>8
  <2>10. q = b
    <3>1. q \in DOMAIN out
      BY <1>8
    <3> QED
      BY <1>7, <2>9, <3>1 DEF IsInjective
  <2>11. a \in 1 .. e
    BY <1>8, <1>10, <2>10
  <2>12. PICK l \in 1 .. j : out[a] \in ToSet(urlsOf[s[l]])
    BY <2>8, <2>11
  <2>13. l \in 1 .. Len(s) /\ l < i
    BY <1>8, <2>7
  <2>14. s[l] = s[i]
    BY <1>5, <1>8, <2>4, <2>12, <2>13
  <2> QED
    BY <1>2, <1>8, <2>13, <2>14 DEF IsInjective
<1>11. UrlsFor(c) = out
  BY <1>3 DEF out
<1> QED
  BY <1>7, <1>9, <1>10, <1>11 DEF order

-----------------------------------------------------------------------------
(* sendRpc. *)

\* The URLs before the place in the walk are done with, the one at it has as many
\* tries as attempts, and the others have none.
RouterInv ==
  /\ Configured(conf)
  /\ callAt \in {"idle", "post", "returned", "thrown"}
  /\ walkPos \in Nat \ {0} /\ attempt \in 0 .. (retriesPerUrl - 1)
  /\ walk \in Seq(Targets) /\ IsInjective(walk)
  /\ callAt = "idle" => call = NoCall /\ walk = <<>> /\ walkPos = 1 /\ attempt = 0
  /\ callAt # "idle" => /\ call.method \in Methods /\ call.hint \in Roles \cup {None}
                        /\ walk = UrlsFor(call)
  /\ callAt = "post" => walkPos \in DOMAIN walk /\ tries[walk[walkPos]] = attempt
  /\ callAt = "thrown" => walkPos = Len(walk) + 1
  /\ tries \in [Targets -> 0 .. retriesPerUrl]
  /\ \A t \in Targets : t \notin ToSet(walk) => tries[t] = 0
  /\ \A k \in DOMAIN walk :
       /\ k < walkPos => GivenUp(walk[k])
       /\ k > walkPos => tries[walk[k]] = 0

\* No call is under way at first.
LEMMA RouterStart == RouterInit => RouterInv
<1> SUFFICES ASSUME RouterInit PROVE RouterInv
  OBVIOUS
<1>1. retriesPerUrl \in Nat \ {0}
  BY RouterAssumption
<1>2. walk = <<>> /\ DOMAIN walk = {} /\ walk \in Seq(Targets) /\ IsInjective(walk)
  BY DEF RouterInit, IsInjective
<1>3. tries \in [Targets -> 0 .. retriesPerUrl] /\ \A t \in Targets : tries[t] = 0
  BY <1>1 DEF RouterInit
<1> QED
  BY <1>1, <1>2, <1>3 DEF RouterInit, RouterInv, Configured

\* A call goes on to its next attempt, its next URL or its end, and to nothing else.
LEMMA RouterStep == RouterInv /\ [RouterNext]_routerVars => RouterInv'
<1> SUFFICES ASSUME RouterInv, [RouterNext]_routerVars PROVE RouterInv'
  OBVIOUS
<1>0. retriesPerUrl \in Nat \ {0} /\ maxLogRange \in Nat
  BY RouterAssumption
<1>1. ASSUME NEW method \in Methods, NEW hint \in Roles \cup {None}, NEW span,
             Send(method, hint, span)
      PROVE  RouterInv'
  <2> DEFINE c == [method |-> method, hint |-> hint, span |-> span]
  <2>1. /\ callAt = "idle" /\ call' = c /\ walk' = UrlsFor(c)
        /\ callAt' = IF walk' = <<>> THEN "thrown" ELSE "post"
        /\ UNCHANGED <<conf, walkPos, attempt, tries, refused, timedOut>>
    BY <1>1 DEF Send, UrlsFor
  <2>2. c.method = method /\ c.hint = hint
    OBVIOUS
  <2> HIDE DEF c
  <2>3. walk' \in Seq(Targets) /\ IsInjective(walk')
    BY <2>1, <2>2, CallUrls DEF RouterInv
  <2>4. /\ walk = <<>> /\ walkPos = 1 /\ attempt = 0 /\ \A t \in Targets : tries[t] = 0
    <3>1. walk = <<>> /\ walkPos = 1 /\ attempt = 0
      BY <2>1 DEF RouterInv
    <3>2. ToSet(walk) = {}
      BY <3>1 DEF ToSet
    <3> QED
      BY <3>1, <3>2 DEF RouterInv
  <2>5. \A k \in DOMAIN walk' : walk'[k] \in Targets /\ k >= 1
    BY <2>3
  <2>6. walk' # <<>> => 1 \in DOMAIN walk'
    BY <2>3
  <2>7. walk' = <<>> => Len(walk') = 0
    OBVIOUS
  <2>8. walk' = UrlsFor(call)'
    BY <2>1 DEF UrlsFor, WindowTooSmall
  <2> QED
    <3>1. Configured(conf)' /\ callAt' \in {"post", "thrown"} /\ tries' \in [Targets -> 0 .. retriesPerUrl]
      BY <2>1 DEF RouterInv
    <3>2. call'.method \in Methods /\ call'.hint \in Roles \cup {None}
      BY <2>1, <2>2
    <3> QED
      BY <1>0, <2>1, <2>3, <2>4, <2>5, <2>6, <2>7, <2>8, <3>1, <3>2 DEF RouterInv
<1>2. ASSUME callAt = "post", UNCHANGED <<conf, call, walk>>,
             NEW t, t = walk[walkPos], tries' = [tries EXCEPT ![t] = @ + 1]
      PROVE  /\ Configured(conf)' /\ walk' \in Seq(Targets) /\ IsInjective(walk')
             /\ call'.method \in Methods /\ call'.hint \in Roles \cup {None}
             /\ walk' = UrlsFor(call)'
             /\ walkPos \in DOMAIN walk /\ DOMAIN walk = 1 .. Len(walk) /\ Len(walk) \in Nat
             /\ t \in Targets /\ tries[t] = attempt /\ tries'[t] = attempt + 1
             /\ tries' \in [Targets -> 0 .. retriesPerUrl]
             /\ \A u \in Targets : u \notin ToSet(walk') => tries'[u] = 0
             /\ \A k \in DOMAIN walk : k # walkPos => walk[k] # t /\ tries'[walk[k]] = tries[walk[k]]
  <2>1. /\ walkPos \in DOMAIN walk /\ tries[t] = attempt /\ attempt \in 0 .. (retriesPerUrl - 1)
        /\ walk \in Seq(Targets) /\ IsInjective(walk) /\ tries \in [Targets -> 0 .. retriesPerUrl]
    BY <1>2 DEF RouterInv
  <2>2. t \in Targets /\ t \in ToSet(walk) /\ DOMAIN walk = 1 .. Len(walk) /\ Len(walk) \in Nat
    BY <1>2, <2>1 DEF ToSet
  <2>3. /\ tries'[t] = attempt + 1 /\ attempt + 1 \in 0 .. retriesPerUrl
        /\ \A u \in Targets : u # t => tries'[u] = tries[u]
    BY <1>0, <1>2, <2>1, <2>2
  <2>4. tries' \in [Targets -> 0 .. retriesPerUrl]
    BY <1>2, <2>1, <2>2, <2>3
  <2>5. \A k \in DOMAIN walk : k # walkPos => walk[k] # t /\ walk[k] \in Targets
    BY <1>2, <2>1 DEF IsInjective
  <2>6. walk' = UrlsFor(call)' /\ call'.method \in Methods /\ call'.hint \in Roles \cup {None}
    BY <1>2 DEF RouterInv, UrlsFor, WindowTooSmall
  <2>7. \A u \in Targets : u \notin ToSet(walk') => tries'[u] = 0
    BY <1>2, <2>2, <2>3 DEF RouterInv
  <2> QED
    BY <1>2, <2>1, <2>2, <2>3, <2>4, <2>5, <2>6, <2>7 DEF RouterInv
<1>3. CASE PostSucceeds
  <2> DEFINE t == walk[walkPos]
  <2>1. /\ callAt = "post" /\ tries' = [tries EXCEPT ![t] = @ + 1] /\ callAt' = "returned"
        /\ UNCHANGED <<conf, call, walk, walkPos, attempt, refused, timedOut>>
    BY <1>3 DEF PostSucceeds
  <2>2. /\ Configured(conf)' /\ walk' \in Seq(Targets) /\ IsInjective(walk')
        /\ call'.method \in Methods /\ call'.hint \in Roles \cup {None}
        /\ walk' = UrlsFor(call)'
        /\ walkPos \in DOMAIN walk /\ DOMAIN walk = 1 .. Len(walk) /\ Len(walk) \in Nat
        /\ t \in Targets /\ tries[t] = attempt /\ tries'[t] = attempt + 1
        /\ tries' \in [Targets -> 0 .. retriesPerUrl]
        /\ \A u \in Targets : u \notin ToSet(walk') => tries'[u] = 0
        /\ \A k \in DOMAIN walk : k # walkPos => walk[k] # t /\ tries'[walk[k]] = tries[walk[k]]
    BY <1>2, <2>1
  <2> HIDE DEF t
  <2>3. \A k \in DOMAIN walk' :
          /\ k < walkPos' => GivenUp(walk[k])'
          /\ k > walkPos' => tries'[walk'[k]] = 0
    <3>1. \A k \in DOMAIN walk' : k < walkPos' => k \in DOMAIN walk /\ k # walkPos /\ GivenUp(walk[k])
      BY <2>1, <2>2 DEF RouterInv
    <3>2. \A k \in DOMAIN walk' : k < walkPos' => GivenUp(walk[k])'
      BY <2>1, <2>2, <3>1 DEF GivenUp
    <3> QED
      BY <2>1, <2>2, <3>2 DEF RouterInv
  <2> QED
    BY <2>1, <2>2, <2>3 DEF RouterInv
<1>4. ASSUME NEW how \in Failures, PostFails(how) PROVE RouterInv'
  <2> DEFINE t == walk[walkPos]
  <2>1. /\ callAt = "post" /\ tries' = [tries EXCEPT ![t] = @ + 1] /\ UNCHANGED <<conf, call, walk>>
        /\ refused \subseteq refused' /\ timedOut \subseteq timedOut'
        /\ how # "retryable" => t \in refused' \cup timedOut'
    BY <1>4 DEF PostFails, Failed, Failures
  <2>2. /\ Configured(conf)' /\ walk' \in Seq(Targets) /\ IsInjective(walk')
        /\ call'.method \in Methods /\ call'.hint \in Roles \cup {None}
        /\ walk' = UrlsFor(call)'
        /\ walkPos \in DOMAIN walk /\ DOMAIN walk = 1 .. Len(walk) /\ Len(walk) \in Nat
        /\ t \in Targets /\ tries[t] = attempt /\ tries'[t] = attempt + 1
        /\ tries' \in [Targets -> 0 .. retriesPerUrl]
        /\ \A u \in Targets : u \notin ToSet(walk') => tries'[u] = 0
        /\ \A k \in DOMAIN walk : k # walkPos => walk[k] # t /\ tries'[walk[k]] = tries[walk[k]]
    BY <1>2, <2>1
  <2>3. attempt \in 0 .. (retriesPerUrl - 1) /\ walkPos \in Nat \ {0} /\ t = walk[walkPos]
    BY DEF RouterInv
  <2>4. \A k \in DOMAIN walk :
          /\ k < walkPos => GivenUp(walk[k])'
          /\ k > walkPos => tries'[walk[k]] = 0
    <3>1. \A k \in DOMAIN walk : k < walkPos => k # walkPos /\ GivenUp(walk[k])
      BY <2>2, <2>3 DEF RouterInv
    <3>2. \A k \in DOMAIN walk : k < walkPos => GivenUp(walk[k])'
      BY <2>1, <2>2, <3>1 DEF GivenUp
    <3> QED
      BY <2>1, <2>2, <2>3, <3>2 DEF RouterInv
  <2>5. walk' = walk
    BY <2>1
  <2>6. CASE how = "retryable" /\ attempt + 1 < retriesPerUrl
    <3>1. attempt' = attempt + 1 /\ walkPos' = walkPos /\ callAt' = callAt
      BY <1>4, <2>1, <2>6 DEF PostFails
    <3>2. attempt' \in 0 .. (retriesPerUrl - 1)
      BY <1>0, <2>3, <2>6, <3>1
    <3>3. tries'[walk'[walkPos']] = attempt'
      BY <2>2, <2>3, <2>5, <3>1
    <3> HIDE DEF t
    <3> QED
      BY <2>1, <2>2, <2>3, <2>4, <2>5, <3>1, <3>2, <3>3 DEF RouterInv
  <2>7. CASE ~ (how = "retryable" /\ attempt + 1 < retriesPerUrl)
    <3>1. /\ attempt' = 0 /\ walkPos' = walkPos + 1
          /\ callAt' = IF walkPos = Len(walk) THEN "thrown" ELSE "post"
      BY <1>4, <2>7 DEF PostFails
    <3>2. t \in refused' \cup timedOut' \/ tries'[t] = retriesPerUrl
      <4>1. how = "retryable" => attempt + 1 = retriesPerUrl
        BY <1>0, <2>3, <2>7
      <4> QED
        BY <2>1, <2>2, <4>1
    <3>3. /\ attempt' \in 0 .. (retriesPerUrl - 1) /\ walkPos' \in Nat \ {0}
          /\ callAt' = "thrown" => walkPos' = Len(walk) + 1
          /\ callAt' # "thrown" => callAt' = "post" /\ walkPos' \in DOMAIN walk
      BY <1>0, <2>2, <2>3, <3>1
    <3>4. \A k \in DOMAIN walk :
            /\ k < walkPos' => GivenUp(walk[k])'
            /\ k > walkPos' => tries'[walk[k]] = 0
      <4>1. \A k \in DOMAIN walk : k < walkPos \/ k = walkPos \/ k > walkPos
        BY <2>2, <2>3
      <4>2. \A k \in DOMAIN walk : (k < walkPos' => k <= walkPos) /\ (k > walkPos' => k > walkPos)
        BY <2>2, <2>3, <3>1
      <4>3. \A k \in DOMAIN walk : k <= walkPos => k = walkPos \/ k < walkPos
        BY <2>2, <2>3
      <4> HIDE DEF t
      <4>4. ASSUME NEW k \in DOMAIN walk, k < walkPos' PROVE GivenUp(walk[k])'
        <5>1. CASE k = walkPos
          <6>1. walk'[k] = t
            BY <2>3, <2>5, <5>1
          <6> QED
            BY <3>2, <6>1 DEF GivenUp
        <5>2. CASE k < walkPos
          BY <2>4, <5>2
        <5> QED
          BY <4>2, <4>3, <4>4, <5>1, <5>2
      <4> QED
        BY <2>4, <4>2, <4>4
    <3>5. callAt' = "post" => tries'[walk[walkPos']] = 0
      <4>1. walkPos' > walkPos
        BY <2>3, <3>1
      <4> HIDE DEF t
      <4> QED
        BY <2>4, <3>3, <4>1
    <3>6. callAt' \in {"post", "thrown"}
      BY <3>1
    <3> HIDE DEF t
    <3> QED
      BY <2>2, <2>5, <3>1, <3>3, <3>4, <3>5, <3>6 DEF RouterInv
  <2> QED
    BY <2>6, <2>7
<1>5. CASE UNCHANGED routerVars
  BY <1>5 DEF routerVars, RouterInv, Configured, UrlsFor, WindowTooSmall, GivenUp
<1> QED
  BY <1>1, <1>3, <1>4, <1>5 DEF RouterNext, Post

\* The part of ThrowsAfterAll that is about sendRpc: the walk has every eligible URL.
LEMMA RouterTries ==
  ASSUME RouterInv
  PROVE  /\ \A t \in Targets : tries[t] <= retriesPerUrl
         /\ callAt = "thrown" => \A t \in Targets : Eligible(t) => GivenUp(t)
<1>1. \A t \in Targets : tries[t] \in 0 .. retriesPerUrl
  BY DEF RouterInv
<1>2. retriesPerUrl \in Nat
  BY RouterAssumption
<1>3. ASSUME callAt = "thrown", NEW t \in Targets, Eligible(t) PROVE GivenUp(t)
  <2>1. /\ Configured(conf) /\ call.method \in Methods /\ call.hint \in Roles \cup {None}
        /\ walk = UrlsFor(call) /\ walk \in Seq(Targets) /\ walkPos = Len(walk) + 1
    BY <1>3 DEF RouterInv
  <2>2. t \in ToSet(walk)
    BY <1>3, <2>1, CallUrls DEF Eligible
  <2>3. PICK k \in DOMAIN walk : walk[k] = t
    BY <2>2 DEF ToSet
  <2>4. k < walkPos
    BY <2>1
  <2> QED
    BY <2>3, <2>4 DEF RouterInv
<1> QED
  BY <1>1, <1>2, <1>3

\* A URL with tries is in the walk up to its place, and those of the providers that the
\* call prefers come earlier in it.
LEMMA RouterPrefers == RouterInv => PreferredFirst
<1> SUFFICES ASSUME RouterInv PROVE PreferredFirst
  OBVIOUS
<1> DEFINE order == rolesForMethod(call.method, call.hint)
<1> SUFFICES ASSUME NEW t \in Targets, NEW u \in Targets,
                    tries[u] # 0, Eligible(t), Prefers(order, t[1], u[1])
             PROVE  GivenUp(t)
  BY DEF PreferredFirst
<1>1. PICK i \in DOMAIN walk : walk[i] = u
  BY DEF RouterInv, ToSet
<1>2. callAt # "idle"
  BY <1>1 DEF RouterInv
<1>3. /\ Configured(conf) /\ call.method \in Methods /\ call.hint \in Roles \cup {None}
      /\ walk = UrlsFor(call) /\ walk \in Seq(Targets) /\ walkPos \in Nat
  BY <1>2 DEF RouterInv
<1>4. t \in ToSet(walk)
  BY <1>3, CallUrls DEF Eligible
<1>5. PICK j \in DOMAIN walk : walk[j] = t
  BY <1>4 DEF ToSet
<1>6. ~(i < j)
  <2>1. \A a, b \in DOMAIN walk : a < b => ~Prefers(order, walk[b][1], walk[a][1])
    BY <1>3, CallUrls
  <2> HIDE DEF order
  <2> QED
    BY <1>1, <1>5, <2>1
<1>7. i # j
  <2>1. t[1] # u[1]
    <3>1. ASSUME t[1] = u[1] PROVE FALSE
      <4>1. order \in Seq(Roles)
        BY <1>3, RoleOrders
      <4> HIDE DEF order
      <4>2. PICK k \in DOMAIN order : /\ order[k] \in RolesOf[t[1]]
                                      /\ \A l \in 1 .. k : order[l] \notin RolesOf[u[1]]
        BY DEF Prefers
      <4>3. k \in 1 .. k
        BY <4>1
      <4> QED
        BY <3>1, <4>2, <4>3
    <3> QED
      BY <3>1
  <2> QED
    BY <1>1, <1>5, <2>1
<1>8. i <= walkPos
  <2>1. ~(i > walkPos)
    BY <1>1 DEF RouterInv
  <2> QED
    BY <1>1, <1>3, <2>1
<1>9. j < walkPos
  BY <1>1, <1>3, <1>5, <1>6, <1>7, <1>8
<1> QED
  BY <1>5, <1>9 DEF RouterInv

-----------------------------------------------------------------------------
(* The round-robin sender. *)

Endpoints == Urls \cup {DefaultUrl}

\* The lists of the environment and the places of the callers: a caller at i has asked
\* the i endpoints from its start on.
SenderInv ==
  /\ env.zan \in Seq(Urls) /\ env.quicknode \in Seq(Urls)
  /\ sharedCursor \in Nat
  /\ sender \in [Senders -> [at : {"idle", "ask", "returned", "thrown"}, start : Nat, i : Nat]]
  /\ asked \in [Senders -> Seq(Endpoints)]
  /\ \A s \in Senders :
       /\ Len(asked[s]) = sender[s].i
       /\ sender[s].at # "idle" => sender[s].start \in 0 .. (N - 1)
       /\ sender[s].at = "ask" => sender[s].i < N
       /\ sender[s].at = "thrown" => sender[s].i = N
       /\ \A k \in 1 .. sender[s].i :
            asked[s][k] = L2_RPC_URLS[((sender[s].start + (k - 1)) % N) + 1]

\* Going round from anywhere.
LEMMA RoundFacts ==
  ASSUME NEW n \in Nat \ {0}, NEW a \in 0 .. (n - 1), NEW b \in 0 .. (n - 1)
  PROVE  (a + b) % n = IF a + b < n THEN a + b ELSE a + b - n
OBVIOUS

\* A list and one element more.
LEMMA AppendFacts ==
  ASSUME NEW T, NEW d \in Seq(T), NEW c \in T, NEW s, s = Append(d, c)
  PROVE  /\ s \in Seq(T) /\ DOMAIN s = 1 .. (Len(d) + 1) /\ s[Len(d) + 1] = c
         /\ \A k \in 1 .. Len(d) : s[k] = d[k]
OBVIOUS

\* Two lists and one element more.
LEMMA JoinFacts ==
  ASSUME NEW T, NEW a \in Seq(T), NEW b \in Seq(T), NEW c \in T
  PROVE  \A s : s = a \o b \o <<c>> =>
         /\ s \in Seq(T) /\ DOMAIN s = 1 .. (Len(a) + Len(b) + 1)
         /\ Len(a) \in Nat /\ Len(b) \in Nat /\ DOMAIN a = 1 .. Len(a) /\ DOMAIN b = 1 .. Len(b)
         /\ \A k \in 1 .. Len(a) : s[k] = a[k]
         /\ \A k \in 1 .. Len(b) : s[Len(a) + k] = b[k]
         /\ s[Len(a) + Len(b) + 1] = c
<1> DEFINE d == a \o b
           r == Append(d, c)
<1>1. d \in Seq(T) /\ Len(d) = Len(a) + Len(b) /\ Len(a) \in Nat /\ Len(b) \in Nat
  OBVIOUS
<1>2. /\ \A k \in 1 .. Len(a) : d[k] = a[k]
      /\ \A k \in 1 .. Len(b) : d[Len(a) + k] = b[k]
  OBVIOUS
<1>3. d \o <<c>> = r
  <2> HIDE DEF d
  <2> QED
    BY <1>1
<1> HIDE DEF d
<1>4. r = Append(d, c)
  OBVIOUS
<1> HIDE DEF r
<1>5. /\ r \in Seq(T) /\ DOMAIN r = 1 .. (Len(d) + 1) /\ r[Len(d) + 1] = c
      /\ \A k \in 1 .. Len(d) : r[k] = d[k]
  BY <1>1, <1>4, AppendFacts
<1>6. /\ \A k \in 1 .. Len(a) : k \in 1 .. Len(d)
      /\ \A k \in 1 .. Len(b) : Len(a) + k \in 1 .. Len(d)
  BY <1>1
<1>7. /\ \A k \in 1 .. Len(a) : r[k] = a[k]
      /\ \A k \in 1 .. Len(b) : r[Len(a) + k] = b[k]
  BY <1>2, <1>5, <1>6
<1>8. DOMAIN r = 1 .. (Len(a) + Len(b) + 1) /\ r[Len(a) + Len(b) + 1] = c
  BY <1>1, <1>5
<1>9. \A s : s = a \o b \o <<c>> => s = r
  BY <1>3 DEF d
<1>10. DOMAIN a = 1 .. Len(a) /\ DOMAIN b = 1 .. Len(b)
  OBVIOUS
<1> QED
  BY <1>1, <1>5, <1>7, <1>8, <1>9, <1>10

\* The merged list has every host of the environment, and the default, once.
LEMMA MergedUrls ==
  ASSUME env.zan \in Seq(Urls), env.quicknode \in Seq(Urls)
  PROVE  /\ L2_RPC_URLS \in Seq(Endpoints) /\ N \in Nat \ {0} /\ DOMAIN L2_RPC_URLS = 1 .. N
         /\ \A i, j \in 1 .. N : L2_RPC_URLS[i].host = L2_RPC_URLS[j].host => i = j
         /\ {u.host : u \in ToSet(L2_RPC_URLS)} =
              {u.host : u \in ToSet(env.zan) \cup ToSet(env.quicknode)} \cup {"default"}
<1> DEFINE s == env.zan \o env.quicknode \o <<DefaultUrl>>
           key == [u \in Endpoints |-> u.host]
           out == Dedupe(s, key)
           m == Len(env.zan)
           l == Len(env.quicknode)
<1>1. /\ env.zan \in Seq(Endpoints) /\ env.quicknode \in Seq(Endpoints)
      /\ DefaultUrl \in Endpoints
  BY DEF Endpoints
<1>2. /\ m \in Nat /\ l \in Nat /\ DOMAIN env.zan = 1 .. m /\ DOMAIN env.quicknode = 1 .. l
      /\ DOMAIN s = 1 .. (m + l + 1)
      /\ \A k \in 1 .. m : s[k] = env.zan[k]
      /\ \A k \in 1 .. l : s[m + k] = env.quicknode[k]
      /\ s[m + l + 1] = DefaultUrl /\ s \in Seq(Endpoints)
  <2> HIDE DEF s
  <2>1. s = env.zan \o env.quicknode \o <<DefaultUrl>>
    BY DEF s
  <2> DEFINE a == env.zan
             b == env.quicknode
  <2>2. a \in Seq(Endpoints) /\ b \in Seq(Endpoints) /\ s = a \o b \o <<DefaultUrl>>
    BY <1>1, <2>1
  <2> HIDE DEF a, b
  <2>3. /\ s \in Seq(Endpoints) /\ DOMAIN s = 1 .. (Len(a) + Len(b) + 1)
        /\ Len(a) \in Nat /\ Len(b) \in Nat /\ DOMAIN a = 1 .. Len(a) /\ DOMAIN b = 1 .. Len(b)
        /\ \A k \in 1 .. Len(a) : s[k] = a[k]
        /\ \A k \in 1 .. Len(b) : s[Len(a) + k] = b[k]
        /\ s[Len(a) + Len(b) + 1] = DefaultUrl
    BY <1>1, <2>2, JoinFacts
  <2> QED
    BY <2>3 DEF a, b
<1>3. L2_RPC_URLS = out
  BY DEF L2_RPC_URLS, Endpoints
<1> HIDE DEF s, m, l
<1>4. \A k \in DOMAIN s : s[k] \in ToSet(env.zan) \cup ToSet(env.quicknode) \cup {DefaultUrl}
  <2>1. ASSUME NEW k \in DOMAIN s
        PROVE  s[k] \in ToSet(env.zan) \cup ToSet(env.quicknode) \cup {DefaultUrl}
    <3>1. CASE k \in 1 .. m
      BY <1>2, <3>1 DEF ToSet
    <3>2. CASE k = m + l + 1
      BY <1>2, <3>2
    <3>3. CASE k \notin 1 .. m /\ k # m + l + 1
      <4>1. k - m \in 1 .. l /\ k = m + (k - m)
        BY <1>2, <3>3
      <4>2. s[k] = env.quicknode[k - m]
        BY <1>2, <4>1
      <4> QED
        BY <1>2, <4>1, <4>2 DEF ToSet
    <3> QED
      BY <3>1, <3>2, <3>3
  <2> QED
    BY <2>1
<1>5. \A u \in ToSet(env.zan) \cup ToSet(env.quicknode) \cup {DefaultUrl} : \E k \in DOMAIN s : s[k] = u
  <2>1. ASSUME NEW u \in ToSet(env.zan) PROVE \E k \in DOMAIN s : s[k] = u
    <3>1. PICK k \in 1 .. m : env.zan[k] = u
      BY <1>2 DEF ToSet
    <3>2. k \in DOMAIN s /\ s[k] = u
      BY <1>2, <3>1
    <3> QED
      BY <3>2
  <2>2. ASSUME NEW u \in ToSet(env.quicknode) PROVE \E k \in DOMAIN s : s[k] = u
    <3>1. PICK k \in 1 .. l : env.quicknode[k] = u
      BY <1>2 DEF ToSet
    <3>2. m + k \in DOMAIN s /\ s[m + k] = u
      BY <1>2, <3>1
    <3> QED
      BY <3>2
  <2>3. m + l + 1 \in DOMAIN s
    BY <1>2
  <2> QED
    BY <1>2, <2>1, <2>2, <2>3
<1> HIDE DEF key, out
<1>6. /\ out \in Seq(Endpoints)
      /\ \A i, j \in DOMAIN out : key[out[i]] = key[out[j]] => i = j
      /\ \A i \in DOMAIN out : \E k \in DOMAIN s : out[i] = s[k]
      /\ \A k \in DOMAIN s : \E i \in DOMAIN out : key[out[i]] = key[s[k]]
  <2>1. out = Dedupe(s, key)
    BY DEF out
  <2>2. s \in Seq(Endpoints)
    BY <1>2
  <2> QED
    <3>1. /\ Dedupe(s, key) \in Seq(Endpoints)
          /\ \A i, j \in DOMAIN Dedupe(s, key) : key[Dedupe(s, key)[i]] = key[Dedupe(s, key)[j]] => i = j
          /\ \A i \in DOMAIN Dedupe(s, key) : \E k \in DOMAIN s : Dedupe(s, key)[i] = s[k]
          /\ \A k \in DOMAIN s : \E i \in DOMAIN Dedupe(s, key) : key[Dedupe(s, key)[i]] = key[s[k]]
      BY <2>2, DedupeFacts, SMTT(40), ZenonT(60)
    <3> QED
      BY <2>1, <3>1
<1>7. /\ \A i \in DOMAIN out : key[out[i]] = out[i].host
      /\ \A k \in DOMAIN s : key[s[k]] = s[k].host
  <2>1. \A u \in Endpoints : key[u] = u.host
    BY DEF key
  <2>2. (\A i \in DOMAIN out : out[i] \in Endpoints) /\ (\A k \in DOMAIN s : s[k] \in Endpoints)
    BY <1>2, <1>6
  <2> QED
    BY <2>1, <2>2
<1>8. DOMAIN out = 1 .. N /\ N \in Nat \ {0}
  <2>1. N = Len(out) /\ Len(out) \in Nat /\ DOMAIN out = 1 .. Len(out)
    BY <1>3, <1>6 DEF N
  <2>2. DOMAIN out # {}
    <3>1. m + l + 1 \in DOMAIN s
      BY <1>2
    <3> QED
      BY <1>6, <3>1
  <2> QED
    BY <2>1, <2>2
<1>9. ASSUME NEW h
      PROVE  h \in {u.host : u \in ToSet(out)} <=>
               h \in {u.host : u \in ToSet(env.zan) \cup ToSet(env.quicknode)} \cup {"default"}
  <2>0. DefaultUrl.host = "default"
    BY DEF DefaultUrl
  <2>1. ASSUME NEW i \in DOMAIN out, h = out[i].host PROVE \E k \in DOMAIN s : h = s[k].host
    BY <1>6, <2>1
  <2>2. ASSUME NEW k \in DOMAIN s, h = s[k].host PROVE \E i \in DOMAIN out : h = out[i].host
    BY <1>6, <1>7, <2>2
  <2>3. h \in {u.host : u \in ToSet(out)} <=> \E i \in DOMAIN out : h = out[i].host
    BY DEF ToSet
  <2>4. h \in {u.host : u \in ToSet(env.zan) \cup ToSet(env.quicknode)} \cup {"default"}
          <=> \E u \in ToSet(env.zan) \cup ToSet(env.quicknode) \cup {DefaultUrl} : h = u.host
    BY <2>0
  <2>5. (\E u \in ToSet(env.zan) \cup ToSet(env.quicknode) \cup {DefaultUrl} : h = u.host)
          <=> \E k \in DOMAIN s : h = s[k].host
    BY <1>4, <1>5
  <2> QED
    BY <2>1, <2>2, <2>3, <2>4, <2>5
<1>10. \A i, j \in 1 .. N : out[i].host = out[j].host => i = j
  BY <1>6, <1>7, <1>8, ZenonT(60), SMTT(40)
<1> QED
  BY <1>3, <1>6, <1>8, <1>9, <1>10

\* No caller asks at first.
LEMMA SenderStart == SenderInit => SenderInv
<1> SUFFICES ASSUME SenderInit PROVE SenderInv
  OBVIOUS
<1>1. \A n \in Nat : SeqOf(Urls, n) \subseteq Seq(Urls)
  BY DEF SeqOf
<1>2. env.zan \in Seq(Urls) /\ env.quicknode \in Seq(Urls)
  <2>1. env \in [zan : SeqOf(Urls, MaxUrls), quicknode : SeqOf(Urls, MaxUrls)]
    BY DEF SenderInit
  <2>2. env.zan \in SeqOf(Urls, MaxUrls) /\ env.quicknode \in SeqOf(Urls, MaxUrls)
    BY <2>1
  <2> QED
    BY <1>1, <2>2, RouterAssumption
<1>3. sender \in [Senders -> [at : {"idle", "ask", "returned", "thrown"}, start : Nat, i : Nat]]
  BY DEF SenderInit
<1>4. asked \in [Senders -> Seq(Endpoints)]
  BY DEF SenderInit
<1>5. ASSUME NEW s \in Senders
      PROVE  sender[s].at = "idle" /\ sender[s].i = 0 /\ asked[s] = <<>>
  BY DEF SenderInit
<1>6. sharedCursor \in Nat
  BY DEF SenderInit
<1> QED
  BY <1>2, <1>3, <1>4, <1>5, <1>6 DEF SenderInv

\* A caller's row after a question.
SenderRow == [at : {"idle", "ask", "returned", "thrown"}, start : Nat, i : Nat]

\* A caller that goes on to an attempt, or ends, keeps where it started.
LEMMA SenderRowAfter ==
  ASSUME NEW x \in SenderRow, NEW n \in Nat, NEW a \in {"idle", "ask", "returned", "thrown"}
  PROVE  [x EXCEPT !.i = n, !.at = a] = [at |-> a, start |-> x.start, i |-> n]
<1> DEFINE y == [x EXCEPT !.i = n]
           z == [y EXCEPT !.at = a]
<1>1. x = [at |-> x.at, start |-> x.start, i |-> x.i]
  BY DEF SenderRow
<1>2. y = [at |-> x.at, start |-> x.start, i |-> n]
  BY <1>1
<1>3. z = [at |-> a, start |-> x.start, i |-> n]
  <2> HIDE DEF y
  <2> QED
    BY <1>2
<1> QED
  BY <1>3

\* A caller asks the endpoints in a circle from where it started.
LEMMA SenderStep == SenderInv /\ [SenderNext]_senderVars => SenderInv'
<1> SUFFICES ASSUME SenderInv, [SenderNext]_senderVars PROVE SenderInv'
  OBVIOUS
<1> DEFINE Row == SenderRow
           L == L2_RPC_URLS
           Right(s) ==
             /\ Len(asked[s]) = sender[s].i
             /\ sender[s].at # "idle" => sender[s].start \in 0 .. (N - 1)
             /\ sender[s].at = "ask" => sender[s].i < N
             /\ sender[s].at = "thrown" => sender[s].i = N
             /\ \A k \in 1 .. sender[s].i :
                  asked[s][k] = L2_RPC_URLS[((sender[s].start + (k - 1)) % N) + 1]
<1>1. /\ env.zan \in Seq(Urls) /\ env.quicknode \in Seq(Urls) /\ sharedCursor \in Nat
      /\ sender \in [Senders -> Row] /\ asked \in [Senders -> Seq(Endpoints)]
      /\ \A s \in Senders : Right(s)
  BY DEF SenderInv, SenderRow
<1>2. L \in Seq(Endpoints) /\ N \in Nat \ {0} /\ DOMAIN L = 1 .. N
  BY <1>1, MergedUrls
<1>3. ASSUME UNCHANGED env PROVE UNCHANGED <<L2_RPC_URLS, N>>
  BY <1>3 DEF L2_RPC_URLS, N
<1>4. ASSUME NEW s \in Senders, NEW r \in Row, NEW q \in Seq(Endpoints),
             sender' = [sender EXCEPT ![s] = r], asked' = [asked EXCEPT ![s] = q],
             UNCHANGED env, sharedCursor' \in Nat,
             Len(q) = r.i, r.at # "idle" => r.start \in 0 .. (N - 1),
             r.at = "ask" => r.i < N, r.at = "thrown" => r.i = N,
             \A k \in 1 .. r.i : q[k] = L[((r.start + (k - 1)) % N) + 1]
      PROVE  SenderInv'
  <2>1. sender' \in [Senders -> Row] /\ asked' \in [Senders -> Seq(Endpoints)]
    BY <1>1, <1>4
  <2>2. sender'[s] = r /\ asked'[s] = q /\ N' = N /\ L2_RPC_URLS' = L
    BY <1>1, <1>3, <1>4
  <2>3. Right(s)'
    <3> HIDE DEF L
    <3> QED
      BY <1>4, <2>2
  <2>4. ASSUME NEW p \in Senders \ {s} PROVE Right(p)'
    <3>1. sender'[p] = sender[p] /\ asked'[p] = asked[p]
      BY <1>1, <1>4
    <3> QED
      BY <1>1, <2>2, <3>1
  <2>5. \A p \in Senders : Right(p)'
    BY <2>3, <2>4
  <2> QED
    BY <1>1, <1>4, <2>1, <2>5 DEF SenderInv, SenderRow
<1>5. ASSUME NEW s \in Senders, SenderSend(s) PROVE SenderInv'
  <2> DEFINE r == [at |-> "ask", start |-> sharedCursor % N, i |-> 0]
  <2>1. /\ sender' = [sender EXCEPT ![s] = r] /\ asked' = [asked EXCEPT ![s] = <<>>]
        /\ UNCHANGED env /\ sharedCursor' = sharedCursor + 1
    BY <1>5 DEF SenderSend
  <2>2. sharedCursor % N \in 0 .. (N - 1)
    BY <1>1, <1>2
  <2>3. r \in Row /\ r.at = "ask" /\ r.start \in 0 .. (N - 1) /\ r.i = 0
    BY <1>2, <2>2 DEF SenderRow
  <2>4. <<>> \in Seq(Endpoints) /\ Len(<<>>) = 0
    OBVIOUS
  <2> HIDE DEF r, Row, Right
  <2>5. 0 < N /\ sharedCursor' \in Nat /\ \A k \in 1 .. 0 : FALSE
    BY <1>1, <1>2, <2>1
  <2> DEFINE q == <<>>
  <2>6. q \in Seq(Endpoints) /\ Len(q) = 0 /\ asked' = [asked EXCEPT ![s] = q]
    BY <2>1, <2>4
  <2> HIDE DEF q
  <2> QED
    BY <1>4, <2>1, <2>3, <2>5, <2>6
<1>6. ASSUME NEW s \in Senders, NEW ok \in BOOLEAN, SenderAsk(s, ok) PROVE SenderInv'
  <2> DEFINE i == sender[s].i
             start == sender[s].start
             at == IF ok THEN "returned" ELSE IF i + 1 < N THEN "ask" ELSE "thrown"
             r == [at |-> at, start |-> start, i |-> i + 1]
             u == L[((start + i) % N) + 1]
             q == Append(asked[s], u)
  <2>1. /\ sender[s].at = "ask" /\ UNCHANGED <<env, sharedCursor>>
        /\ asked' = [asked EXCEPT ![s] = q]
    BY <1>6 DEF SenderAsk
  <2>2. sender[s] \in Row /\ Right(s) /\ asked[s] \in Seq(Endpoints)
    BY <1>1
  <2>3. sender' = [sender EXCEPT ![s] = r]
    <3>1. sender' = [sender EXCEPT ![s].i = i + 1, ![s].at = at]
      BY <1>6 DEF SenderAsk
    <3>2. [sender[s] EXCEPT !.i = i + 1, !.at = at] = r
      <4> DEFINE x == sender[s]
                 n == i + 1
      <4>1. x \in SenderRow /\ n \in Nat /\ at \in {"idle", "ask", "returned", "thrown"}
        BY <2>2 DEF SenderRow
      <4> HIDE DEF x, n, at
      <4>2. [x EXCEPT !.i = n, !.at = at] = [at |-> at, start |-> x.start, i |-> n]
        BY <4>1, SenderRowAfter, ZenonT(60)
      <4> QED
        BY <4>2 DEF x, n
    <3>3. sender' = [sender EXCEPT ![s] = [sender[s] EXCEPT !.i = i + 1, !.at = at]]
      BY <1>1, <3>1
    <3> QED
      BY <3>2, <3>3
  <2>4. i \in Nat /\ i < N /\ start \in 0 .. (N - 1) /\ Len(asked[s]) = i
    BY <2>1, <2>2
  <2>5. u \in Endpoints
    <3>1. (start + i) % N \in 0 .. (N - 1)
      BY <1>2, <2>4, SMTT(40)
    <3> HIDE DEF L
    <3> QED
      BY <1>2, <3>1
  <2> HIDE DEF u, L, i, start
  <2>6. r \in Row /\ r.i = i + 1 /\ r.start = start
    BY <2>2, <2>4 DEF start, SenderRow
  <2>7. (r.at = "ask" => i + 1 < N) /\ (r.at = "thrown" => i + 1 = N) /\ r.at # "idle"
    BY <1>2, <2>4
  <2>8. q \in Seq(Endpoints) /\ Len(q) = i + 1
    BY <2>2, <2>4, <2>5
  <2>9. ASSUME NEW k \in 1 .. (i + 1) PROVE q[k] = L[((start + (k - 1)) % N) + 1]
    <3>1. CASE k = i + 1
      BY <2>2, <2>4, <2>5, <3>1 DEF u
    <3>2. CASE k # i + 1
      <4>1. k \in 1 .. i /\ q[k] = asked[s][k]
        BY <2>2, <2>4, <2>5, <3>2
      <4> QED
        BY <2>2, <4>1 DEF i, start, L
    <3> QED
      BY <3>1, <3>2
  <2> HIDE DEF r, q, Row, Right
  <2> QED
    BY <1>1, <1>4, <2>1, <2>3, <2>4, <2>6, <2>7, <2>8, <2>9
<1>7. CASE UNCHANGED senderVars
  BY <1>3, <1>7, SMTT(40), ZenonT(60) DEF senderVars, SenderInv
<1> QED
  BY <1>5, <1>6, <1>7 DEF SenderNext

\* Going round the list from anywhere asks every endpoint.
LEMMA SenderCovers == SenderInv => SenderCoversAll
<1> SUFFICES ASSUME SenderInv, NEW s \in Senders, sender[s].at = "thrown"
             PROVE  /\ ToSet(asked[s]) = ToSet(L2_RPC_URLS)
                    /\ {u.host : u \in ToSet(asked[s])} =
                         {u.host : u \in ToSet(env.zan) \cup ToSet(env.quicknode)} \cup {"default"}
                    /\ Len(asked[s]) = Cardinality({u.host : u \in ToSet(asked[s])})
  BY DEF SenderCoversAll
<1> DEFINE L == L2_RPC_URLS
           q == asked[s]
           start == sender[s].start
           hosts == {u.host : u \in ToSet(L)}
<1>1. /\ L \in Seq(Endpoints) /\ N \in Nat \ {0} /\ DOMAIN L = 1 .. N
      /\ \A i, j \in 1 .. N : L[i].host = L[j].host => i = j
      /\ hosts = {u.host : u \in ToSet(env.zan) \cup ToSet(env.quicknode)} \cup {"default"}
  BY MergedUrls DEF SenderInv
<1>2. /\ q \in Seq(Endpoints) /\ Len(q) = N /\ start \in 0 .. (N - 1)
      /\ \A k \in 1 .. N : q[k] = L[((start + (k - 1)) % N) + 1]
  BY DEF SenderInv
<1> HIDE DEF L, q, start
<1>3. DOMAIN q = 1 .. N
  BY <1>1, <1>2
<1>4. ASSUME NEW k \in 1 .. N PROVE ((start + (k - 1)) % N) + 1 \in 1 .. N
  <2>1. (start + (k - 1)) % N \in 0 .. (N - 1)
    BY <1>1, <1>2
  <2> QED
    BY <1>1, <2>1
<1>5. ASSUME NEW j \in 1 .. N PROVE \E k \in 1 .. N : q[k] = L[j]
  <2> DEFINE k == IF j - 1 >= start THEN j - start ELSE j - start + N
  <2>1. k \in 1 .. N /\ k - 1 \in 0 .. (N - 1)
    BY <1>1, <1>2
  <2>2. IF start + (k - 1) < N THEN start + (k - 1) = j - 1 ELSE start + (k - 1) - N = j - 1
    BY <1>1, <1>2
  <2> HIDE DEF k
  <2>3. (start + (k - 1)) % N = j - 1
    <3> DEFINE b == k - 1
    <3>1. b \in 0 .. (N - 1) /\ IF start + b < N THEN start + b = j - 1 ELSE start + b - N = j - 1
      BY <2>1, <2>2
    <3> HIDE DEF b
    <3>2. (start + b) % N = IF start + b < N THEN start + b ELSE start + b - N
      BY <1>1, <1>2, <3>1, RoundFacts
    <3>3. (start + b) % N = j - 1
      BY <3>1, <3>2
    <3> QED
      BY <3>3 DEF b
  <2>4. q[k] = L[(j - 1) + 1]
    BY <1>2, <2>1, <2>3
  <2>5. (j - 1) + 1 = j
    BY <1>1
  <2> QED
    BY <2>1, <2>4, <2>5
<1>6. ToSet(q) = ToSet(L)
  <2>1. \A k \in 1 .. N : \E j \in 1 .. N : q[k] = L[j]
    BY <1>2, <1>4
  <2>2. ToSet(q) = {q[k] : k \in 1 .. N} /\ ToSet(L) = {L[j] : j \in 1 .. N}
    BY <1>1, <1>3 DEF ToSet
  <2> QED
    BY <1>5, <2>1, <2>2
<1>7. Cardinality(hosts) = N
  <2> DEFINE f == [k \in 1 .. N |-> L[k].host]
  <2>1. \A k \in 1 .. N : f[k] \in hosts
    BY <1>1 DEF ToSet
  <2>2. \A h \in hosts : \E k \in 1 .. N : f[k] = h
    BY <1>1 DEF ToSet
  <2>3. \A i, j \in 1 .. N : f[i] = f[j] => i = j
    BY <1>1
  <2>4. f \in Bijection(1 .. N, hosts)
    <3>1. f \in [1 .. N -> hosts]
      BY <2>1
    <3> HIDE DEF f, hosts
    <3> QED
      BY <2>2, <2>3, <3>1 DEF Bijection, Injection, Surjection, IsInjective
  <2>5. ExistsBijection(1 .. N, hosts)
    BY <2>4 DEF ExistsBijection
  <2> HIDE DEF hosts
  <2> QED
    BY <1>1, <2>5, FS_CountingElements
<1> QED
  BY <1>1, <1>2, <1>6, <1>7 DEF L, q

-----------------------------------------------------------------------------

\* The calls of sendRpc and of the round-robin sender side by side: whichever throws has
\* asked every URL that could serve it, and none more often than it may
\* (providerRoles.ts:342-380, ethersMulti.ts:74-88).
THEOREM CallsThrowAfterAll == RouterSpec /\ SenderSpec => []ThrowsAfterAll
<1>1. RouterSpec => []RouterInv
  BY RouterStart, RouterStep, PTL DEF RouterSpec
<1>2. SenderSpec => []SenderInv
  BY SenderStart, SenderStep, PTL DEF SenderSpec
<1>3. RouterInv /\ SenderInv => ThrowsAfterAll
  BY RouterTries, SenderCovers DEF ThrowsAfterAll
<1> QED
  BY <1>1, <1>2, <1>3, PTL

\* For every list of URLs and every limit of attempts, no failure and no list leads a call
\* to a provider while one that it prefers has a URL left to try (providerRoles.ts:128-135
\* and 158-164).
THEOREM PreferredAlwaysFirst == RouterSpec => []PreferredFirst
<1>1. RouterSpec => []RouterInv
  BY RouterStart, RouterStep, PTL DEF RouterSpec
<1> QED
  BY <1>1, RouterPrefers, PTL
=============================================================================
