----------------------- MODULE EventCoordinatorProofs -----------------------
(***************************************************************************)
(* Proofs about EventCoordinator, for any traders, events, plans and clock *)
(* bounds: every planned order is accounted for once, is sent at most once *)
(* and never after its event was reported complete.                        *)
(*                                                                         *)
(* The counters are sums over the events and the traders, so the first     *)
(* part says how a finite sum changes.  It is proved from the library's    *)
(* definition of the sum by looking at a smallest set for which a claim    *)
(* fails: FiniteSetTheorems' strict subset order is well-founded.          *)
(***************************************************************************)
EXTENDS EventCoordinator, FiniteSetTheorems, WellFoundedInduction, SequenceTheorems, TLAPS

\* A non-empty family of subsets of a finite set has a smallest member: nothing
\* can be taken out of it.
LEMMA SmallestMember ==
    ASSUME NEW S, IsFiniteSet(S), NEW F \in SUBSET (SUBSET S), F # {}
    PROVE  \E T \in F : IsFiniteSet(T) /\ \A x \in T : T \ {x} \notin F
<1>1. F \subseteq FiniteSubsetsOf(S)
  BY FS_Subset DEF FiniteSubsetsOf
<1>2. IsWellFoundedOn(StrictSubsetOrdering(S), FiniteSubsetsOf(S))
  BY FS_StrictSubsetOrderingWellFounded
<1>3. PICK T \in F : \A U \in F : ~(<<U, T>> \in StrictSubsetOrdering(S))
  BY <1>1, <1>2, WFMin
<1>4. \A x \in T : T \ {x} \notin F
  BY <1>3 DEF StrictSubsetOrdering
<1> QED BY <1>1, <1>3, <1>4, FS_Subset

Picked(s) == CHOOSE x \in s : TRUE

\* How the library adds up: one element at a time, in an order nobody knows.
IsIter(g, f, S) ==
    g = [s \in SUBSET S |-> IF s = {} THEN 0 ELSE f[Picked(s)] + g[s \ {Picked(s)}]]

LEMMA SumExpand ==
    ASSUME NEW f, NEW S
    PROVE  SumFunctionOnSet(f, S) = (CHOOSE g : IsIter(g, f, S))[S]
BY DEF SumFunctionOnSet, FoldFunctionOnSet, MapThenFoldSet, IsIter, Picked

LEMMA IterStep ==
    ASSUME NEW S, NEW f, NEW g, IsIter(g, f, S), NEW U \in SUBSET S
    PROVE  IF U = {} THEN g[U] = 0
           ELSE Picked(U) \in U /\ g[U] = f[Picked(U)] + g[U \ {Picked(U)}]
BY DEF IsIter, Picked

LEMMA IterUnique ==
    ASSUME NEW S, IsFiniteSet(S), NEW T, NEW f, NEW g, IsIter(g, f, S), NEW h, IsIter(h, f, T),
           NEW U \in SUBSET S, U \subseteq T
    PROVE  g[U] = h[U]
<1> DEFINE F == {V \in SUBSET S : V \subseteq T /\ g[V] # h[V]}
<1> SUFFICES ASSUME F # {} PROVE FALSE
  OBVIOUS
<1>1. PICK V \in F : \A x \in V : V \ {x} \notin F
  <2> HIDE DEF F
  <2>1. F \in SUBSET (SUBSET S)
    BY DEF F
  <2> QED BY <2>1, SmallestMember
<1>2. V \in SUBSET S /\ V \in SUBSET T /\ g[V] # h[V]
  OBVIOUS
<1>3. V # {} /\ Picked(V) \in V
  BY <1>2, IterStep
<1>4. g[V \ {Picked(V)}] = h[V \ {Picked(V)}]
  BY <1>1, <1>2, <1>3
<1>5. g[V] = f[Picked(V)] + g[V \ {Picked(V)}]
  <2> HIDE DEF F
  <2> QED BY <1>2, <1>3, IterStep
<1>6. h[V] = f[Picked(V)] + h[V \ {Picked(V)}]
  <2> HIDE DEF F
  <2> QED BY <1>2, <1>3, IterStep
<1> HIDE DEF F
<1> QED BY <1>2, <1>4, <1>5, <1>6

LEMMA IterExists ==
    ASSUME NEW S, IsFiniteSet(S), NEW f
    PROVE  \E g : IsIter(g, f, S)
<1> DEFINE F == {V \in SUBSET S : ~\E g : IsIter(g, f, V)}
           it(V) == CHOOSE g : IsIter(g, f, V)
<1> SUFFICES ASSUME F # {} PROVE FALSE
  OBVIOUS
<1>1. PICK V \in F : IsFiniteSet(V) /\ \A x \in V : V \ {x} \notin F
  <2> HIDE DEF F
  <2>1. F \in SUBSET (SUBSET S)
    BY DEF F
  <2> QED BY <2>1, SmallestMember
<1>2. \A x \in V : IsIter(it(V \ {x}), f, V \ {x})
  BY <1>1
<1> DEFINE g == [s \in SUBSET V |->
                   IF s = {} THEN 0
                   ELSE IF s = V THEN f[Picked(V)] + it(V \ {Picked(V)})[V \ {Picked(V)}]
                   ELSE it(V \ {CHOOSE x \in V : x \notin s})[s]]
<1> HIDE DEF it
<1>3. ASSUME NEW s \in SUBSET V, s # V, NEW x \in V \ s
      PROVE  g[s] = it(V \ {x})[s]
  <2>1. CASE s = {}
    <3>1. it(V \ {x})[{}] = 0
      BY <1>2, IterStep
    <3> QED BY <2>1, <3>1
  <2>2. CASE s # {}
    <3> DEFINE y == CHOOSE z \in V : z \notin s
    <3>1. y \in V /\ y \notin s
      BY <1>3
    <3>2. IsFiniteSet(V \ {y})
      BY <1>1, FS_RemoveElement
    <3>3. it(V \ {y})[s] = it(V \ {x})[s]
      <4> HIDE DEF y, g
      <4> QED BY <1>2, <3>1, <3>2, <1>3, IterUnique
    <3> QED BY <2>2, <3>3, <1>3
  <2> QED BY <2>1, <2>2
<1>4. ASSUME NEW s \in SUBSET V, s # {}
      PROVE  g[s] = f[Picked(s)] + g[s \ {Picked(s)}]
  <2>1. Picked(s) \in s
    BY <1>4 DEF Picked
  <2>2. CASE s = V
    <3>1. g[V \ {Picked(V)}] = it(V \ {Picked(V)})[V \ {Picked(V)}]
      <4> HIDE DEF g
      <4> QED BY <1>3, <2>1, <2>2
    <3>2. V # {} /\ g[V] = f[Picked(V)] + it(V \ {Picked(V)})[V \ {Picked(V)}]
      BY <1>4, <2>2
    <3> QED BY <2>2, <3>1, <3>2
  <2>3. CASE s # V
    <3>1. PICK x \in V : x \notin s
      BY <2>3
    <3>2. g[s] = it(V \ {x})[s] /\ g[s \ {Picked(s)}] = it(V \ {x})[s \ {Picked(s)}]
      <4> HIDE DEF g
      <4>1. s \ {Picked(s)} \in SUBSET V /\ s \ {Picked(s)} # V /\ x \in V \ (s \ {Picked(s)})
        BY <3>1
      <4> QED BY <1>3, <2>3, <3>1, <4>1
    <3>3. it(V \ {x})[s] = f[Picked(s)] + it(V \ {x})[s \ {Picked(s)}]
      BY <1>2, <1>4, <3>1, IterStep
    <3> QED BY <3>2, <3>3
  <2> QED BY <2>2, <2>3
<1>5. g[{}] = 0
  OBVIOUS
<1>6. IsIter(g, f, V)
  <2>1. g = [s \in SUBSET V |-> g[s]]
    OBVIOUS
  <2> HIDE DEF g
  <2>2. \A s \in SUBSET V : g[s] = IF s = {} THEN 0 ELSE f[Picked(s)] + g[s \ {Picked(s)}]
    BY <1>4, <1>5
  <2> QED BY <2>1, <2>2 DEF IsIter
<1> QED BY <1>1, <1>6

\* The sum over the empty set, and one element taken out: whichever it is.
LEMMA SumEmpty ==
    ASSUME NEW f
    PROVE  SumFunctionOnSet(f, {}) = 0
<1> DEFINE g == CHOOSE g : IsIter(g, f, {})
<1>1. IsIter(g, f, {})
  BY IterExists, FS_EmptySet
<1> HIDE DEF g
<1>2. g[{}] = 0
  BY <1>1, IterStep
<1> QED BY <1>2, SumExpand DEF g

LEMMA SumPicked ==
    ASSUME NEW S, IsFiniteSet(S), S # {}, NEW f
    PROVE  /\ Picked(S) \in S
           /\ SumFunctionOnSet(f, S) = f[Picked(S)] + SumFunctionOnSet(f, S \ {Picked(S)})
<1> DEFINE x == Picked(S)
           T == S \ {x}
           g == CHOOSE g : IsIter(g, f, S)
           h == CHOOSE h : IsIter(h, f, T)
<1>0. x \in S /\ IsFiniteSet(T)
  BY FS_RemoveElement DEF Picked
<1>1. IsIter(g, f, S)
  BY IterExists
<1>2. IsIter(h, f, T)
  <2> HIDE DEF T
  <2> QED BY <1>0, IterExists
<1>3. SumFunctionOnSet(f, S) = g[S] /\ SumFunctionOnSet(f, T) = h[T]
  BY SumExpand
<1> HIDE DEF g, h
<1>4. g[S] = f[x] + g[T]
  BY <1>1, IterStep
<1>5. g[T] = h[T]
  <2> HIDE DEF T
  <2>1. T \in SUBSET S
    BY DEF T
  <2> QED BY <1>1, <1>2, <2>1, IterUnique
<1> QED BY <1>0, <1>3, <1>4, <1>5

LEMMA SumType ==
    ASSUME NEW S, IsFiniteSet(S), NEW f, \A x \in S : f[x] \in Int
    PROVE  SumFunctionOnSet(f, S) \in Int
<1> DEFINE F == {T \in SUBSET S : SumFunctionOnSet(f, T) \notin Int}
<1> SUFFICES ASSUME F # {} PROVE FALSE
  OBVIOUS
<1>1. PICK T \in F : IsFiniteSet(T) /\ \A x \in T : T \ {x} \notin F
  <2> HIDE DEF F
  <2>1. F \in SUBSET (SUBSET S)
    BY DEF F
  <2> QED BY <2>1, SmallestMember
<1>2. T # {}
  <2>1. SumFunctionOnSet(f, T) \notin Int
    OBVIOUS
  <2>2. 0 \in Int
    OBVIOUS
  <2> HIDE DEF F
  <2> QED BY <2>1, <2>2, SumEmpty
<1>3. SumFunctionOnSet(f, T \ {Picked(T)}) \in Int /\ Picked(T) \in T
  BY <1>1, <1>2, SumPicked
<1> QED BY <1>1, <1>2, <1>3, SumPicked

LEMMA SumNat ==
    ASSUME NEW S, IsFiniteSet(S), NEW f, \A x \in S : f[x] \in Nat
    PROVE  SumFunctionOnSet(f, S) \in Nat
<1> DEFINE F == {T \in SUBSET S : SumFunctionOnSet(f, T) \notin Nat}
<1> SUFFICES ASSUME F # {} PROVE FALSE
  OBVIOUS
<1>1. PICK T \in F : IsFiniteSet(T) /\ \A x \in T : T \ {x} \notin F
  <2> HIDE DEF F
  <2>1. F \in SUBSET (SUBSET S)
    BY DEF F
  <2> QED BY <2>1, SmallestMember
<1>2. T # {}
  <2>1. SumFunctionOnSet(f, T) \notin Nat
    OBVIOUS
  <2>2. 0 \in Nat
    OBVIOUS
  <2> HIDE DEF F
  <2> QED BY <2>1, <2>2, SumEmpty
<1> DEFINE x == Picked(T)
           U == T \ {x}
<1>3. x \in T /\ SumFunctionOnSet(f, T) = f[x] + SumFunctionOnSet(f, U) /\ U \notin F /\ U \in SUBSET S /\ x \in S
  BY <1>1, <1>2, SumPicked
<1>4. SumFunctionOnSet(f, U) \in Nat /\ SumFunctionOnSet(f, T) \notin Nat
  BY <1>3
<1> HIDE DEF F, x, U
<1>5. f[x] \in Nat
  BY <1>3
<1> QED BY <1>3, <1>4, <1>5

LEMMA SumTakeOut ==
    ASSUME NEW S, IsFiniteSet(S), NEW f, \A x \in S : f[x] \in Int, NEW a \in S
    PROVE  SumFunctionOnSet(f, S) = f[a] + SumFunctionOnSet(f, S \ {a})
<1> DEFINE F == {T \in SUBSET S : \E x \in T : SumFunctionOnSet(f, T) # f[x] + SumFunctionOnSet(f, T \ {x})}
<1> SUFFICES ASSUME F # {} PROVE FALSE
  OBVIOUS
<1>1. PICK T \in F : IsFiniteSet(T) /\ \A x \in T : T \ {x} \notin F
  <2> HIDE DEF F
  <2>1. F \in SUBSET (SUBSET S)
    BY DEF F
  <2> QED BY <2>1, SmallestMember
<1>2. PICK x \in T : SumFunctionOnSet(f, T) # f[x] + SumFunctionOnSet(f, T \ {x})
  OBVIOUS
<1> DEFINE y == Picked(T)
<1>3. y \in T /\ SumFunctionOnSet(f, T) = f[y] + SumFunctionOnSet(f, T \ {y})
  BY <1>1, SumPicked
<1>4. x # y
  BY <1>2, <1>3
<1>5. (T \ {x}) \ {y} = (T \ {y}) \ {x}
  OBVIOUS
<1>6. SumFunctionOnSet(f, T \ {x}) = f[y] + SumFunctionOnSet(f, (T \ {x}) \ {y})
  BY <1>1, <1>3, <1>4
<1>7. SumFunctionOnSet(f, T \ {y}) = f[x] + SumFunctionOnSet(f, (T \ {y}) \ {x})
  BY <1>1, <1>3, <1>4
<1>8. SumFunctionOnSet(f, (T \ {x}) \ {y}) \in Int /\ f[x] \in Int /\ f[y] \in Int
  <2>1. IsFiniteSet((T \ {x}) \ {y})
    BY <1>1, FS_RemoveElement
  <2> QED BY <1>3, <2>1, SumType
<1> QED
  <2> HIDE DEF y
  <2> QED BY <1>2, <1>3, <1>5, <1>6, <1>7, <1>8

LEMMA SumZero ==
    ASSUME NEW S, IsFiniteSet(S), NEW f, \A x \in S : f[x] = 0
    PROVE  SumFunctionOnSet(f, S) = 0
<1> DEFINE F == {T \in SUBSET S : SumFunctionOnSet(f, T) # 0}
<1> SUFFICES ASSUME F # {} PROVE FALSE
  OBVIOUS
<1>1. PICK T \in F : IsFiniteSet(T) /\ \A x \in T : T \ {x} \notin F
  <2> HIDE DEF F
  <2>1. F \in SUBSET (SUBSET S)
    BY DEF F
  <2> QED BY <2>1, SmallestMember
<1>2. T # {}
  <2>1. SumFunctionOnSet(f, T) # 0
    OBVIOUS
  <2> HIDE DEF F
  <2> QED BY <2>1, SumEmpty
<1>3. SumFunctionOnSet(f, T) = f[Picked(T)] + SumFunctionOnSet(f, T \ {Picked(T)}) /\ Picked(T) \in T
  BY <1>1, <1>2, SumPicked
<1> QED BY <1>1, <1>3

\* Sums of sums, and one summand changed.
LEMMA SumAdds ==
    ASSUME NEW S, IsFiniteSet(S), NEW f, NEW g, NEW h,
           \A x \in S : f[x] \in Int /\ g[x] \in Int /\ h[x] = f[x] + g[x]
    PROVE  SumFunctionOnSet(h, S) = SumFunctionOnSet(f, S) + SumFunctionOnSet(g, S)
<1> DEFINE F == {T \in SUBSET S : SumFunctionOnSet(h, T) # SumFunctionOnSet(f, T) + SumFunctionOnSet(g, T)}
<1> SUFFICES ASSUME F # {} PROVE FALSE
  OBVIOUS
<1>1. PICK T \in F : IsFiniteSet(T) /\ \A x \in T : T \ {x} \notin F
  <2> HIDE DEF F
  <2>1. F \in SUBSET (SUBSET S)
    BY DEF F
  <2> QED BY <2>1, SmallestMember
<1>2. T # {}
  <2> SUFFICES ASSUME T = {} PROVE FALSE
    OBVIOUS
  <2>1. SumFunctionOnSet(h, T) = 0 /\ SumFunctionOnSet(f, T) = 0 /\ SumFunctionOnSet(g, T) = 0
    <3> HIDE DEF F
    <3> QED BY SumEmpty
  <2> QED BY <2>1
<1> DEFINE x == Picked(T)
           U == T \ {x}
<1>3. /\ x \in T /\ IsFiniteSet(U) /\ U \in SUBSET S
      /\ SumFunctionOnSet(f, T) = f[x] + SumFunctionOnSet(f, U)
      /\ SumFunctionOnSet(g, T) = g[x] + SumFunctionOnSet(g, U)
      /\ SumFunctionOnSet(h, T) = h[x] + SumFunctionOnSet(h, U)
  BY <1>1, <1>2, SumPicked, FS_RemoveElement
<1>4. SumFunctionOnSet(h, U) = SumFunctionOnSet(f, U) + SumFunctionOnSet(g, U)
  BY <1>1, <1>3
<1> HIDE DEF U, x
<1>5. SumFunctionOnSet(f, U) \in Int /\ SumFunctionOnSet(g, U) \in Int
  BY <1>3, SumType
<1>6. SumFunctionOnSet(h, T) # SumFunctionOnSet(f, T) + SumFunctionOnSet(g, T)
  OBVIOUS
<1>7. f[x] \in Int /\ g[x] \in Int /\ h[x] = f[x] + g[x]
  BY <1>3
<1> HIDE DEF F
<1> QED BY <1>3, <1>4, <1>5, <1>6, <1>7

LEMMA SumSame ==
    ASSUME NEW S, IsFiniteSet(S), NEW f, NEW g, \A x \in S : f[x] \in Int /\ g[x] = f[x]
    PROVE  SumFunctionOnSet(g, S) = SumFunctionOnSet(f, S)
<1> DEFINE z == [x \in S |-> 0]
<1>1. \A x \in S : z[x] = 0 /\ z[x] \in Int /\ g[x] = f[x] + z[x]
  OBVIOUS
<1> HIDE DEF z
<1>2. SumFunctionOnSet(z, S) = 0 /\ SumFunctionOnSet(g, S) = SumFunctionOnSet(f, S) + SumFunctionOnSet(z, S)
  BY <1>1, SumZero, SumAdds
<1>3. SumFunctionOnSet(f, S) \in Int
  BY SumType
<1> QED BY <1>2, <1>3

LEMMA SumChanges ==
    ASSUME NEW S, IsFiniteSet(S), NEW f, NEW g, \A x \in S : f[x] \in Int /\ g[x] \in Int,
           NEW a \in S, \A x \in S : x # a => g[x] = f[x]
    PROVE  SumFunctionOnSet(g, S) = SumFunctionOnSet(f, S) - f[a] + g[a]
<1> DEFINE T == S \ {a}
<1>1. IsFiniteSet(T)
  BY FS_RemoveElement
<1>2. \A x \in T : f[x] \in Int /\ g[x] = f[x]
  OBVIOUS
<1>3. SumFunctionOnSet(f, S) = f[a] + SumFunctionOnSet(f, T) /\ SumFunctionOnSet(g, S) = g[a] + SumFunctionOnSet(g, T)
  BY SumTakeOut
<1> HIDE DEF T
<1>4. SumFunctionOnSet(g, T) = SumFunctionOnSet(f, T) /\ SumFunctionOnSet(f, T) \in Int
  BY <1>1, <1>2, SumSame, SumType
<1> QED BY <1>3, <1>4

\* Shares handed out by a key add up to what is shared: share[e] has w[u] for
\* those u of which the key is e, and p[e] is its sum.
SharedByKey(S, T, key, w, share, p) ==
    /\ \A u \in T : w[u] \in Int /\ (key[u] \in S \/ w[u] = 0)
    /\ \A e \in S : \A u \in T : share[e][u] = IF key[u] = e THEN w[u] ELSE 0
    /\ \A e \in S : p[e] = SumFunctionOnSet(share[e], T)

LEMMA SumByKey ==
    ASSUME NEW S, IsFiniteSet(S), NEW T, IsFiniteSet(T), NEW key, NEW w, NEW share, NEW p,
           SharedByKey(S, T, key, w, share, p)
    PROVE  SumFunctionOnSet(p, S) = SumFunctionOnSet(w, T)
<1> USE DEF SharedByKey
<1> DEFINE part(U) == [e \in S |-> SumFunctionOnSet(share[e], U)]
           F == {U \in SUBSET T : SumFunctionOnSet(part(U), S) # SumFunctionOnSet(w, U)}
<1>a. \A e \in S : \A u \in T : share[e][u] = (IF key[u] = e THEN w[u] ELSE 0) /\ share[e][u] \in Int
  OBVIOUS
<1>b. \A U : \A e \in S : part(U)[e] = SumFunctionOnSet(share[e], U)
  OBVIOUS
<1> HIDE DEF part
<1>c. SumFunctionOnSet(p, S) = SumFunctionOnSet(part(T), S)
  <2>1. \A e \in S : part(T)[e] \in Int /\ p[e] = part(T)[e]
    BY <1>a, <1>b, SumType
  <2> QED BY <2>1, SumSame
<1> SUFFICES ASSUME F # {} PROVE FALSE
  BY <1>c
<1>1. PICK U \in F : IsFiniteSet(U) /\ \A x \in U : U \ {x} \notin F
  <2> HIDE DEF F
  <2>1. F \in SUBSET (SUBSET T)
    BY DEF F
  <2> QED BY <2>1, SmallestMember
<1> DEFINE u == Picked(U)
           V == U \ {u}
<1>2. U # {}
  <2> SUFFICES ASSUME U = {} PROVE FALSE
    OBVIOUS
  <2>1. \A e \in S : part(U)[e] = 0
    BY <1>b, SumEmpty
  <2>2. SumFunctionOnSet(part(U), S) = 0
    BY <2>1, SumZero
  <2> QED BY <2>2, SumEmpty
<1>3. /\ u \in U /\ V \in SUBSET T /\ IsFiniteSet(V) /\ V \notin F /\ u \in T
      /\ SumFunctionOnSet(w, U) = w[u] + SumFunctionOnSet(w, V)
      /\ \A e : SumFunctionOnSet(share[e], U) = share[e][u] + SumFunctionOnSet(share[e], V)
  BY <1>1, <1>2, SumPicked, FS_RemoveElement
<1>4. /\ SumFunctionOnSet(part(V), S) = SumFunctionOnSet(w, V)
      /\ SumFunctionOnSet(part(U), S) # SumFunctionOnSet(w, U)
  BY <1>3
<1> HIDE DEF F, u, V
<1>5. SumFunctionOnSet(w, V) \in Int /\ w[u] \in Int
        /\ \A e \in S : SumFunctionOnSet(share[e], V) \in Int /\ SumFunctionOnSet(share[e], U) \in Int
  <2>1. IsFiniteSet(U) /\ U \in SUBSET T
    BY <1>1 DEF F
  <2> QED BY <1>3, <1>a, <2>1, SumType
<1>6. \A e \in S : /\ part(U)[e] \in Int /\ part(V)[e] \in Int
                   /\ part(U)[e] = (IF key[u] = e THEN w[u] ELSE 0) + part(V)[e]
  BY <1>3, <1>5, <1>a, <1>b
<1>7. SumFunctionOnSet(part(U), S) = SumFunctionOnSet(part(V), S) + w[u]
  <2>1. CASE key[u] \in S
    <3>1. \A e \in S : e # key[u] => part(U)[e] = part(V)[e]
      BY <1>6
    <3>2. SumFunctionOnSet(part(U), S) = SumFunctionOnSet(part(V), S) - part(V)[key[u]] + part(U)[key[u]]
      BY <1>6, <2>1, <3>1, SumChanges
    <3> QED BY <1>4, <1>5, <1>6, <2>1, <3>2
  <2>2. CASE key[u] \notin S
    <3>1. w[u] = 0 /\ \A e \in S : part(U)[e] = part(V)[e] + 0
      BY <1>3, <1>6, <2>2
    <3>2. \A e \in S : part(V)[e] \in Int /\ part(U)[e] = part(V)[e]
      BY <1>6, <3>1
    <3>3. SumFunctionOnSet(part(U), S) = SumFunctionOnSet(part(V), S)
      BY <3>2, SumSame
    <3> QED BY <1>4, <1>5, <3>1, <3>3
  <2> QED BY <2>1, <2>2
<1> QED BY <1>3, <1>4, <1>5, <1>7

-----------------------------------------------------------------------------
(***************************************************************************)
(* What the coordinator keeps.  Neither stated invariant is inductive:     *)
(* that a completed event sends nothing rests on who reacts to an event    *)
(* while its plan is being assigned, and that no order is counted twice on *)
(* which orders of a plan were ever handed to a job.                       *)
(***************************************************************************)
Plans == [event : Events \cup {None}, offsets : Seq(Int), consumed : SUBSET Nat]
Runs == [planned : Nat, submitted : Nat, dropped : Nat, completed : BOOLEAN]

TypeInv ==
    /\ TypeOK
    /\ main = "poll" => batch \subseteq Live
    /\ main = "before" => batch \subseteq Fixture
    /\ plan \in [Traders -> Plans] /\ run \in [Events -> Runs]
    /\ \A u \in Traders : Len(plan[u].offsets) <= MaxOf(Counts)
    /\ \A u \in DOMAIN toAssign : toAssign[u] \in Seq(Int) /\ Len(toAssign[u]) <= MaxOf(Counts)

\* A trader that has something left to send reacts to the event of its plan.
ReactsInv ==
    \A u \in Traders :
        /\ traderEvent[u] # None => plan[u].event = traderEvent[u]
        /\ Open(u) # {} => traderEvent[u] # None

\* Whatever was planned, counted or sent is of an event plan_once has seen.
KnownInv ==
    /\ \A e \in Events : run[e].planned > 0 \/ run[e].completed => Known(e)
    /\ \A u \in Traders : plan[u].event # None => Known(plan[u].event)
    /\ \A o \in sent \cup lost : Known(o[1])
    /\ applying # None => Known(applying)

\* While reactions are assigned, the event is open: of those assigned so far one
\* has something to send, and the traders still to come have nothing left.
AssignInv ==
    applying # None =>
        /\ main \in {"poll", "before"}
        /\ ~run[applying].completed
        /\ run[applying].planned > 0 => \E u \in Traders : traderEvent[u] = applying /\ Open(u) # {}
        /\ \A u \in DOMAIN toAssign : Open(u) = {} /\ \A i \in Nat : <<applying, u, i>> \notin sent \cup lost

\* An order that was sent or lost is consumed in its plan; a lost one is not in
\* flight.
SentInv ==
    /\ inflight \subseteq sent /\ inflight \cap lost = {}
    /\ \A u \in Traders : \A i \in Open(u) : <<plan[u].event, u, i>> \notin sent \cup lost

\* No event is completed that still has something to send.
DoneInv == \A e \in Events : run[e].completed => \A u \in Traders : plan[u].event = e => Open(u) = {}

CoordinatorInv == ReactsInv /\ KnownInv /\ AssignInv /\ SentInv /\ DoneInv

Accounted ==
    Planned = Submitted + Dropped + SumFunction([u \in Traders |-> Remaining(u)])
                + Cardinality(inflight) + Cardinality(lost)

LEMMA MaxCounts == MaxOf(Counts) \in Nat /\ \A n \in Counts : n <= MaxOf(Counts)
BY CoordinatorAssumption DEF MaxOf

\* What a plan holds.
LEMMA OpenFacts ==
    ASSUME TypeInv, NEW u \in Traders
    PROVE  /\ DOMAIN plan[u].offsets = 1 .. Len(plan[u].offsets) /\ Len(plan[u].offsets) \in Nat
           /\ plan[u].consumed \subseteq DOMAIN plan[u].offsets
           /\ Open(u) \subseteq 1 .. MaxOf(Counts) /\ IsFiniteSet(Open(u))
           /\ Remaining(u) \in Nat /\ (Remaining(u) = 0 <=> Open(u) = {})
<1>1. /\ plan[u].offsets \in Seq(Int) /\ Len(plan[u].offsets) <= MaxOf(Counts)
      /\ plan[u].consumed \subseteq DOMAIN plan[u].offsets
  BY DEF TypeInv, TypeOK, Plans
<1>2. Len(plan[u].offsets) \in Nat /\ DOMAIN plan[u].offsets = 1 .. Len(plan[u].offsets)
  BY <1>1
<1>3. Open(u) \subseteq 1 .. Len(plan[u].offsets)
  BY <1>2 DEF Open
<1>4. IsFiniteSet(Open(u))
  <2>1. IsFiniteSet(1 .. Len(plan[u].offsets))
    BY <1>2, FS_Interval
  <2> QED BY <1>3, <2>1, FS_Subset
<1>5. Remaining(u) \in Nat /\ (Remaining(u) = 0 <=> Open(u) = {})
  BY <1>4, FS_CardinalityType, FS_EmptySet DEF Remaining
<1> QED BY <1>1, <1>2, <1>3, <1>4, <1>5, MaxCounts

LEMMA ReactionTypes ==
    ASSUME NEW first \in Nat, NEW r \in Reactions(first)
    PROVE  /\ DOMAIN r = Candidates
           /\ \A u \in DOMAIN r : r[u] \in Seq(Int) /\ Len(r[u]) <= MaxOf(Counts)
<1>1. r \in [Candidates -> {<< >>} \cup {Offsets(first + d, c, v) : d \in Delays, c \in Counts, v \in Intervals}]
  BY DEF Reactions
<1> SUFFICES ASSUME NEW u \in Candidates PROVE r[u] \in Seq(Int) /\ Len(r[u]) <= MaxOf(Counts)
  BY <1>1
<1>2. CASE r[u] = << >>
  BY <1>2, MaxCounts
<1>3. ASSUME NEW d \in Delays, NEW c \in Counts, NEW v \in Intervals, r[u] = Offsets(first + d, c, v)
      PROVE  r[u] \in Seq(Int) /\ Len(r[u]) <= MaxOf(Counts)
  <2>1. first + d \in Int /\ c \in Nat /\ v \in Int /\ c <= MaxOf(Counts)
    BY CoordinatorAssumption, MaxCounts
  <2>2. \A i \in 1 .. c : first + d + (i - 1) * v \in Int
    BY <2>1
  <2>3. r[u] \in [1 .. c -> Int]
    BY <1>3, <2>2 DEF Offsets
  <2>4. r[u] \in Seq(Int) /\ Len(r[u]) = c
    BY <2>1, <2>3
  <2> QED BY <2>1, <2>4
<1> QED BY <1>1, <1>2, <1>3

LEMMA TypeInit == Init => TypeInv
<1> SUFFICES ASSUME Init PROVE TypeInv
  OBVIOUS
<1>1. /\ << >> \in Seq(Int) /\ Len(<< >>) = 0 /\ MaxOf(Counts) \in Nat
      /\ DOMAIN << >> = {}
  BY MaxCounts
<1>2. NoPlan \in Plans /\ NoPlan.offsets = << >> /\ NoPlan.consumed = {} /\ NoPlan.event = None
  BY <1>1 DEF NoPlan, Plans
<1>3. NoRun \in Runs
  BY DEF NoRun, Runs
<1>4. TypeOK
  BY <1>1, <1>2, <1>3, CoordinatorAssumption DEF Init, TypeOK, Runs
<1> QED BY <1>1, <1>2, <1>3, <1>4 DEF Init, TypeInv

\* The steps of the main thread that touch no trader's plan.
LEMMA TypeStill ==
    ASSUME TypeInv, Tick \/ BeforeTick \/ TickEnds \/ Assigned \/ (\E u \in Traders : MissTurn(u))
                      \/ UNCHANGED vars
    PROVE  TypeInv'
<1> USE DEF TypeInv, TypeOK, stepVars, eventVars, jobVars, timeVars
<1>1. CASE Tick
  <2>1. UNCHANGED <<start, applying, toAssign, turn, eventVars, plan, traderEvent, run, jobVars>>
    BY <1>1 DEF Tick
  <2>2. tick' \in 0 .. MaxTick /\ elapsed' \in 0 .. MaxElapsed /\ main' = "poll" /\ batch' \subseteq Live
    BY <1>1, CoordinatorAssumption DEF Tick
  <2>3. batch' \subseteq Events
    BY <2>2 DEF Events
  <2> QED BY <2>1, <2>2, <2>3
<1>2. CASE BeforeTick
  <2>1. UNCHANGED <<timeVars, tick, applying, toAssign, turn, processed, live, plan, traderEvent, run, jobVars>>
    BY <1>2 DEF BeforeTick
  <2>2. main' = "before" /\ batch' \subseteq Fixture /\ next' \subseteq Fixture
    BY <1>2 DEF BeforeTick
  <2>3. batch' \subseteq Events
    BY <2>2 DEF Events
  <2> QED BY <2>1, <2>2, <2>3
<1>3. CASE TickEnds
  BY <1>3 DEF TickEnds
<1>4. CASE Assigned
  <2>1. UNCHANGED <<timeVars, tick, main, batch, turn, eventVars, plan, traderEvent, run, jobVars>>
          /\ applying' = None /\ DOMAIN toAssign' = {}
    BY <1>4 DEF Assigned
  <2> QED BY <2>1
<1>5. ASSUME NEW u \in Traders, MissTurn(u) PROVE TypeInv'
  BY <1>5 DEF MissTurn
<1>6. CASE UNCHANGED vars
  BY <1>6 DEF vars
<1> QED BY <1>1, <1>2, <1>3, <1>4, <1>5, <1>6

\* An event is applied: its reactions are well-formed.
LEMMA TypeApply ==
    ASSUME TypeInv, NEW e \in Events, ApplyLive(e) \/ ApplyFixture(e)
    PROVE  TypeInv'
<1> USE DEF TypeInv, TypeOK
<1>1. UNCHANGED <<timeVars, tick, next, plan, traderEvent, run, jobVars>>
  BY DEF ApplyLive, ApplyFixture
<1>2. /\ batch' \subseteq batch /\ live' \subseteq Live /\ turn' \subseteq Traders
      /\ main' \in {main, "enqueue"}
  BY DEF ApplyLive, ApplyFixture, ApplyEvent
<1>3. /\ processed' \in [Events -> {None, "live", "fixture"}]
      /\ applying' \in Events \cup {None} /\ DOMAIN toAssign' \subseteq Traders
      /\ \A u \in DOMAIN toAssign' : toAssign'[u] \in Seq(Int) /\ Len(toAssign'[u]) <= MaxOf(Counts)
  <2>1. CASE UNCHANGED <<processed, applying, toAssign>>
    BY <2>1
  <2>2. ASSUME NEW source \in {"live", "fixture"}, NEW first \in Nat,
               processed' = [processed EXCEPT ![e] = source], applying' = e,
               toAssign' \in Reactions(first)
        PROVE  /\ processed' \in [Events -> {None, "live", "fixture"}]
               /\ applying' \in Events \cup {None} /\ DOMAIN toAssign' \subseteq Traders
               /\ \A u \in DOMAIN toAssign' : toAssign'[u] \in Seq(Int) /\ Len(toAssign'[u]) <= MaxOf(Counts)
    <3>1. /\ DOMAIN toAssign' = Candidates
          /\ \A u \in DOMAIN toAssign' : toAssign'[u] \in Seq(Int) /\ Len(toAssign'[u]) <= MaxOf(Counts)
      BY <2>2, ReactionTypes
    <3> QED BY <2>2, <3>1 DEF Candidates
  <2>3. CASE ApplyLive(e)
    <3>1. tick \in Nat
      BY CoordinatorAssumption
    <3> QED BY <2>1, <2>2, <2>3, <3>1 DEF ApplyLive, ApplyEvent
  <2>4. CASE ApplyFixture(e)
    <3>1. start[e] \in Nat
      BY <2>4, CoordinatorAssumption DEF ApplyFixture
    <3> QED BY <2>1, <2>2, <2>4, <3>1 DEF ApplyFixture, ApplyEvent
  <2> QED BY <2>3, <2>4
<1> QED BY <1>1, <1>2, <1>3 DEF timeVars, jobVars

\* _maybe_complete touches one flag, and sets it for the reason it states.
NothingLeft(p, t, e) == \A u \in Traders : t[u] = e => DOMAIN p[u].offsets \subseteq p[u].consumed

LEMMA CompleteFacts ==
    ASSUME NEW r \in [Events -> Runs], NEW p, NEW t, NEW e \in Events, NEW s, s = MaybeComplete(r, p, t, e)
    PROVE  /\ s \in [Events -> Runs]
           /\ \A d \in Events : d # e => s[d] = r[d]
           /\ s[e].planned = r[e].planned /\ s[e].submitted = r[e].submitted /\ s[e].dropped = r[e].dropped
           /\ s[e].completed <=> r[e].completed \/ (r[e].planned > 0 /\ NothingLeft(p, t, e))
<1> DEFINE b == r[e].completed \/ (r[e].planned > 0 /\ NothingLeft(p, t, e))
<1>1. s = [r EXCEPT ![e].completed = b]
  BY DEF MaybeComplete, NothingLeft
<1>2. b \in BOOLEAN
  BY DEF Runs
<1> HIDE DEF b
<1>3. s[e].completed = b
  BY <1>1 DEF Runs
<1>4. /\ \A d \in Events : d # e => s[d] = r[d]
      /\ s[e].planned = r[e].planned /\ s[e].submitted = r[e].submitted /\ s[e].dropped = r[e].dropped
  BY <1>1 DEF Runs
<1>5. s \in [Events -> Runs]
  BY <1>1, <1>2 DEF Runs
<1> QED BY <1>3, <1>4, <1>5 DEF b

\* A trader that is assigned a reaction had nothing left to send: nothing of
\* its previous plan is dropped.
LEMMA AssignFacts ==
    ASSUME TypeInv, CoordinatorInv, NEW u \in Traders, Assign(u)
    PROVE  LET e == applying
               n == Len(toAssign[u]) IN
           /\ e \in Events /\ e # None /\ n \in Nat /\ n <= MaxOf(Counts)
           /\ toAssign[u] \in Seq(Int) /\ u \in DOMAIN toAssign /\ Open(u) = {}
           /\ plan' = [plan EXCEPT ![u] = PlanOf(u, e, toAssign[u])]
           /\ traderEvent' = [traderEvent EXCEPT ![u] = IF n = 0 THEN None ELSE e]
           /\ run' = [run EXCEPT ![e].planned = @ + n]
           /\ DOMAIN toAssign' = DOMAIN toAssign \ {u}
           /\ \A v \in DOMAIN toAssign' : toAssign'[v] = toAssign[v]
           /\ UNCHANGED <<timeVars, tick, main, batch, applying, turn, eventVars, jobVars>>
<1> DEFINE e == applying
           n == Len(toAssign[u])
<1>1. e \in Events /\ e # None /\ u \in DOMAIN toAssign /\ toAssign[u] \in Seq(Int) /\ n <= MaxOf(Counts)
  BY DEF Assign, TypeInv, TypeOK
<1>2. n \in Nat
  BY <1>1
<1>3. Open(u) = {} /\ Remaining(u) = 0
  BY <1>1, OpenFacts DEF CoordinatorInv, AssignInv
<1>4. run' = [run EXCEPT ![e].planned = @ + n]
  BY <1>3 DEF Assign
<1> QED BY <1>1, <1>2, <1>3, <1>4 DEF Assign

LEMMA TypeAssign ==
    ASSUME TypeInv, CoordinatorInv, NEW u \in Traders, Assign(u)
    PROVE  TypeInv'
<1> DEFINE e == applying
           n == Len(toAssign[u])
<1> USE DEF TypeInv, TypeOK
<1>1. /\ e \in Events /\ e # None /\ n \in Nat /\ n <= MaxOf(Counts) /\ toAssign[u] \in Seq(Int)
      /\ plan' = [plan EXCEPT ![u] = PlanOf(u, e, toAssign[u])]
      /\ traderEvent' = [traderEvent EXCEPT ![u] = IF n = 0 THEN None ELSE e]
      /\ run' = [run EXCEPT ![e].planned = @ + n]
      /\ DOMAIN toAssign' = DOMAIN toAssign \ {u}
      /\ \A v \in DOMAIN toAssign' : toAssign'[v] = toAssign[v]
      /\ UNCHANGED <<timeVars, tick, main, batch, applying, turn, eventVars, jobVars>>
  BY AssignFacts
<1>2. /\ PlanOf(u, e, toAssign[u]) \in Plans
      /\ PlanOf(u, e, toAssign[u]).event = e /\ PlanOf(u, e, toAssign[u]).offsets = toAssign[u]
      /\ PlanOf(u, e, toAssign[u]).consumed = {}
  BY <1>1 DEF PlanOf, Plans
<1>3. /\ plan' \in [Traders -> Plans]
      /\ \A v \in Traders : /\ plan'[v].event \in Events \cup {None}
                            /\ plan'[v].consumed \subseteq DOMAIN plan'[v].offsets
                            /\ Len(plan'[v].offsets) <= MaxOf(Counts)
  <2> SUFFICES ASSUME NEW v \in Traders
               PROVE  /\ plan'[v] \in Plans /\ plan'[v].event \in Events \cup {None}
                      /\ plan'[v].consumed \subseteq DOMAIN plan'[v].offsets
                      /\ Len(plan'[v].offsets) <= MaxOf(Counts)
    BY <1>1
  <2>1. CASE v = u
    BY <1>1, <1>2, <2>1
  <2>2. CASE v # u
    BY <1>1, <2>2
  <2> QED BY <2>1, <2>2
<1>4. run' \in [Events -> Runs]
  <2> HIDE DEF e, n
  <2>1. run[e] \in Runs /\ run[e].planned + n \in Nat
    BY <1>1 DEF Runs
  <2>2. [run[e] EXCEPT !.planned = @ + n] \in Runs
    BY <2>1 DEF Runs
  <2> QED BY <1>1, <2>2
<1>5. traderEvent' \in [Traders -> Events \cup {None}]
  BY <1>1
<1>6. \A v \in DOMAIN toAssign' : v \in Traders /\ toAssign'[v] \in Seq(Int) /\ Len(toAssign'[v]) <= MaxOf(Counts)
  BY <1>1
<1> HIDE DEF e, n
<1> QED BY <1>1, <1>3, <1>4, <1>5, <1>6 DEF timeVars, eventVars, jobVars, Runs

\* Late orders are open ones of the event their trader reacts to.
LEMMA LateFacts ==
    ASSUME TypeInv, NEW u \in Traders
    PROVE  /\ Late(u) \subseteq Open(u) /\ IsFiniteSet(Late(u)) /\ Cardinality(Late(u)) \in Nat
           /\ traderEvent[u] = None => Late(u) = {} /\ Cardinality(Late(u)) = 0
<1>1. Late(u) \subseteq Open(u) /\ (traderEvent[u] = None => Late(u) = {})
  BY DEF Late
<1>2. IsFiniteSet(Late(u))
  BY <1>1, OpenFacts, FS_Subset
<1> QED BY <1>1, <1>2, FS_CardinalityType, FS_EmptySet

\* What dropping late orders does: the plans lose them, each event counts those
\* of its traders, and an event that has nothing left is completed.
LateOf(e) == [u \in Traders |-> IF traderEvent[u] = e THEN Cardinality(Late(u)) ELSE 0]

LEMMA DropFacts ==
    ASSUME TypeInv, DropLate
    PROVE  /\ plan' \in [Traders -> Plans]
           /\ \A u \in Traders : /\ plan'[u].event = plan[u].event /\ plan'[u].offsets = plan[u].offsets
                                 /\ plan'[u].consumed = plan[u].consumed \cup Late(u)
                                 /\ plan'[u].consumed \subseteq DOMAIN plan'[u].offsets
           /\ run' \in [Events -> Runs]
           /\ \A e \in Events :
                /\ SumFunction(LateOf(e)) \in Nat
                /\ run'[e].planned = run[e].planned /\ run'[e].submitted = run[e].submitted
                /\ run'[e].dropped = run[e].dropped + SumFunction(LateOf(e))
                /\ run'[e].completed <=>
                     run[e].completed \/ (run[e].planned > 0 /\ NothingLeft(plan', traderEvent, e))
<1> USE DEF TypeInv, TypeOK
<1>1. plan' = [u \in Traders |-> [plan[u] EXCEPT !.consumed = @ \cup Late(u)]]
  BY DEF DropLate
<1>2. ASSUME NEW u \in Traders
      PROVE  /\ plan'[u] \in Plans /\ plan'[u].event = plan[u].event /\ plan'[u].offsets = plan[u].offsets
             /\ plan'[u].consumed = plan[u].consumed \cup Late(u)
             /\ plan'[u].consumed \subseteq DOMAIN plan'[u].offsets
  <2>1. plan[u] \in Plans /\ Late(u) \subseteq DOMAIN plan[u].offsets /\ Late(u) \subseteq Nat
          /\ plan[u].consumed \subseteq DOMAIN plan[u].offsets
    BY LateFacts, OpenFacts DEF Open
  <2>2. plan'[u] = [plan[u] EXCEPT !.consumed = @ \cup Late(u)]
    BY <1>1
  <2> QED BY <2>1, <2>2 DEF Plans
<1>3. ASSUME NEW e \in Events
      PROVE  /\ SumFunction(LateOf(e)) \in Nat /\ run'[e] \in Runs
             /\ run'[e].planned = run[e].planned /\ run'[e].submitted = run[e].submitted
             /\ run'[e].dropped = run[e].dropped + SumFunction(LateOf(e))
             /\ run'[e].completed <=>
                  run[e].completed \/ (run[e].planned > 0 /\ NothingLeft(plan', traderEvent, e))
  <2> DEFINE n == SumFunction(LateOf(e))
             r == [run EXCEPT ![e].dropped = @ + n]
  <2>1. n \in Nat
    <3>1. n = SumFunctionOnSet(LateOf(e), Traders)
      BY DEF SumFunction, LateOf
    <3>2. \A u \in Traders : LateOf(e)[u] \in Nat
      BY LateFacts DEF LateOf
    <3> QED BY <3>1, <3>2, CoordinatorAssumption, SumNat
  <2>2. run'[e] = MaybeComplete(r, plan', traderEvent, e)[e]
    BY DEF DropLate, LateOf
  <2> HIDE DEF n
  <2>3. r \in [Events -> Runs] /\ r[e].planned = run[e].planned /\ r[e].submitted = run[e].submitted
          /\ r[e].dropped = run[e].dropped + n /\ r[e].completed = run[e].completed
    <3>1. run[e] \in Runs /\ run[e].dropped + n \in Nat
      BY <2>1 DEF Runs
    <3>2. [run[e] EXCEPT !.dropped = @ + n] \in Runs
      BY <3>1 DEF Runs
    <3> QED BY <3>1, <3>2 DEF Runs
  <2> HIDE DEF r
  <2> DEFINE s == MaybeComplete(r, plan', traderEvent, e)
  <2>4. /\ s \in [Events -> Runs]
        /\ s[e].planned = r[e].planned /\ s[e].submitted = r[e].submitted /\ s[e].dropped = r[e].dropped
        /\ s[e].completed <=> r[e].completed \/ (r[e].planned > 0 /\ NothingLeft(plan', traderEvent, e))
    BY <2>3, CompleteFacts
  <2> HIDE DEF s
  <2>5. run'[e] = s[e]
    BY <2>2 DEF s
  <2> QED BY <2>1, <2>3, <2>4, <2>5 DEF n
<1>4. run' \in [Events -> Runs]
  <2>1. run' = [e \in Events |-> run'[e]]
    BY DEF DropLate
  <2> QED BY <1>3, <2>1
<1>5. plan' \in [Traders -> Plans]
  BY <1>1, <1>2
<1> QED BY <1>2, <1>3, <1>4, <1>5

LEMMA TypeDropLate ==
    ASSUME TypeInv, DropLate
    PROVE  TypeInv'
<1>1. UNCHANGED <<timeVars, tick, batch, applying, toAssign, eventVars, traderEvent, jobVars>>
        /\ main' = "enqueue" /\ turn' = Traders
  BY DEF DropLate
<1>2. /\ plan' \in [Traders -> Plans] /\ run' \in [Events -> Runs]
      /\ \A u \in Traders : /\ plan'[u].event = plan[u].event /\ plan'[u].offsets = plan[u].offsets
                            /\ plan'[u].consumed \subseteq DOMAIN plan'[u].offsets
  BY DropFacts
<1> QED BY <1>1, <1>2 DEF TypeInv, TypeOK, timeVars, eventVars, jobVars, Runs

\* Orders that are due are open ones, of the event their trader reacts to.
LEMMA DueFacts ==
    ASSUME TypeInv, ReactsInv, NEW u \in Traders
    PROVE  /\ Due(u) \subseteq Open(u) /\ Due(u) \subseteq 1 .. MaxOf(Counts) /\ IsFiniteSet(Due(u))
           /\ Due(u) # {} => plan[u].event \in Events /\ plan[u].event = traderEvent[u]
<1>1. Due(u) \subseteq Open(u)
  BY DEF Due
<1>2. Due(u) \subseteq 1 .. MaxOf(Counts) /\ IsFiniteSet(Due(u))
  BY <1>1, OpenFacts, FS_Subset
<1>3. Due(u) # {} => plan[u].event \in Events /\ plan[u].event = traderEvent[u]
  BY <1>1 DEF ReactsInv, TypeInv, TypeOK
<1> QED BY <1>1, <1>2, <1>3

LEMMA TakeTurnFacts ==
    ASSUME TypeInv, ReactsInv, NEW u \in Traders, TakeTurn(u)
    PROVE  /\ plan' \in [Traders -> Plans]
           /\ plan'[u].event = plan[u].event /\ plan'[u].offsets = plan[u].offsets
           /\ plan'[u].consumed = plan[u].consumed \cup Due(u)
           /\ plan'[u].consumed \subseteq DOMAIN plan'[u].offsets
           /\ \A v \in Traders : v # u => plan'[v] = plan[v]
           /\ main = "enqueue" /\ Due(u) # {}
           /\ \E go \in SUBSET Due(u) :
                /\ inflight' = inflight \cup OrdersOf(u, go)
                /\ sent' = sent \cup OrdersOf(u, go)
                /\ lost' = lost \cup OrdersOf(u, Due(u) \ go)
           /\ turn' = turn \ {u}
           /\ UNCHANGED <<timeVars, tick, main, batch, applying, toAssign, eventVars, traderEvent, run>>
<1>1. plan' = [plan EXCEPT ![u].consumed = @ \cup Due(u)]
  BY DEF TakeTurn
<1>2. plan \in [Traders -> Plans] /\ plan[u] \in Plans
  BY DEF TypeInv
<1>3. Due(u) \subseteq Nat /\ Due(u) \subseteq DOMAIN plan[u].offsets /\ plan[u].consumed \subseteq DOMAIN plan[u].offsets
  <2>1. Due(u) \subseteq Open(u) /\ Open(u) \subseteq 1 .. MaxOf(Counts) /\ MaxOf(Counts) \in Nat
          /\ plan[u].consumed \subseteq DOMAIN plan[u].offsets
    BY DueFacts, OpenFacts, MaxCounts
  <2> QED BY <2>1 DEF Open
<1>4. [plan[u] EXCEPT !.consumed = @ \cup Due(u)] \in Plans
  BY <1>2, <1>3 DEF Plans
<1>5. plan' \in [Traders -> Plans] /\ plan'[u] = [plan[u] EXCEPT !.consumed = @ \cup Due(u)]
        /\ \A v \in Traders : v # u => plan'[v] = plan[v]
  BY <1>1, <1>2, <1>4
<1>6. /\ plan'[u].event = plan[u].event /\ plan'[u].offsets = plan[u].offsets
      /\ plan'[u].consumed = plan[u].consumed \cup Due(u)
  BY <1>2, <1>5 DEF Plans
<1>7. \E go \in SUBSET Due(u) :
                /\ inflight' = inflight \cup OrdersOf(u, go)
                /\ sent' = sent \cup OrdersOf(u, go)
                /\ lost' = lost \cup OrdersOf(u, Due(u) \ go)
  <2>1. PICK k \in 1 .. Cardinality(Due(u)) :
         LET go == {i \in Due(u) : Cardinality({j \in Due(u) : j <= i}) <= k}
         IN /\ inflight' = inflight \cup OrdersOf(u, go)
            /\ sent' = sent \cup OrdersOf(u, go)
            /\ lost' = lost \cup OrdersOf(u, Due(u) \ go)
    BY DEF TakeTurn
  <2> DEFINE go == {i \in Due(u) : Cardinality({j \in Due(u) : j <= i}) <= k}
  <2>2. go \in SUBSET Due(u)
    OBVIOUS
  <2> QED BY <2>1, <2>2
<1>8. main = "enqueue" /\ turn' = turn \ {u} /\ Due(u) # {}
        /\ UNCHANGED <<timeVars, tick, main, batch, applying, toAssign, eventVars, traderEvent, run>>
  BY DEF TakeTurn
<1> QED BY <1>3, <1>5, <1>6, <1>7, <1>8

LEMMA OrdersAreOrders ==
    ASSUME TypeInv, ReactsInv, NEW u \in Traders, Due(u) # {}, NEW I \in SUBSET Due(u)
    PROVE  OrdersOf(u, I) \subseteq Orders
<1>1. plan[u].event \in Events /\ I \subseteq 1 .. MaxOf(Counts)
  BY DueFacts
<1> QED BY <1>1 DEF OrdersOf, Orders

LEMMA TypeTakeTurn ==
    ASSUME TypeInv, ReactsInv, NEW u \in Traders, TakeTurn(u)
    PROVE  TypeInv'
<1>1. /\ plan' \in [Traders -> Plans]
      /\ plan'[u].event = plan[u].event /\ plan'[u].offsets = plan[u].offsets
      /\ plan'[u].consumed \subseteq DOMAIN plan'[u].offsets
      /\ \A v \in Traders : v # u => plan'[v] = plan[v]
      /\ turn' = turn \ {u} /\ Due(u) # {}
      /\ UNCHANGED <<timeVars, tick, main, batch, applying, toAssign, eventVars, traderEvent, run>>
  BY TakeTurnFacts
<1>2. inflight' \subseteq Orders /\ sent' \subseteq Orders /\ lost' \subseteq Orders
  <2>1. PICK go \in SUBSET Due(u) :
                /\ inflight' = inflight \cup OrdersOf(u, go)
                /\ sent' = sent \cup OrdersOf(u, go)
                /\ lost' = lost \cup OrdersOf(u, Due(u) \ go)
    BY TakeTurnFacts
  <2>2. OrdersOf(u, go) \subseteq Orders /\ OrdersOf(u, Due(u) \ go) \subseteq Orders
    BY <1>1, OrdersAreOrders
  <2> QED BY <2>1, <2>2 DEF TypeInv, TypeOK
<1>3. \A v \in Traders : plan'[v].event = plan[v].event /\ plan'[v].offsets = plan[v].offsets
                           /\ plan'[v].consumed \subseteq DOMAIN plan'[v].offsets
  BY <1>1 DEF TypeInv, TypeOK
<1> QED BY <1>1, <1>2, <1>3 DEF TypeInv, TypeOK, timeVars, eventVars

\* A report is counted for the event its trader reacts to now, if any.
LEMMA ReportFacts ==
    ASSUME TypeInv, NEW o, NEW submitted \in BOOLEAN, AfterSubmit(o, submitted)
    PROVE  /\ o \in inflight /\ o \in Orders /\ inflight' = inflight \ {o} /\ main # "before"
           /\ EventOf(o) \in Events \cup {None}
           /\ EventOf(o) = None => lost' = lost \cup {o} /\ run' = run
           /\ EventOf(o) \in Events =>
                /\ lost' = lost /\ run' \in [Events -> Runs]
                /\ \A d \in Events : d # EventOf(o) => run'[d] = run[d]
                /\ run'[EventOf(o)].planned = run[EventOf(o)].planned
                /\ run'[EventOf(o)].submitted + run'[EventOf(o)].dropped =
                     run[EventOf(o)].submitted + run[EventOf(o)].dropped + 1
                /\ run'[EventOf(o)].submitted \in {run[EventOf(o)].submitted, run[EventOf(o)].submitted + 1}
                /\ run'[EventOf(o)].completed <=>
                     run[EventOf(o)].completed \/ (run[EventOf(o)].planned > 0 /\ NothingLeft(plan, traderEvent, EventOf(o)))
           /\ UNCHANGED <<timeVars, tick, stepVars, eventVars, plan, traderEvent, sent>>
<1>1. /\ o \in inflight /\ inflight' = inflight \ {o} /\ main # "before"
      /\ UNCHANGED <<timeVars, tick, stepVars, eventVars, plan, traderEvent, sent>>
  BY DEF AfterSubmit, Locked
<1>2. o \in Orders /\ o[2] \in Traders
  BY <1>1 DEF TypeInv, TypeOK, Orders
<1>3. EventOf(o) \in Events \cup {None} /\ None \notin Events
  BY <1>2, CoordinatorAssumption DEF EventOf, TypeInv, TypeOK
<1>4. ASSUME EventOf(o) \in Events
      PROVE  /\ lost' = lost /\ run' \in [Events -> Runs]
             /\ \A d \in Events : d # EventOf(o) => run'[d] = run[d]
             /\ run'[EventOf(o)].planned = run[EventOf(o)].planned
             /\ run'[EventOf(o)].submitted + run'[EventOf(o)].dropped =
                  run[EventOf(o)].submitted + run[EventOf(o)].dropped + 1
             /\ run'[EventOf(o)].submitted \in {run[EventOf(o)].submitted, run[EventOf(o)].submitted + 1}
             /\ run'[EventOf(o)].completed <=>
                  run[EventOf(o)].completed \/ (run[EventOf(o)].planned > 0 /\ NothingLeft(plan, traderEvent, EventOf(o)))
  <2> DEFINE e == EventOf(o)
             r == IF submitted THEN [run EXCEPT ![e].submitted = @ + 1] ELSE [run EXCEPT ![e].dropped = @ + 1]
  <2> HIDE DEF e
  <2>1. e \in Events /\ e # None
    BY <1>3, <1>4 DEF e
  <2>2. lost' = lost /\ run' = MaybeComplete(r, plan, traderEvent, e)
    BY <2>1 DEF AfterSubmit, e
  <2>3. run \in [Events -> Runs] /\ run[e] \in Runs
    BY <2>1 DEF TypeInv
  <2>4. /\ [run[e] EXCEPT !.submitted = @ + 1] \in Runs
        /\ [run[e] EXCEPT !.dropped = @ + 1] \in Runs
    BY <2>3 DEF Runs
  <2>5. /\ r \in [Events -> Runs] /\ \A d \in Events : d # e => r[d] = run[d]
        /\ r[e] = IF submitted THEN [run[e] EXCEPT !.submitted = @ + 1] ELSE [run[e] EXCEPT !.dropped = @ + 1]
    BY <2>1, <2>3, <2>4
  <2> HIDE DEF r
  <2>6. /\ r[e].planned = run[e].planned /\ r[e].completed = run[e].completed
        /\ r[e].submitted + r[e].dropped = run[e].submitted + run[e].dropped + 1
        /\ r[e].submitted \in {run[e].submitted, run[e].submitted + 1}
    BY <2>3, <2>5 DEF Runs
  <2> DEFINE s == MaybeComplete(r, plan, traderEvent, e)
  <2>7. /\ s \in [Events -> Runs]
        /\ \A d \in Events : d # e => s[d] = r[d]
        /\ s[e].planned = r[e].planned /\ s[e].submitted = r[e].submitted /\ s[e].dropped = r[e].dropped
        /\ s[e].completed <=> r[e].completed \/ (r[e].planned > 0 /\ NothingLeft(plan, traderEvent, e))
    BY <2>1, <2>5, CompleteFacts
  <2>8. run' = s
    BY <2>2
  <2> HIDE DEF s
  <2> QED BY <2>2, <2>5, <2>6, <2>7, <2>8 DEF e
<1>5. EventOf(o) = None => lost' = lost \cup {o} /\ run' = run
  BY DEF AfterSubmit
<1> QED BY <1>1, <1>2, <1>3, <1>4, <1>5

LEMMA TypeReport ==
    ASSUME TypeInv, NEW o, NEW submitted \in BOOLEAN, AfterSubmit(o, submitted)
    PROVE  TypeInv'
<1>1. /\ o \in Orders /\ inflight' = inflight \ {o}
      /\ UNCHANGED <<timeVars, tick, stepVars, eventVars, plan, traderEvent, sent>>
  BY ReportFacts
<1>2. lost' \subseteq Orders /\ run' \in [Events -> Runs]
  <2>1. lost \subseteq Orders /\ run \in [Events -> Runs]
    BY DEF TypeInv, TypeOK
  <2> QED BY <1>1, <2>1, ReportFacts
<1> QED BY <1>1, <1>2 DEF TypeInv, TypeOK, timeVars, stepVars, eventVars, Runs

LEMMA TypeRaises ==
    ASSUME TypeInv, NEW o, SubmitRaises(o)
    PROVE  TypeInv'
<1>1. /\ o \in inflight /\ inflight' = inflight \ {o} /\ lost' = lost \cup {o}
      /\ UNCHANGED <<timeVars, tick, stepVars, eventVars, plan, traderEvent, run, sent>>
  BY DEF SubmitRaises
<1>2. lost' \subseteq Orders
  BY <1>1 DEF TypeInv, TypeOK
<1> QED BY <1>1, <1>2 DEF TypeInv, TypeOK, timeVars, stepVars, eventVars

LEMMA TypeNext ==
    ASSUME TypeInv, CoordinatorInv, [Next]_vars
    PROVE  TypeInv'
<1>1. ReactsInv
  BY DEF CoordinatorInv
<1> QED
  BY <1>1, TypeStill, TypeApply, TypeAssign, TypeDropLate, TypeTakeTurn, TypeReport, TypeRaises DEF Next, MainStep

-----------------------------------------------------------------------------
(* Who reacts to what, step by step. *)

LEMMA CoordinatorInit == Init => CoordinatorInv
<1> SUFFICES ASSUME Init PROVE CoordinatorInv
  OBVIOUS
<1>1. /\ NoPlan.offsets = << >> /\ NoPlan.consumed = {} /\ NoPlan.event = None /\ DOMAIN << >> = {}
      /\ NoRun.planned = 0 /\ NoRun.completed = FALSE
  BY DEF NoPlan, NoRun
<1>2. \A u \in Traders : Open(u) = {} /\ traderEvent[u] = None /\ plan[u].event = None
  BY <1>1 DEF Init, Open
<1>3. \A e \in Events : ~(run[e].planned > 0) /\ ~run[e].completed
  BY <1>1 DEF Init
<1>4. applying = None /\ inflight = {} /\ sent = {} /\ lost = {}
  BY DEF Init
<1> QED BY <1>2, <1>3, <1>4 DEF CoordinatorInv, ReactsInv, KnownInv, AssignInv, SentInv, DoneInv

\* Steps that leave plans, counters and orders alone.
LEMMA Quiet ==
    ASSUME CoordinatorInv, UNCHANGED <<processed, plan, traderEvent, run, jobVars>>,
           applying' = None \/ UNCHANGED <<main, applying, toAssign>>
    PROVE  CoordinatorInv'
<1>1. \A u : Open(u)' = Open(u)
  BY DEF Open
<1>2. applying' # None => applying' = applying
  OBVIOUS
<1>3. UNCHANGED <<inflight, sent, lost>>
  BY DEF jobVars
<1>4. ReactsInv' /\ KnownInv' /\ SentInv' /\ DoneInv'
  <2>1. ReactsInv'
    BY <1>1 DEF CoordinatorInv, ReactsInv
  <2>2. KnownInv'
    <3> QED BY <1>2, <1>3 DEF CoordinatorInv, KnownInv, Known
  <2>3. SentInv'
    BY <1>1, <1>3 DEF CoordinatorInv, SentInv
  <2>4. DoneInv'
    BY <1>1 DEF CoordinatorInv, DoneInv
  <2> QED BY <2>1, <2>2, <2>3, <2>4
<1>5. AssignInv'
  BY <1>1, <1>3 DEF CoordinatorInv, AssignInv
<1> QED BY <1>4, <1>5 DEF CoordinatorInv

LEMMA CoordinatorStill ==
    ASSUME CoordinatorInv, Tick \/ BeforeTick \/ TickEnds \/ Assigned \/ (\E u \in Traders : MissTurn(u))
                      \/ UNCHANGED vars
    PROVE  CoordinatorInv'
<1>1. UNCHANGED <<processed, plan, traderEvent, run, jobVars>>
  BY DEF Tick, BeforeTick, TickEnds, Assigned, MissTurn, vars, eventVars
<1>2. applying' = None \/ UNCHANGED <<main, applying, toAssign>>
  BY DEF Tick, BeforeTick, TickEnds, Assigned, MissTurn, vars, stepVars, CoordinatorInv, AssignInv
<1> QED BY <1>1, <1>2, Quiet

\* An event plan_once has not seen has no runs, no plans and no orders yet.
LEMMA CoordinatorApply ==
    ASSUME TypeInv, CoordinatorInv, NEW e \in Events, ApplyLive(e) \/ ApplyFixture(e)
    PROVE  CoordinatorInv'
<1>1. applying = None /\ main \in {"poll", "before"} /\ UNCHANGED <<plan, traderEvent, run, jobVars>>
  BY DEF ApplyLive, ApplyFixture
<1>2. CASE UNCHANGED <<processed, applying, toAssign>>
  BY <1>1, <1>2, Quiet
<1>3. ASSUME NEW source \in {"live", "fixture"}, NEW first \in Nat, ~Known(e), main' = main,
             processed' = [processed EXCEPT ![e] = source], applying' = e, toAssign' \in Reactions(first)
      PROVE  CoordinatorInv'
  <2>1. \A u : Open(u)' = Open(u)
    BY <1>1 DEF Open
  <2>2. source # None
    BY <1>3 DEF None
  <2>3. \A d : processed[d] # None => processed'[d] # None
    <3>1. processed \in [Events -> {None, "live", "fixture"}]
      BY DEF TypeInv, TypeOK
    <3> SUFFICES ASSUME NEW d, processed[d] # None PROVE processed'[d] # None
      OBVIOUS
    <3>2. CASE d = e
      BY <1>3, <2>2, <3>1, <3>2
    <3>3. CASE d # e
      BY <1>3, <3>1, <3>3
    <3> QED BY <3>2, <3>3
  <2>4. processed'[e] # None
    BY <1>3, <2>2 DEF TypeInv, TypeOK
  <2>5. UNCHANGED <<inflight, sent, lost>>
    BY <1>1 DEF jobVars
  <2>6. ReactsInv' /\ SentInv' /\ DoneInv'
    <3>1. ReactsInv'
      BY <1>1, <2>1 DEF CoordinatorInv, ReactsInv
    <3>2. SentInv'
      BY <1>1, <2>1, <2>5 DEF CoordinatorInv, SentInv
    <3>3. DoneInv'
      BY <1>1, <2>1 DEF CoordinatorInv, DoneInv
    <3> QED BY <3>1, <3>2, <3>3
  <2>7. KnownInv'
    <3>1. /\ \A d \in Events : run'[d].planned > 0 \/ run'[d].completed => processed'[d] # None
          /\ \A u \in Traders : plan'[u].event # None => processed'[plan'[u].event] # None
          /\ \A o \in sent' \cup lost' : processed'[o[1]] # None
      BY <1>1, <2>3, <2>5 DEF CoordinatorInv, KnownInv, Known
    <3> QED BY <1>3, <2>4, <3>1 DEF KnownInv, Known
  <2>8. ~run[e].completed /\ ~(run[e].planned > 0)
    BY <1>3 DEF CoordinatorInv, KnownInv
  <2>9. \A u \in DOMAIN toAssign' : Open(u) = {} /\ \A i \in Nat : <<e, u, i>> \notin sent \cup lost
    <3> SUFFICES ASSUME NEW u \in DOMAIN toAssign'
                 PROVE  Open(u) = {} /\ \A i \in Nat : <<e, u, i>> \notin sent \cup lost
      OBVIOUS
    <3>1. u \in Candidates
      BY <1>3, ReactionTypes
    <3>2. Open(u) = {}
      BY <3>1, OpenFacts DEF Candidates
    <3>3. \A i \in Nat : <<e, u, i>>[1] = e
      OBVIOUS
    <3> QED BY <1>3, <3>2, <3>3 DEF CoordinatorInv, KnownInv
  <2>10. AssignInv'
    BY <1>1, <1>3, <2>1, <2>5, <2>8, <2>9 DEF AssignInv
  <2> QED BY <2>6, <2>7, <2>10 DEF CoordinatorInv
<1>4. CASE ApplyLive(e)
  <2>1. tick \in Nat
    BY CoordinatorAssumption DEF TypeInv, TypeOK
  <2> QED BY <1>2, <1>3, <1>4, <2>1 DEF ApplyLive, ApplyEvent
<1>5. CASE ApplyFixture(e)
  <2>1. start[e] \in Nat
    BY <1>5, CoordinatorAssumption DEF ApplyFixture, TypeInv, TypeOK
  <2> QED BY <1>2, <1>3, <1>5, <2>1 DEF ApplyFixture, ApplyEvent
<1> QED BY <1>4, <1>5

\* The event being assigned stays open; the trader has something to send
\* exactly if it wakes.
LEMMA CoordinatorAssign ==
    ASSUME TypeInv, CoordinatorInv, NEW u \in Traders, Assign(u)
    PROVE  CoordinatorInv'
<1> DEFINE e == applying
           n == Len(toAssign[u])
<1>1. /\ e \in Events /\ e # None /\ n \in Nat /\ toAssign[u] \in Seq(Int) /\ u \in DOMAIN toAssign /\ Open(u) = {}
      /\ plan' = [plan EXCEPT ![u] = PlanOf(u, e, toAssign[u])]
      /\ traderEvent' = [traderEvent EXCEPT ![u] = IF n = 0 THEN None ELSE e]
      /\ run' = [run EXCEPT ![e].planned = @ + n]
      /\ DOMAIN toAssign' = DOMAIN toAssign \ {u}
      /\ UNCHANGED <<timeVars, tick, main, batch, applying, turn, eventVars, jobVars>>
  BY AssignFacts
<1>2. /\ plan'[u] = PlanOf(u, e, toAssign[u]) /\ traderEvent'[u] = (IF n = 0 THEN None ELSE e)
      /\ \A v \in Traders : v # u => plan'[v] = plan[v] /\ traderEvent'[v] = traderEvent[v]
  BY <1>1 DEF TypeInv, TypeOK
<1>3. /\ plan'[u].event = e /\ Open(u)' = 1 .. n /\ (Open(u)' = {} <=> n = 0)
      /\ \A v \in Traders : v # u => Open(v)' = Open(v)
  <2>1. plan'[u].event = e /\ plan'[u].offsets = toAssign[u] /\ plan'[u].consumed = {}
    BY <1>2 DEF PlanOf
  <2>2. DOMAIN toAssign[u] = 1 .. n
    BY <1>1, LenProperties
  <2>3. Open(u)' = 1 .. n
    BY <2>1, <2>2 DEF Open
  <2>4. 1 .. n = {} <=> n = 0
    <3>1. n \in Nat
      BY <1>1
    <3> HIDE DEF n
    <3>2. n # 0 => 1 \in 1 .. n
      BY <3>1
    <3>3. n = 0 => 1 .. n = {}
      OBVIOUS
    <3> QED BY <3>2, <3>3
  <2>5. \A v \in Traders : v # u => Open(v)' = Open(v)
    BY <1>2 DEF Open
  <2> QED BY <2>1, <2>3, <2>4, <2>5
<1>4. /\ run'[e].planned = run[e].planned + n /\ \A d \in Events : run'[d].completed = run[d].completed
      /\ \A d \in Events : d # e => run'[d] = run[d]
  BY <1>1 DEF TypeInv, Runs
<1>5. UNCHANGED <<main, applying, processed, inflight, sent, lost>>
  BY <1>1 DEF eventVars, jobVars
<1>6. processed[e] # None
  BY <1>1 DEF CoordinatorInv, KnownInv, Known
<1>7. /\ main \in {"poll", "before"}
      /\ ~run[e].completed
      /\ run[e].planned > 0 => \E v \in Traders : traderEvent[v] = e /\ Open(v) # {}
      /\ \A v \in DOMAIN toAssign : Open(v) = {} /\ \A i \in Nat : <<e, v, i>> \notin sent \cup lost
  BY <1>1 DEF CoordinatorInv, AssignInv
<1>8. run[e].planned \in Nat
  BY <1>1 DEF TypeInv, Runs
<1> HIDE DEF e, n
<1>9. ReactsInv'
  BY <1>1, <1>2, <1>3 DEF CoordinatorInv, ReactsInv
<1>10. KnownInv'
  <2>2. \A d \in Events : run'[d].planned > 0 \/ run'[d].completed => processed[d] # None
    BY <1>4, <1>6 DEF CoordinatorInv, KnownInv, Known
  <2>3. \A v \in Traders : plan'[v].event # None => processed[plan'[v].event] # None
    BY <1>2, <1>3, <1>6 DEF CoordinatorInv, KnownInv, Known
  <2>4. (\A o \in sent \cup lost : processed[o[1]] # None) /\ (applying # None => processed[applying] # None)
    BY DEF CoordinatorInv, KnownInv, Known
  <2> QED BY <1>5, <2>2, <2>3, <2>4 DEF KnownInv, Known
<1>11. AssignInv'
  <2>1. run'[e].planned > 0 => \E v \in Traders : traderEvent'[v] = e /\ Open(v)' # {}
    <3>1. CASE n = 0
      <4> SUFFICES ASSUME run[e].planned > 0
                   PROVE  \E v \in Traders : traderEvent'[v] = e /\ Open(v)' # {}
        BY <1>4, <1>8, <3>1
      <4>1. PICK v \in Traders : traderEvent[v] = e /\ Open(v) # {}
        BY <1>7
      <4>2. v # u
        BY <1>1, <4>1
      <4>3. traderEvent'[v] = e /\ Open(v)' # {}
        BY <1>2, <1>3, <4>1, <4>2
      <4> QED BY <4>3
    <3>2. CASE n # 0
      BY <1>2, <1>3, <3>2
    <3> QED BY <3>1, <3>2
  <2>2. \A v \in DOMAIN toAssign' : Open(v)' = {} /\ \A i \in Nat : <<e, v, i>> \notin sent \cup lost
    <3>1. DOMAIN toAssign \subseteq Traders
      BY DEF TypeInv, TypeOK
    <3> QED BY <1>1, <1>3, <1>7, <3>1
  <2>3. ~run'[e].completed
    BY <1>1, <1>4, <1>7
  <2> QED BY <1>5, <1>7, <2>1, <2>2, <2>3 DEF AssignInv, e
<1>12. SentInv'
  <2> DEFINE left(v) == DOMAIN plan'[v].offsets \ plan'[v].consumed
  <2>1. \A v, i : v \in Traders /\ i \in left(v) => <<plan'[v].event, v, i>> \notin sent \cup lost
    <3>1. left(u) = 1 .. n /\ \A v \in Traders : v # u => left(v) = Open(v)
      BY <1>3 DEF Open
    <3> HIDE DEF left
    <3>2. \A i \in 1 .. n : <<e, u, i>> \notin sent \cup lost
      BY <1>1, <1>7
    <3>3. \A v \in Traders : v # u => \A i \in Open(v) : <<plan'[v].event, v, i>> \notin sent \cup lost
      BY <1>2 DEF CoordinatorInv, SentInv
    <3> SUFFICES ASSUME NEW v, v \in Traders, NEW i, i \in left(v)
                 PROVE  <<plan'[v].event, v, i>> \notin sent \cup lost
      OBVIOUS
    <3>4. CASE v = u
      BY <1>3, <3>1, <3>2, <3>4
    <3>5. CASE v # u
      BY <3>1, <3>3, <3>5
    <3> QED BY <3>4, <3>5
  <2> QED BY <1>5, <2>1 DEF CoordinatorInv, SentInv, Open
<1>13. DoneInv'
  <2> SUFFICES ASSUME NEW d \in Events, run'[d].completed, NEW v \in Traders, plan'[v].event = d
               PROVE  Open(v)' = {}
    BY DEF DoneInv
  <2>1. run[d].completed /\ d # e
    BY <1>4, <1>7
  <2>2. v # u
    BY <1>3, <2>1
  <2> QED BY <1>2, <1>3, <2>1, <2>2 DEF CoordinatorInv, DoneInv
<1> QED BY <1>9, <1>10, <1>11, <1>12, <1>13 DEF CoordinatorInv

\* Dropping late orders closes only events that have nothing left.
LEMMA CoordinatorDropLate ==
    ASSUME TypeInv, CoordinatorInv, DropLate
    PROVE  CoordinatorInv'
<1>1. /\ applying = None /\ UNCHANGED <<applying, processed, traderEvent, inflight, sent, lost>>
  BY DEF DropLate, eventVars, jobVars
<1>2. /\ \A u \in Traders : /\ plan'[u].event = plan[u].event /\ plan'[u].offsets = plan[u].offsets
                            /\ plan'[u].consumed = plan[u].consumed \cup Late(u)
      /\ \A e \in Events : /\ run'[e].planned = run[e].planned
                           /\ run'[e].completed <=>
                                run[e].completed \/ (run[e].planned > 0 /\ NothingLeft(plan', traderEvent, e))
  BY DropFacts
<1>3. \A u \in Traders : Open(u)' \subseteq Open(u)
  BY <1>2 DEF Open
<1>4. ReactsInv'
  BY <1>1, <1>2, <1>3 DEF CoordinatorInv, ReactsInv
<1>5. KnownInv'
  <2>1. \A e \in Events : run'[e].planned > 0 \/ run'[e].completed => processed[e] # None
    BY <1>2 DEF CoordinatorInv, KnownInv, Known
  <2>2. \A u \in Traders : plan'[u].event # None => processed[plan'[u].event] # None
    BY <1>2 DEF CoordinatorInv, KnownInv, Known
  <2>3. \A o \in sent \cup lost : processed[o[1]] # None
    BY DEF CoordinatorInv, KnownInv, Known
  <2> QED BY <1>1, <2>1, <2>2, <2>3 DEF KnownInv, Known
<1>6. AssignInv'
  BY <1>1 DEF AssignInv
<1>7. SentInv'
  <2>1. \A u \in Traders : \A i \in Open(u)' : <<plan'[u].event, u, i>> \notin sent \cup lost
    BY <1>2, <1>3 DEF CoordinatorInv, SentInv
  <2> QED BY <1>1, <2>1 DEF CoordinatorInv, SentInv
<1>8. DoneInv'
  <2> SUFFICES ASSUME NEW e \in Events, run'[e].completed, NEW u \in Traders, plan'[u].event = e
               PROVE  Open(u)' = {}
    BY DEF DoneInv
  <2>1. CASE run[e].completed
    BY <1>2, <1>3, <2>1 DEF CoordinatorInv, DoneInv
  <2>2. CASE NothingLeft(plan', traderEvent, e)
    <3>1. CASE traderEvent[u] = e
      <4>1. DOMAIN plan'[u].offsets \subseteq plan'[u].consumed
        BY <2>2, <3>1 DEF NothingLeft
      <4> QED BY <4>1 DEF Open
    <3>2. CASE traderEvent[u] # e
      BY <1>2, <1>3, <3>2 DEF CoordinatorInv, ReactsInv
    <3> QED BY <3>1, <3>2
  <2> QED BY <1>2, <2>1, <2>2
<1> QED BY <1>4, <1>5, <1>6, <1>7, <1>8 DEF CoordinatorInv

\* The orders a trader hands to jobs, or loses for want of a slot, are open
\* ones: none of them was handed out before.
LEMMA OrdersFacts ==
    ASSUME NEW u, NEW I
    PROVE  \A o : o \in OrdersOf(u, I) <=> \E i \in I : o = <<plan[u].event, u, i>>
BY DEF OrdersOf

LEMMA CoordinatorTakeTurn ==
    ASSUME TypeInv, CoordinatorInv, NEW u \in Traders, TakeTurn(u)
    PROVE  CoordinatorInv'
<1>0. ReactsInv
  BY DEF CoordinatorInv
<1>1. /\ plan'[u].event = plan[u].event /\ plan'[u].offsets = plan[u].offsets
      /\ plan'[u].consumed = plan[u].consumed \cup Due(u)
      /\ \A v \in Traders : v # u => plan'[v] = plan[v]
      /\ main = "enqueue" /\ Due(u) # {}
      /\ UNCHANGED <<timeVars, tick, main, batch, applying, toAssign, eventVars, traderEvent, run>>
  BY <1>0, TakeTurnFacts
<1>2. PICK go \in SUBSET Due(u) :
                /\ inflight' = inflight \cup OrdersOf(u, go)
                /\ sent' = sent \cup OrdersOf(u, go)
                /\ lost' = lost \cup OrdersOf(u, Due(u) \ go)
  BY <1>0, TakeTurnFacts
<1>3. /\ Open(u)' = Open(u) \ Due(u) /\ Due(u) \subseteq Open(u)
      /\ \A v \in Traders : v # u => Open(v)' = Open(v)
  BY <1>0, <1>1, DueFacts DEF Open
<1>4. applying = None /\ UNCHANGED <<applying, processed>>
  BY <1>1 DEF CoordinatorInv, AssignInv, eventVars
<1>5. plan[u].event \in Events /\ plan[u].event # None
  BY <1>0, <1>1, DueFacts, CoordinatorAssumption
<1>6. \A I \in SUBSET Due(u) : \A o : o \in OrdersOf(u, I) <=> \E i \in I : o = <<plan[u].event, u, i>>
  BY DEF OrdersOf
<1>7. ReactsInv'
  BY <1>0, <1>1, <1>3 DEF ReactsInv
<1>8. KnownInv'
  <2>1. \A e \in Events : run'[e].planned > 0 \/ run'[e].completed => processed[e] # None
    BY <1>1 DEF CoordinatorInv, KnownInv, Known
  <2>2. \A v \in Traders : plan'[v].event # None => processed[plan'[v].event] # None
    BY <1>1 DEF CoordinatorInv, KnownInv, Known
  <2>3. \A o \in sent \cup lost : processed[o[1]] # None
    BY DEF CoordinatorInv, KnownInv, Known
  <2>4. processed[plan[u].event] # None
    BY <1>5 DEF CoordinatorInv, KnownInv, Known
  <2>5. \A I \in SUBSET Due(u) : \A o \in OrdersOf(u, I) : processed[o[1]] # None
    <3>1. \A i : <<plan[u].event, u, i>>[1] = plan[u].event
      OBVIOUS
    <3> QED BY <1>6, <2>4, <3>1
  <2>6. \A o \in sent' \cup lost' : processed[o[1]] # None
    BY <1>2, <2>3, <2>5
  <2> QED BY <1>4, <2>1, <2>2, <2>6 DEF KnownInv, Known
<1>9. AssignInv'
  BY <1>4 DEF AssignInv
<1>10. SentInv'
  <2>1. /\ inflight \subseteq sent /\ inflight \cap lost = {}
        /\ \A v \in Traders : \A i \in Open(v) : <<plan[v].event, v, i>> \notin sent \cup lost
    BY DEF CoordinatorInv, SentInv
  <2>2. \A I \in SUBSET Due(u) : OrdersOf(u, I) \cap (sent \cup lost) = {}
    BY <1>3, <1>6, <2>1
  <2>3. OrdersOf(u, go) \cap OrdersOf(u, Due(u) \ go) = {}
    <3>1. \A i, j : <<plan[u].event, u, i>> = <<plan[u].event, u, j>> => i = j
      OBVIOUS
    <3>2. Due(u) \ go \in SUBSET Due(u)
      OBVIOUS
    <3>3. \A o \in OrdersOf(u, go) : \E i \in go : o = <<plan[u].event, u, i>>
      BY <1>6
    <3>4. \A o \in OrdersOf(u, Due(u) \ go) : \E i \in Due(u) \ go : o = <<plan[u].event, u, i>>
      BY <1>6, <3>2
    <3> QED BY <3>1, <3>3, <3>4
  <2>4. inflight' \subseteq sent' /\ inflight' \cap lost' = {}
    <3>1. Due(u) \ go \in SUBSET Due(u)
      OBVIOUS
    <3> QED BY <1>2, <2>1, <2>2, <2>3, <3>1
  <2> DEFINE left(v) == DOMAIN plan'[v].offsets \ plan'[v].consumed
  <2>5. \A v, i : v \in Traders /\ i \in left(v) => <<plan'[v].event, v, i>> \notin sent' \cup lost'
    <3>1. left(u) = Open(u) \ Due(u) /\ \A v \in Traders : v # u => left(v) = Open(v)
      BY <1>3 DEF Open
    <3> HIDE DEF left
    <3> SUFFICES ASSUME NEW v, v \in Traders, NEW i, i \in left(v)
                 PROVE  <<plan'[v].event, v, i>> \notin sent' \cup lost'
      OBVIOUS
    <3>2. <<plan'[v].event, v, i>> \notin OrdersOf(u, go) \cup OrdersOf(u, Due(u) \ go)
      <4>1. v # u \/ i \notin Due(u)
        BY <3>1
      <4>2. \A j : <<plan'[v].event, v, i>> = <<plan[u].event, u, j>> => v = u /\ i = j
        OBVIOUS
      <4>3. Due(u) \ go \in SUBSET Due(u)
        OBVIOUS
      <4> QED BY <1>6, <4>1, <4>2, <4>3
    <3>3. <<plan'[v].event, v, i>> \notin sent \cup lost
      <4>1. i \in Open(v) /\ plan'[v].event = plan[v].event
        BY <1>1, <3>1
      <4> QED BY <2>1, <4>1
    <3> QED BY <1>2, <3>2, <3>3
  <2> QED BY <2>4, <2>5 DEF SentInv, Open
<1>11. DoneInv'
  BY <1>1, <1>3 DEF CoordinatorInv, DoneInv
<1> QED BY <1>7, <1>8, <1>9, <1>10, <1>11 DEF CoordinatorInv

\* A report can complete an event, but not the one being assigned.
LEMMA CoordinatorReport ==
    ASSUME TypeInv, CoordinatorInv, NEW o,
           SubmitRaises(o) \/ \E submitted \in BOOLEAN : AfterSubmit(o, submitted)
    PROVE  CoordinatorInv'
<1>1. /\ o \in inflight /\ inflight' = inflight \ {o}
      /\ UNCHANGED <<main, applying, toAssign, processed, plan, traderEvent, sent>>
  BY DEF AfterSubmit, SubmitRaises, stepVars, eventVars
<1>2. lost' \in {lost, lost \cup {o}}
  BY DEF AfterSubmit, SubmitRaises
<1>3. ASSUME NEW e \in Events
      PROVE  /\ run'[e].planned = run[e].planned
             /\ run'[e].completed => run[e].completed \/ (run[e].planned > 0 /\ NothingLeft(plan, traderEvent, e))
  <2>1. CASE SubmitRaises(o)
    BY <2>1 DEF SubmitRaises
  <2>2. ASSUME NEW submitted \in BOOLEAN, AfterSubmit(o, submitted)
        PROVE  /\ run'[e].planned = run[e].planned
               /\ run'[e].completed => run[e].completed \/ (run[e].planned > 0 /\ NothingLeft(plan, traderEvent, e))
    <3>1. /\ EventOf(o) \in Events \cup {None}
          /\ EventOf(o) = None => run' = run
          /\ EventOf(o) \in Events =>
                /\ \A d \in Events : d # EventOf(o) => run'[d] = run[d]
                /\ run'[EventOf(o)].planned = run[EventOf(o)].planned
                /\ run'[EventOf(o)].completed <=>
                     run[EventOf(o)].completed \/ (run[EventOf(o)].planned > 0 /\ NothingLeft(plan, traderEvent, EventOf(o)))
      BY <2>2, ReportFacts
    <3>2. CASE EventOf(o) = e
      BY <3>1, <3>2
    <3>3. CASE EventOf(o) # e
      <4>1. run'[e] = run[e]
        BY <3>1, <3>3
      <4> QED BY <4>1
    <3> QED BY <3>2, <3>3
  <2> QED BY <2>1, <2>2
<1>4. \A u : Open(u)' = Open(u)
  BY <1>1 DEF Open
<1>5. /\ sent \cup lost' = sent \cup lost /\ inflight \subseteq sent
  BY <1>1, <1>2 DEF CoordinatorInv, SentInv
<1>6. ReactsInv'
  BY <1>1, <1>4 DEF CoordinatorInv, ReactsInv
<1>7. KnownInv'
  <2>1. \A e \in Events : run'[e].planned > 0 \/ run'[e].completed => processed[e] # None
    BY <1>3 DEF CoordinatorInv, KnownInv, Known
  <2>2. \A u \in Traders : plan[u].event # None => processed[plan[u].event] # None
    BY DEF CoordinatorInv, KnownInv, Known
  <2>3. (\A p \in sent \cup lost : processed[p[1]] # None) /\ (applying # None => processed[applying] # None)
    BY DEF CoordinatorInv, KnownInv, Known
  <2> QED BY <1>1, <1>5, <2>1, <2>2, <2>3 DEF KnownInv, Known
<1>8. AssignInv'
  <2> SUFFICES ASSUME applying # None PROVE AssignInv'
    BY <1>1 DEF AssignInv
  <2>1. /\ main \in {"poll", "before"} /\ ~run[applying].completed /\ applying \in Events
        /\ run[applying].planned > 0 => \E u \in Traders : traderEvent[u] = applying /\ Open(u) # {}
        /\ \A u \in DOMAIN toAssign : Open(u) = {} /\ \A i \in Nat : <<applying, u, i>> \notin sent \cup lost
    BY DEF CoordinatorInv, AssignInv, TypeInv, TypeOK
  <2>2. ~run'[applying].completed
    <3> SUFFICES ASSUME run[applying].planned > 0, NothingLeft(plan, traderEvent, applying) PROVE FALSE
      BY <1>3, <2>1
    <3>1. PICK u \in Traders : traderEvent[u] = applying /\ Open(u) # {}
      BY <2>1
    <3> QED BY <3>1 DEF NothingLeft, Open
  <2>3. run'[applying].planned = run[applying].planned
    BY <1>3, <2>1
  <2> QED BY <1>1, <1>4, <1>5, <2>1, <2>2, <2>3 DEF AssignInv
<1>9. SentInv'
  BY <1>1, <1>2, <1>4, <1>5 DEF CoordinatorInv, SentInv
<1>10. DoneInv'
  <2> SUFFICES ASSUME NEW e \in Events, run'[e].completed, NEW u \in Traders, plan[u].event = e
               PROVE  Open(u) = {}
    BY <1>1, <1>4 DEF DoneInv
  <2>1. CASE run[e].completed
    BY <2>1 DEF CoordinatorInv, DoneInv
  <2>2. CASE NothingLeft(plan, traderEvent, e)
    BY <2>2 DEF NothingLeft, Open, CoordinatorInv, ReactsInv
  <2> QED BY <1>3, <2>1, <2>2
<1> QED BY <1>6, <1>7, <1>8, <1>9, <1>10 DEF CoordinatorInv

LEMMA CoordinatorNext ==
    ASSUME TypeInv, CoordinatorInv, [Next]_vars
    PROVE  CoordinatorInv'
BY CoordinatorStill, CoordinatorApply, CoordinatorAssign, CoordinatorDropLate, CoordinatorTakeTurn,
   CoordinatorReport DEF Next, MainStep

-----------------------------------------------------------------------------
(* Every order is accounted for. *)

Waiting == SumFunction([u \in Traders |-> Remaining(u)])

\* There are finitely many orders, so those in flight and lost can be counted.
LEMMA OrdersFinite == IsFiniteSet(Orders)
<1> DEFINE I == 1 .. MaxOf(Counts)
           A == (Events \X Traders) \X I
           f == [p \in A |-> <<p[1][1], p[1][2], p[2]>>]
<1>1. IsFiniteSet(I)
  BY MaxCounts, FS_Interval
<1>2. Orders = Events \X Traders \X I
  BY DEF Orders
<1> HIDE DEF I
<1>3. IsFiniteSet(A)
  <2>1. IsFiniteSet(Events \X Traders)
    BY CoordinatorAssumption, FS_Product
  <2> QED BY <1>1, <2>1, FS_Product
<1>4. f \in [A -> Orders]
  <2>1. \A p \in A : p[1][1] \in Events /\ p[1][2] \in Traders /\ p[2] \in I
    OBVIOUS
  <2> HIDE DEF A
  <2>2. \A p \in A : <<p[1][1], p[1][2], p[2]>> \in Orders
    BY <1>2, <2>1
  <2> QED BY <2>2
<1>5. \A o \in Orders : \E p \in A : f[p] = o
  <2>1. ASSUME NEW d \in Events, NEW u \in Traders, NEW i \in I PROVE \E p \in A : f[p] = <<d, u, i>>
    <3>1. <<<<d, u>>, i>> \in A /\ f[<<<<d, u>>, i>>] = <<d, u, i>>
      OBVIOUS
    <3> QED BY <3>1
  <2> HIDE DEF A, f
  <2>2. \A o \in Orders : o = <<o[1], o[2], o[3]>> /\ o[1] \in Events /\ o[2] \in Traders /\ o[3] \in I
    BY <1>2
  <2> QED BY <2>1, <2>2
<1> HIDE DEF A, f
<1>6. f \in Surjection(A, Orders)
  BY <1>4, <1>5 DEF Surjection
<1> QED BY <1>3, <1>6, FS_Surjection

LEMMA OrdersCount ==
    ASSUME NEW u, NEW I, IsFiniteSet(I)
    PROVE  IsFiniteSet(OrdersOf(u, I)) /\ Cardinality(OrdersOf(u, I)) = Cardinality(I)
<1> DEFINE f == [i \in I |-> <<plan[u].event, u, i>>]
<1>1. f \in [I -> OrdersOf(u, I)] /\ \A i \in I : f[i] = <<plan[u].event, u, i>>
  BY DEF OrdersOf
<1>2. \A o \in OrdersOf(u, I) : \E i \in I : f[i] = o
  BY DEF OrdersOf
<1> HIDE DEF f
<1>3. \A i, j \in I : f[i] = f[j] => i = j
  BY <1>1
<1>4. f \in Bijection(I, OrdersOf(u, I))
  BY <1>1, <1>2, <1>3 DEF Bijection, Injection, Surjection, IsInjective
<1>5. ExistsBijection(I, OrdersOf(u, I))
  BY <1>4 DEF ExistsBijection
<1> QED BY <1>5, FS_Bijection

\* One summand changed, and none.
LEMMA OneChanges ==
    ASSUME NEW S, IsFiniteSet(S), NEW f, f \in [S -> Int], NEW g, g \in [S -> Int],
           NEW a \in S, \A x \in S : x # a => g[x] = f[x]
    PROVE  SumFunction(f) \in Int /\ SumFunction(g) = SumFunction(f) - f[a] + g[a]
<1>1. DOMAIN f = S /\ DOMAIN g = S /\ \A x \in S : f[x] \in Int /\ g[x] \in Int
  OBVIOUS
<1>2. SumFunction(f) = SumFunctionOnSet(f, S) /\ SumFunction(g) = SumFunctionOnSet(g, S)
  BY <1>1 DEF SumFunction
<1> QED BY <1>1, <1>2, SumChanges, SumType

\* The summands are numbers.
LEMMA RunSummands ==
    ASSUME NEW r \in [Events -> Runs]
    PROVE  /\ [e \in Events |-> r[e].planned] \in [Events -> Int]
           /\ [e \in Events |-> r[e].submitted] \in [Events -> Int]
           /\ [e \in Events |-> r[e].dropped] \in [Events -> Int]
BY DEF Runs

LEMMA Summands ==
    ASSUME TypeInv
    PROVE  /\ [e \in Events |-> run[e].planned] \in [Events -> Int]
           /\ [e \in Events |-> run[e].submitted] \in [Events -> Int]
           /\ [e \in Events |-> run[e].dropped] \in [Events -> Int]
           /\ [u \in Traders |-> Remaining(u)] \in [Traders -> Int]
           /\ IsFiniteSet(Events) /\ IsFiniteSet(Traders)
           /\ IsFiniteSet(inflight) /\ Cardinality(inflight) \in Nat
           /\ IsFiniteSet(lost) /\ Cardinality(lost) \in Nat
<1>1. \A e \in Events : run[e].planned \in Int /\ run[e].submitted \in Int /\ run[e].dropped \in Int
  BY DEF TypeInv, Runs
<1>2. \A u \in Traders : Remaining(u) \in Int
  BY OpenFacts
<1>3. inflight \subseteq Orders /\ lost \subseteq Orders
  BY DEF TypeInv, TypeOK
<1>4. IsFiniteSet(inflight) /\ IsFiniteSet(lost)
  BY <1>3, OrdersFinite, FS_Subset
<1>5. Cardinality(inflight) \in Nat /\ Cardinality(lost) \in Nat
  BY <1>4, FS_CardinalityType
<1>6. IsFiniteSet(Events) /\ IsFiniteSet(Traders)
  BY CoordinatorAssumption
<1> QED BY <1>1, <1>2, <1>4, <1>5, <1>6

LEMMA Totals ==
    ASSUME TypeInv
    PROVE  Planned \in Int /\ Submitted \in Int /\ Dropped \in Int /\ Waiting \in Int
<1>1. ASSUME NEW S, IsFiniteSet(S), NEW f \in [S -> Int] PROVE SumFunction(f) \in Int
  BY <1>1, SumType DEF SumFunction
<1>2. Planned \in Int
  BY <1>1, Summands DEF Planned
<1>3. Submitted \in Int
  BY <1>1, Summands DEF Submitted
<1>4. Dropped \in Int
  BY <1>1, Summands DEF Dropped
<1>5. Waiting \in Int
  BY <1>1, Summands DEF Waiting
<1> QED BY <1>2, <1>3, <1>4, <1>5

LEMMA AccountedInit == Init => Accounted
<1> SUFFICES ASSUME Init PROVE Accounted
  OBVIOUS
<1>0. IsFiniteSet(Events) /\ IsFiniteSet(Traders)
  BY CoordinatorAssumption
<1>1. /\ \A e \in Events : run[e].planned = 0 /\ run[e].submitted = 0 /\ run[e].dropped = 0
  BY DEF Init, NoRun
<1>2. \A u \in Traders : Remaining(u) = 0
  <2>1. NoPlan.offsets = << >> /\ NoPlan.consumed = {} /\ DOMAIN << >> = {}
    BY DEF NoPlan
  <2>2. \A u \in Traders : Open(u) = {}
    BY <2>1 DEF Init, Open
  <2> QED BY <2>2, FS_EmptySet DEF Remaining
<1>3. ASSUME NEW S, IsFiniteSet(S), NEW f \in [S -> {0}] PROVE SumFunction(f) = 0
  BY <1>3, SumZero DEF SumFunction
<1>4. Planned = 0
  <2>1. [e \in Events |-> run[e].planned] \in [Events -> {0}]
    BY <1>1
  <2> QED BY <1>0, <1>3, <2>1 DEF Planned
<1>5. Submitted = 0
  <2>1. [e \in Events |-> run[e].submitted] \in [Events -> {0}]
    BY <1>1
  <2> QED BY <1>0, <1>3, <2>1 DEF Submitted
<1>6. Dropped = 0
  <2>1. [e \in Events |-> run[e].dropped] \in [Events -> {0}]
    BY <1>1
  <2> QED BY <1>0, <1>3, <2>1 DEF Dropped
<1>7. Waiting = 0
  <2>1. [u \in Traders |-> Remaining(u)] \in [Traders -> {0}]
    BY <1>2
  <2> QED BY <1>0, <1>3, <2>1 DEF Waiting
<1>8. Cardinality(inflight) = 0 /\ Cardinality(lost) = 0
  BY FS_EmptySet DEF Init
<1> QED BY <1>4, <1>5, <1>6, <1>7, <1>8 DEF Accounted, Waiting

\* Steps that leave plans, counters and orders alone.
LEMMA AccountedQuiet ==
    ASSUME Accounted, UNCHANGED <<plan, run, jobVars>>
    PROVE  Accounted'
<1>1. UNCHANGED <<inflight, lost>>
  BY DEF jobVars
<1>2. Waiting' = Waiting
  BY DEF Waiting, Remaining, Open
<1>3. Planned' = Planned /\ Submitted' = Submitted /\ Dropped' = Dropped
  BY DEF Planned, Submitted, Dropped
<1> QED BY <1>1, <1>2, <1>3 DEF Accounted, Waiting

\* An event is planned for as many orders as the woken trader gets to send.
LEMMA AccountedAssign ==
    ASSUME TypeInv, TypeInv', CoordinatorInv, Accounted, NEW u \in Traders, Assign(u)
    PROVE  Accounted'
<1> DEFINE e == applying
           n == Len(toAssign[u])
<1>1. /\ e \in Events /\ n \in Nat /\ toAssign[u] \in Seq(Int) /\ Open(u) = {}
      /\ plan' = [plan EXCEPT ![u] = PlanOf(u, e, toAssign[u])]
      /\ run' = [run EXCEPT ![e].planned = @ + n]
      /\ UNCHANGED jobVars
  BY AssignFacts
<1>2. /\ \A d \in Events : /\ run'[d].submitted = run[d].submitted /\ run'[d].dropped = run[d].dropped
                           /\ d # e => run'[d].planned = run[d].planned
      /\ run'[e].planned = run[e].planned + n
  BY <1>1 DEF TypeInv, Runs
<1>3. Submitted' = Submitted /\ Dropped' = Dropped
  BY <1>2 DEF Submitted, Dropped
<1>4. Planned' = Planned + n
  <2> DEFINE f == [d \in Events |-> run[d].planned]
             g == [d \in Events |-> run'[d].planned]
  <2>1. f \in [Events -> Int] /\ g \in [Events -> Int] /\ IsFiniteSet(Events)
    <3>1. run \in [Events -> Runs] /\ run' \in [Events -> Runs]
      BY DEF TypeInv
    <3> QED BY <3>1, RunSummands, CoordinatorAssumption
  <2>2. Planned = SumFunction(f) /\ Planned' = SumFunction(g)
    BY DEF Planned
  <2>3. g[e] = f[e] + n /\ \A d \in Events : d # e => g[d] = f[d]
    BY <1>1, <1>2
  <2>e. e \in Events /\ n \in Int
    BY <1>1
  <2> HIDE DEF f, g, e, n
  <2>4. SumFunction(f) \in Int /\ SumFunction(g) = SumFunction(f) - f[e] + g[e]
    BY <2>1, <2>3, <2>e, OneChanges
  <2>5. f[e] \in Int
    BY <2>e, <2>1
  <2> QED BY <2>e, <2>2, <2>3, <2>4, <2>5
<1>5. Waiting' = Waiting + n
  <2> DEFINE f == [v \in Traders |-> Remaining(v)]
             g == [v \in Traders |-> Remaining(v)']
  <2>1. f \in [Traders -> Int] /\ IsFiniteSet(Traders)
    BY Summands
  <2>2. Waiting = SumFunction(f) /\ Waiting' = SumFunction(g)
    BY DEF Waiting
  <2>3. \A v \in Traders : v # u => g[v] = f[v]
    BY <1>1 DEF Remaining, Open, TypeInv
  <2>4. f[u] = 0
    BY <1>1, FS_EmptySet DEF Remaining
  <2>5. g[u] = n
    <3>1. plan'[u].offsets = toAssign[u] /\ plan'[u].consumed = {}
      BY <1>1 DEF PlanOf, TypeInv
    <3>2. DOMAIN toAssign[u] = 1 .. n
      BY <1>1, LenProperties
    <3>3. Open(u)' = 1 .. n
      BY <3>1, <3>2 DEF Open
    <3>4. n \in Nat
      BY <1>1
    <3>5. Cardinality(1 .. n) = n
      <4> HIDE DEF n
      <4> QED BY <3>4, FS_Interval
    <3> QED BY <3>3, <3>5 DEF Remaining
  <2>6. n \in Int /\ g = [v \in Traders |-> g[v]]
    BY <1>1
  <2> HIDE DEF f, g, n
  <2>7. \A v \in Traders : g[v] \in Int
    BY <2>1, <2>3, <2>5, <2>6
  <2>8. g \in [Traders -> Int]
    BY <2>6, <2>7
  <2>9. SumFunction(f) \in Int /\ SumFunction(g) = SumFunction(f) - f[u] + g[u]
    BY <2>1, <2>3, <2>8, OneChanges
  <2> QED BY <2>2, <2>4, <2>5, <2>6, <2>9
<1>6. UNCHANGED <<inflight, lost>>
  BY <1>1 DEF jobVars
<1>7. Planned \in Int /\ Submitted \in Int /\ Dropped \in Int /\ Waiting \in Int /\ n \in Int
        /\ Cardinality(inflight) \in Int /\ Cardinality(lost) \in Int
  BY <1>1, Totals, Summands
<1> HIDE DEF e, n
<1>8. Planned = Submitted + Dropped + Waiting + Cardinality(inflight) + Cardinality(lost)
  BY DEF Accounted, Waiting
<1>9. Planned' = Submitted' + Dropped' + Waiting' + Cardinality(inflight') + Cardinality(lost')
  BY <1>3, <1>4, <1>5, <1>6, <1>7, <1>8
<1> QED BY <1>9 DEF Accounted, Waiting

\* Late orders move from the plans to the counters of their traders' events.
LEMMA AccountedDropLate ==
    ASSUME TypeInv, CoordinatorInv, Accounted, DropLate
    PROVE  Accounted'
<1> DEFINE w == [u \in Traders |-> Cardinality(Late(u))]
           late == [e \in Events |-> SumFunction(LateOf(e))]
           total == SumFunctionOnSet(w, Traders)
<1>1. UNCHANGED <<inflight, lost>>
  BY DEF DropLate, jobVars
<1>2. \A u \in Traders : /\ plan'[u].offsets = plan[u].offsets
                         /\ plan'[u].consumed = plan[u].consumed \cup Late(u)
  BY DropFacts
<1>3. /\ run' \in [Events -> Runs] /\ run \in [Events -> Runs]
      /\ \A e \in Events :
           /\ late[e] \in Nat
           /\ run'[e].planned = run[e].planned /\ run'[e].submitted = run[e].submitted
           /\ run'[e].dropped = run[e].dropped + late[e]
  BY DropFacts DEF TypeInv
<1>4. IsFiniteSet(Events) /\ IsFiniteSet(Traders)
  BY CoordinatorAssumption
<1>5. Planned' = Planned /\ Submitted' = Submitted
  BY <1>3 DEF Planned, Submitted
<1>6. SumFunctionOnSet(late, Events) = total
  <2>1. \A u \in Traders : w[u] \in Int /\ (traderEvent[u] \in Events \/ w[u] = 0)
    <3> SUFFICES ASSUME NEW u \in Traders PROVE w[u] \in Int /\ (traderEvent[u] \in Events \/ w[u] = 0)
      OBVIOUS
    <3>1. Cardinality(Late(u)) \in Nat /\ (traderEvent[u] = None => Cardinality(Late(u)) = 0)
      BY LateFacts
    <3>2. traderEvent[u] \in Events \cup {None}
      BY DEF TypeInv, TypeOK
    <3> QED BY <3>1, <3>2
  <2> DEFINE share == [e \in Events |-> LateOf(e)]
  <2>2. \A e \in Events : \A u \in Traders : share[e][u] = IF traderEvent[u] = e THEN w[u] ELSE 0
    BY DEF LateOf
  <2>3. \A e \in Events : late[e] = SumFunctionOnSet(share[e], Traders)
    BY DEF SumFunction, LateOf
  <2> HIDE DEF late, w, share
  <2>4. SharedByKey(Events, Traders, traderEvent, w, share, late)
    BY <2>1, <2>2, <2>3 DEF SharedByKey
  <2> QED BY <1>4, <2>4, SumByKey
<1>7. Dropped' = Dropped + total
  <2> DEFINE f == [e \in Events |-> run[e].dropped]
             h == [e \in Events |-> run'[e].dropped]
  <2>1. f \in [Events -> Int] /\ h \in [Events -> Int]
    BY <1>3, RunSummands
  <2>2. \A e \in Events : f[e] \in Int /\ late[e] \in Int /\ h[e] = f[e] + late[e]
    BY <1>3, <2>1
  <2>3. Dropped = SumFunctionOnSet(f, Events) /\ Dropped' = SumFunctionOnSet(h, Events)
    BY DEF Dropped, SumFunction
  <2> HIDE DEF f, h, late, total
  <2>4. SumFunctionOnSet(h, Events) = SumFunctionOnSet(f, Events) + SumFunctionOnSet(late, Events)
    BY <1>4, <2>2, SumAdds
  <2> QED BY <1>6, <2>3, <2>4
<1>8. Waiting = Waiting' + total /\ Waiting' \in Int /\ total \in Int
  <2> DEFINE f == [u \in Traders |-> Remaining(u)']
             h == [u \in Traders |-> Remaining(u)]
  <2>1. ASSUME NEW u \in Traders
        PROVE  f[u] \in Int /\ w[u] \in Int /\ h[u] = f[u] + w[u]
    <3>1. Open(u)' = Open(u) \ Late(u) /\ Open(u) \cap Late(u) = Late(u)
      BY <1>2, LateFacts DEF Open
    <3>2. IsFiniteSet(Open(u)) /\ Cardinality(Open(u)) \in Nat /\ Cardinality(Late(u)) \in Nat
      BY OpenFacts, LateFacts, FS_CardinalityType
    <3>3. Cardinality(Open(u) \ Late(u)) = Cardinality(Open(u)) - Cardinality(Late(u))
      BY <3>1, <3>2, FS_Difference
    <3>4. f[u] = Cardinality(Open(u) \ Late(u)) /\ h[u] = Cardinality(Open(u)) /\ w[u] = Cardinality(Late(u))
      BY <3>1 DEF Remaining
    <3> HIDE DEF f, h, w
    <3> QED BY <3>2, <3>3, <3>4
  <2>2. Waiting = SumFunctionOnSet(h, Traders) /\ Waiting' = SumFunctionOnSet(f, Traders)
    BY DEF Waiting, SumFunction
  <2> HIDE DEF f, h, w
  <2>3. SumFunctionOnSet(h, Traders) = SumFunctionOnSet(f, Traders) + SumFunctionOnSet(w, Traders)
    BY <1>4, <2>1, SumAdds
  <2>4. SumFunctionOnSet(f, Traders) \in Int /\ SumFunctionOnSet(w, Traders) \in Int
    BY <1>4, <2>1, SumType
  <2> QED BY <2>2, <2>3, <2>4
<1>9. Planned \in Int /\ Submitted \in Int /\ Dropped \in Int
        /\ Cardinality(inflight) \in Int /\ Cardinality(lost) \in Int
  BY Totals, Summands
<1> HIDE DEF w, late, total
<1>10. Planned = Submitted + Dropped + Waiting + Cardinality(inflight) + Cardinality(lost)
  BY DEF Accounted, Waiting
<1>11. Planned' = Submitted' + Dropped' + Waiting' + Cardinality(inflight') + Cardinality(lost')
  BY <1>1, <1>5, <1>7, <1>8, <1>9, <1>10
<1> QED BY <1>11 DEF Accounted, Waiting

\* Orders that are due leave the plan; each is in flight or lost.
LEMMA AccountedTakeTurn ==
    ASSUME TypeInv, CoordinatorInv, Accounted, NEW u \in Traders, TakeTurn(u)
    PROVE  Accounted'
<1>0. ReactsInv
  BY DEF CoordinatorInv
<1>1. /\ plan'[u].offsets = plan[u].offsets /\ plan'[u].consumed = plan[u].consumed \cup Due(u)
      /\ \A v \in Traders : v # u => plan'[v] = plan[v]
      /\ UNCHANGED run
  BY <1>0, TakeTurnFacts
<1>2. PICK go \in SUBSET Due(u) :
                /\ inflight' = inflight \cup OrdersOf(u, go)
                /\ sent' = sent \cup OrdersOf(u, go)
                /\ lost' = lost \cup OrdersOf(u, Due(u) \ go)
  BY <1>0, TakeTurnFacts
<1> DEFINE no == Due(u) \ go
<1>3. Due(u) \subseteq Open(u) /\ IsFiniteSet(Due(u)) /\ IsFiniteSet(Open(u))
  BY <1>0, DueFacts, OpenFacts
<1>4. IsFiniteSet(go) /\ IsFiniteSet(no)
  BY <1>3, FS_Subset
<1>5. /\ Cardinality(go) \in Nat /\ Cardinality(no) \in Nat /\ Cardinality(Due(u)) \in Nat /\ Cardinality(Open(u)) \in Nat
      /\ Cardinality(Due(u)) = Cardinality(go) + Cardinality(no)
  <2>1. Cardinality(no) = Cardinality(Due(u)) - Cardinality(go)
    <3>1. Due(u) \cap go = go
      OBVIOUS
    <3> QED BY <1>3, <3>1, FS_Difference
  <2>2. Cardinality(go) \in Nat /\ Cardinality(no) \in Nat /\ Cardinality(Due(u)) \in Nat /\ Cardinality(Open(u)) \in Nat
    BY <1>3, <1>4, FS_CardinalityType
  <2> HIDE DEF no
  <2> QED BY <2>1, <2>2
<1>6. \A I \in SUBSET Due(u) : OrdersOf(u, I) \cap (sent \cup lost) = {}
  BY <1>3 DEF OrdersOf, CoordinatorInv, SentInv
<1>7. inflight \subseteq sent
  BY DEF CoordinatorInv, SentInv
<1>8. Cardinality(inflight') = Cardinality(inflight) + Cardinality(go)
  <2>1. inflight \cap OrdersOf(u, go) = {}
    BY <1>6, <1>7
  <2>2. IsFiniteSet(OrdersOf(u, go)) /\ Cardinality(OrdersOf(u, go)) = Cardinality(go)
    BY <1>4, OrdersCount
  <2>3. Cardinality({}) = 0 /\ IsFiniteSet(inflight) /\ Cardinality(inflight) \in Nat
    BY Summands, FS_EmptySet
  <2>4. Cardinality(inflight \cup OrdersOf(u, go)) =
          Cardinality(inflight) + Cardinality(OrdersOf(u, go)) - Cardinality(inflight \cap OrdersOf(u, go))
    BY <2>2, <2>3, FS_Union
  <2>5. Cardinality(inflight \cap OrdersOf(u, go)) = 0
    BY <2>1, <2>3
  <2>6. Cardinality(inflight \cup OrdersOf(u, go)) = Cardinality(inflight) + Cardinality(go)
    BY <1>5, <2>2, <2>3, <2>4, <2>5
  <2> QED BY <1>2, <2>6
<1>9. Cardinality(lost') = Cardinality(lost) + Cardinality(no)
  <2>1. lost \cap OrdersOf(u, no) = {} /\ no \in SUBSET Due(u)
    BY <1>6
  <2>2. IsFiniteSet(OrdersOf(u, no)) /\ Cardinality(OrdersOf(u, no)) = Cardinality(no)
    BY <1>4, OrdersCount
  <2>3. Cardinality({}) = 0 /\ IsFiniteSet(lost) /\ Cardinality(lost) \in Nat
    BY Summands, FS_EmptySet
  <2>5. lost' = lost \cup OrdersOf(u, no)
    BY <1>2
  <2> HIDE DEF no
  <2>4. Cardinality(lost \cup OrdersOf(u, no)) =
          Cardinality(lost) + Cardinality(OrdersOf(u, no)) - Cardinality(lost \cap OrdersOf(u, no))
    BY <2>2, <2>3, FS_Union
  <2>6. Cardinality(lost \cap OrdersOf(u, no)) = 0
    BY <2>1, <2>3
  <2>7. Cardinality(no) \in Nat
    BY <1>5 DEF no
  <2>8. Cardinality(lost \cup OrdersOf(u, no)) = Cardinality(lost) + Cardinality(no)
    BY <2>2, <2>3, <2>4, <2>6, <2>7
  <2> QED BY <2>5, <2>8
<1>10. Waiting' = Waiting - Cardinality(Due(u))
  <2> DEFINE f == [v \in Traders |-> Remaining(v)]
             g == [v \in Traders |-> Remaining(v)']
  <2>1. f \in [Traders -> Int] /\ IsFiniteSet(Traders)
    BY Summands
  <2>2. Waiting = SumFunction(f) /\ Waiting' = SumFunction(g)
    BY DEF Waiting
  <2>3. \A v \in Traders : v # u => g[v] = f[v]
    BY <1>1 DEF Remaining, Open
  <2>4. f[u] = Cardinality(Open(u))
    BY DEF Remaining
  <2>5. g[u] = Cardinality(Open(u)) - Cardinality(Due(u))
    <3>1. Open(u)' = Open(u) \ Due(u) /\ Open(u) \cap Due(u) = Due(u)
      BY <1>1, <1>3 DEF Open
    <3>2. Cardinality(Open(u) \ Due(u)) = Cardinality(Open(u)) - Cardinality(Due(u))
      BY <1>3, <3>1, FS_Difference
    <3> QED BY <3>1, <3>2 DEF Remaining
  <2>6. g = [v \in Traders |-> g[v]]
    OBVIOUS
  <2> HIDE DEF f, g
  <2>7. \A v \in Traders : g[v] \in Int
    BY <1>5, <2>1, <2>3, <2>5
  <2>8. g \in [Traders -> Int]
    BY <2>6, <2>7
  <2>9. SumFunction(f) \in Int /\ SumFunction(g) = SumFunction(f) - f[u] + g[u]
    BY <2>1, <2>3, <2>8, OneChanges
  <2> QED BY <1>5, <2>2, <2>4, <2>5, <2>9
<1>11. Planned' = Planned /\ Submitted' = Submitted /\ Dropped' = Dropped
  BY <1>1 DEF Planned, Submitted, Dropped
<1>12. Planned \in Int /\ Submitted \in Int /\ Dropped \in Int /\ Waiting \in Int
        /\ Cardinality(inflight) \in Int /\ Cardinality(lost) \in Int
  BY Totals, Summands
<1> HIDE DEF no
<1>13. Planned = Submitted + Dropped + Waiting + Cardinality(inflight) + Cardinality(lost)
  BY DEF Accounted, Waiting
<1>14. Planned' = Submitted' + Dropped' + Waiting' + Cardinality(inflight') + Cardinality(lost')
  BY <1>5, <1>8, <1>9, <1>10, <1>11, <1>12, <1>13
<1> QED BY <1>14 DEF Accounted, Waiting

\* A report moves one order from the jobs to a counter, or to the lost ones.
LEMMA JobEnds ==
    ASSUME TypeInv, CoordinatorInv, NEW o \in inflight
    PROVE  /\ Cardinality(inflight \ {o}) = Cardinality(inflight) - 1
           /\ Cardinality(lost \cup {o}) = Cardinality(lost) + 1
           /\ Cardinality(inflight) \in Nat /\ Cardinality(lost) \in Nat
<1>1. o \notin lost
  BY DEF CoordinatorInv, SentInv
<1> QED BY <1>1, Summands, FS_AddElement, FS_RemoveElement

LEMMA AccountedReport ==
    ASSUME TypeInv, CoordinatorInv, Accounted, NEW o,
           SubmitRaises(o) \/ \E submitted \in BOOLEAN : AfterSubmit(o, submitted)
    PROVE  Accounted'
<1>1. o \in inflight /\ inflight' = inflight \ {o} /\ UNCHANGED plan
  BY DEF AfterSubmit, SubmitRaises
<1>2. /\ Cardinality(inflight') = Cardinality(inflight) - 1
      /\ Cardinality(lost \cup {o}) = Cardinality(lost) + 1
      /\ Cardinality(inflight) \in Nat /\ Cardinality(lost) \in Nat
  BY <1>1, JobEnds
<1>3. Waiting' = Waiting
  BY <1>1 DEF Waiting, Remaining, Open
<1>4. Planned \in Int /\ Submitted \in Int /\ Dropped \in Int /\ Waiting \in Int
  BY Totals
<1>5. Planned = Submitted + Dropped + Waiting + Cardinality(inflight) + Cardinality(lost)
  BY DEF Accounted, Waiting
<1>6. CASE lost' = lost \cup {o} /\ run' = run
  <2>1. Planned' = Planned /\ Submitted' = Submitted /\ Dropped' = Dropped
    BY <1>6 DEF Planned, Submitted, Dropped
  <2>2. Planned' = Submitted' + Dropped' + Waiting' + Cardinality(inflight') + Cardinality(lost')
    BY <1>2, <1>3, <1>4, <1>5, <1>6, <2>1
  <2> QED BY <2>2 DEF Accounted, Waiting
<1>7. ASSUME NEW submitted \in BOOLEAN, AfterSubmit(o, submitted), EventOf(o) \in Events
      PROVE  Accounted'
  <2> DEFINE e == EventOf(o)
             f == [d \in Events |-> run[d].submitted]
             g == [d \in Events |-> run'[d].submitted]
             h == [d \in Events |-> run[d].dropped]
             k == [d \in Events |-> run'[d].dropped]
  <2>1. /\ lost' = lost /\ run' \in [Events -> Runs] /\ run \in [Events -> Runs]
        /\ \A d \in Events : d # e => run'[d] = run[d]
        /\ run'[e].planned = run[e].planned
        /\ run'[e].submitted + run'[e].dropped = run[e].submitted + run[e].dropped + 1
        /\ e \in Events /\ IsFiniteSet(Events)
    BY <1>7, ReportFacts, CoordinatorAssumption DEF TypeInv
  <2> HIDE DEF e
  <2>2. Planned' = Planned
    <3>1. \A d \in Events : run'[d].planned = run[d].planned
      BY <2>1
    <3> QED BY <3>1 DEF Planned
  <2>3. /\ Submitted = SumFunction(f) /\ Submitted' = SumFunction(g)
        /\ Dropped = SumFunction(h) /\ Dropped' = SumFunction(k)
    BY DEF Submitted, Dropped
  <2>4. f \in [Events -> Int] /\ g \in [Events -> Int] /\ h \in [Events -> Int] /\ k \in [Events -> Int]
    BY <2>1, RunSummands
  <2>5. \A d \in Events : d # e => g[d] = f[d] /\ k[d] = h[d]
    BY <2>1
  <2>6. g[e] + k[e] = f[e] + h[e] + 1
    BY <2>1
  <2> HIDE DEF f, g, h, k
  <2>7. SumFunction(f) \in Int /\ SumFunction(g) = SumFunction(f) - f[e] + g[e]
    BY <2>1, <2>4, <2>5, OneChanges
  <2>8. SumFunction(h) \in Int /\ SumFunction(k) = SumFunction(h) - h[e] + k[e]
    BY <2>1, <2>4, <2>5, OneChanges
  <2>9. f[e] \in Int /\ g[e] \in Int /\ h[e] \in Int /\ k[e] \in Int
    BY <2>1, <2>4
  <2>10. Submitted' + Dropped' = Submitted + Dropped + 1 /\ Submitted' \in Int /\ Dropped' \in Int
    BY <2>3, <2>6, <2>7, <2>8, <2>9
  <2>11. Cardinality(lost') = Cardinality(lost)
    BY <2>1
  <2>12. Planned' = Submitted' + Dropped' + Waiting' + Cardinality(inflight') + Cardinality(lost')
    <3> DEFINE s == Submitted
               d == Dropped
               q == Submitted'
               r == Dropped'
               w == Waiting
               a == Cardinality(inflight)
               b == Cardinality(lost)
    <3>1. s \in Int /\ d \in Int /\ q \in Int /\ r \in Int /\ w \in Int /\ a \in Int /\ b \in Int
      BY <1>2, <1>4, <2>10
    <3>2. q + r = s + d + 1 /\ Planned = s + d + w + a + b
      BY <1>5, <2>10
    <3>3. Planned' = Planned /\ Waiting' = w /\ Cardinality(inflight') = a - 1 /\ Cardinality(lost') = b
      BY <1>2, <1>3, <2>2, <2>11
    <3> HIDE DEF s, d, q, r, w, a, b
    <3>4. s + d + w + a + b = q + r + w + (a - 1) + b
      BY <3>1, <3>2
    <3>5. Planned' = q + r + Waiting' + Cardinality(inflight') + Cardinality(lost')
      BY <3>2, <3>3, <3>4
    <3> QED BY <3>5 DEF q, r
  <2> QED BY <2>12 DEF Accounted, Waiting
<1>8. CASE SubmitRaises(o)
  BY <1>6, <1>8 DEF SubmitRaises
<1>9. ASSUME NEW submitted \in BOOLEAN, AfterSubmit(o, submitted)
      PROVE  Accounted'
  <2>1. EventOf(o) \in Events \cup {None} /\ (EventOf(o) = None => lost' = lost \cup {o} /\ run' = run)
    BY <1>9, ReportFacts
  <2> QED BY <1>6, <1>7, <1>9, <2>1
<1> QED BY <1>8, <1>9

LEMMA AccountedNext ==
    ASSUME TypeInv, TypeInv', CoordinatorInv, Accounted, [Next]_vars
    PROVE  Accounted'
<1>1. ASSUME Tick \/ BeforeTick \/ TickEnds \/ Assigned \/ (\E u \in Traders : MissTurn(u)) \/ UNCHANGED vars
             \/ \E e \in Events : ApplyLive(e) \/ ApplyFixture(e)
      PROVE  Accounted'
  <2>1. UNCHANGED <<plan, run, jobVars>>
    BY <1>1 DEF Tick, BeforeTick, TickEnds, Assigned, MissTurn, vars, ApplyLive, ApplyFixture
  <2> QED BY <2>1, AccountedQuiet
<1> QED BY <1>1, AccountedAssign, AccountedDropLate, AccountedTakeTurn, AccountedReport DEF Next, MainStep

-----------------------------------------------------------------------------
(* Theorems *)

Inv == TypeInv /\ CoordinatorInv /\ Accounted

LEMMA SpecInv == Spec => []Inv
<1>1. Init => Inv
  BY TypeInit, CoordinatorInit, AccountedInit DEF Inv
<1>2. Inv /\ [Next]_vars => Inv'
  BY TypeNext, CoordinatorNext, AccountedNext DEF Inv
<1> QED BY <1>1, <1>2, PTL DEF Spec

\* Whatever is planned is at any time waiting, in flight, lost or counted
\* exactly once as submitted or dropped, for any traders, events and lateness.
THEOREM OrdersAccounted == Spec => []EveryOrderAccounted
<1>1. Inv => EveryOrderAccounted
  BY DEF Inv, TypeInv, Accounted, EveryOrderAccounted
<1> QED BY <1>1, SpecInv, PTL

\* An event that was reported complete has nothing to send, and gets nothing
\* to send by the assignment that is under way.
THEOREM CompletionIsFinal == Spec => []CompletedSendsNothing
<1>1. Inv => CompletedSendsNothing
  <2> SUFFICES ASSUME Inv, NEW e \in Events, run[e].completed
               PROVE  /\ \A u \in Traders : plan[u].event = e => Open(u) = {}
                      /\ applying # e
    BY DEF CompletedSendsNothing
  <2>1. \A u \in Traders : plan[u].event = e => Open(u) = {}
    BY DEF Inv, CoordinatorInv, DoneInv
  <2>2. applying # e
    BY CoordinatorAssumption DEF Inv, CoordinatorInv, AssignInv
  <2> QED BY <2>1, <2>2
<1> QED BY <1>1, SpecInv, PTL

\* No order is handed to a job twice, also across assignments, redelivered
\* events and reports that come late.
THEOREM OrdersSentOnce == Spec => SentOnce
<1>1. Inv /\ [Next]_vars => [\A o \in sent : o \in inflight' => o \in inflight]_vars
  <2> SUFFICES ASSUME Inv, Next, NEW o \in sent, o \in inflight'
               PROVE  o \in inflight
    OBVIOUS
  <2>0. TypeInv /\ CoordinatorInv /\ ReactsInv
    BY DEF Inv, CoordinatorInv
  <2>1. inflight' \subseteq inflight \/ \E u \in Traders : TakeTurn(u)
    BY DEF Next, MainStep, Tick, BeforeTick, DropLate, TickEnds, Assigned, ApplyLive, ApplyFixture,
           Assign, MissTurn, SubmitRaises, AfterSubmit, jobVars
  <2>2. ASSUME NEW u \in Traders, TakeTurn(u) PROVE o \in inflight
    <3>1. PICK go \in SUBSET Due(u) : inflight' = inflight \cup OrdersOf(u, go)
      BY <2>0, <2>2, TakeTurnFacts
    <3>2. go \subseteq Open(u)
      BY <2>0, DueFacts
    <3>3. OrdersOf(u, go) \cap sent = {}
      BY <2>0, <3>2 DEF OrdersOf, CoordinatorInv, SentInv
    <3> QED BY <3>1, <3>3
  <2> QED BY <2>1, <2>2
<1> QED BY <1>1, SpecInv, PTL DEF Spec, SentOnce
=============================================================================
