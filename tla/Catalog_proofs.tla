--------------------------- MODULE Catalog_proofs ---------------------------
(***************************************************************************)
(* Proofs about Catalog, for every catalogue, configuration and bound:     *)
(* types, the frontier that is never crawled, the seeds of a second run,   *)
(* and what a drained crawl leaves in the graph.  Five invariants carry    *)
(* them: TypeInv, what the queues, the crawled set and the graph may hold; *)
(* CoverInv, where a request is between its mark in the crawled set and    *)
(* what it writes and requests; ExpectInv, what a request may ask for;     *)
(* GraphInv, that the graph has no more than the closure of the catalogue; *)
(* and SeededInv, that who was seeded would still be.                      *)
(***************************************************************************)
EXTENDS Catalog, SequenceTheorems, FiniteSetTheorems, TLAPS

-----------------------------------------------------------------------------
(* Induction over numbers and lists, over sets of them.                    *)

LEMMA LeastNatural ==
  ASSUME NEW T \in SUBSET Nat, T # {}
  PROVE  \E x \in T : \A y \in T : x <= y
<1>. DEFINE U == {0..x : x \in T}
<1>1. U \subseteq FiniteSubsetsOf(Nat) /\ U # {}
  <2>1. \A x \in T : IsFiniteSet(0..x) /\ 0..x \subseteq Nat
    BY FS_Interval
  <2>. QED  BY <2>1 DEF FiniteSubsetsOf
<1>2. PICK u \in U : \A v \in U : ~ (<<v, u>> \in StrictSubsetOrdering(Nat))
  <2>. HIDE DEF U
  <2>. QED  BY <1>1, WFMin, FS_StrictSubsetOrderingWellFounded
<1>3. PICK x \in T : u = 0..x
  BY <1>2
<1>4. ASSUME NEW y \in T PROVE x <= y
  <2>1. SUFFICES ASSUME y < x PROVE FALSE
    OBVIOUS
  <2>2. 0..y \subseteq 0..x /\ 0..y # 0..x
    <3>1. x \in 0..x /\ x \notin 0..y
      BY <2>1
    <3>. QED  BY <2>1, <3>1
  <2>3. <<0..y, 0..x>> \in StrictSubsetOrdering(Nat)
    BY <2>2 DEF StrictSubsetOrdering
  <2>. QED  BY <1>2, <1>3, <2>3
<1>. QED  BY <1>4

LEMMA AllNaturals ==
  ASSUME NEW B \in SUBSET Nat, 0 \in B, \A n \in B : n + 1 \in B
  PROVE  B = Nat
<1>1. SUFFICES ASSUME Nat \ B # {} PROVE FALSE
  OBVIOUS
<1>2. PICK x \in Nat \ B : \A y \in Nat \ B : x <= y
  BY <1>1, LeastNatural
<1>3. x # 0 /\ x - 1 \in Nat
  BY <1>2
<1>4. x - 1 \in B
  BY <1>2, <1>3
<1>. QED  BY <1>2, <1>3, <1>4

LEMMA AllSequences ==
  ASSUME NEW T, NEW B \in SUBSET Seq(T), <<>> \in B, \A s \in B, x \in T : Append(s, x) \in B
  PROVE  B = Seq(T)
<1>. DEFINE N == {n \in Nat : \A s \in Seq(T) : Len(s) = n => s \in B}
<1>1. 0 \in N
  BY EmptySeq
<1>2. ASSUME NEW n \in N, NEW s \in Seq(T), Len(s) = n + 1 PROVE s \in B
  <2>1. s # <<>>
    BY <1>2, EmptySeq
  <2>2. PICK r \in Seq(T), x \in T : s = Append(r, x)
    BY <2>1, SequenceEmptyOrAppend
  <2>3. Len(r) = n
    BY <1>2, <2>2, AppendProperties, LenProperties
  <2>. QED  BY <2>2, <2>3
<1>3. N = Nat
  <2>1. ASSUME NEW n \in N PROVE n + 1 \in N
    <3>1. n + 1 \in Nat
      OBVIOUS
    <3>2. \A s \in Seq(T) : Len(s) = n + 1 => s \in B
      <4>. HIDE DEF N
      <4>. QED  BY <1>2
    <3>. QED  BY <3>1, <3>2
  <2>2. N \in SUBSET Nat
    OBVIOUS
  <2>. HIDE DEF N
  <2>. QED  BY <1>1, <2>1, <2>2, AllNaturals
<1>. QED  BY <1>3, LenProperties

-----------------------------------------------------------------------------
(* The ids at given positions.                                             *)

IsKept(f, ids, P) ==
  f = [n \in 0..Len(ids) |->
         IF n = 0 THEN <<>>
         ELSE IF n \in P THEN Append(f[n - 1], ids[n]) ELSE f[n - 1]]

LEMMA KeptAppend ==
  ASSUME NEW T, NEW s \in Seq(T), NEW x \in T, NEW P, NEW f, IsKept(f, s, P)
  PROVE  \E g : /\ IsKept(g, Append(s, x), P)
                /\ g[Len(s) + 1] = IF Len(s) + 1 \in P THEN Append(f[Len(s)], x) ELSE f[Len(s)]
<1>. DEFINE m == Len(s) + 1
            top == IF m \in P THEN Append(f[Len(s)], x) ELSE f[Len(s)]
            g == [n \in 0..m |-> IF n = m THEN top ELSE f[n]]
<1>1. /\ Len(s) \in Nat /\ Len(Append(s, x)) = m /\ Append(s, x)[m] = x
      /\ \A n \in 1..Len(s) : Append(s, x)[n] = s[n]
  BY LenProperties, AppendProperties
<1>2. ASSUME NEW n \in 0..m
      PROVE  g[n] = IF n = 0 THEN <<>>
                    ELSE IF n \in P THEN Append(g[n - 1], Append(s, x)[n]) ELSE g[n - 1]
  <2>1. CASE n = m
    <3>1. n # 0 /\ n - 1 = Len(s) /\ n - 1 \in 0..m /\ n - 1 # m
      BY <1>1, <2>1
    <3>2. g[n - 1] = f[Len(s)] /\ g[n] = top
      BY <2>1, <3>1
    <3>. QED  BY <1>1, <2>1, <3>1, <3>2
  <2>2. CASE n # m /\ n # 0
    <3>1. n \in 1..Len(s) /\ n - 1 \in 0..m /\ n - 1 # m /\ n \in 0..Len(s)
      BY <1>1, <2>2
    <3>2. g[n] = f[n] /\ g[n - 1] = f[n - 1]
      BY <2>2, <3>1
    <3>3. f[n] = IF n \in P THEN Append(f[n - 1], s[n]) ELSE f[n - 1]
      BY <2>2, <3>1 DEF IsKept
    <3>. QED  BY <1>1, <2>2, <3>1, <3>2, <3>3
  <2>3. CASE n # m /\ n = 0
    <3>1. f[0] = <<>>
      BY <1>1 DEF IsKept
    <3>. QED  BY <2>3, <3>1
  <2>. QED  BY <2>1, <2>2, <2>3
<1>3. IsKept(g, Append(s, x), P)
  BY <1>1, <1>2 DEF IsKept
<1>4. g[m] = top
  BY <1>1
<1>. HIDE DEF g
<1>. QED  BY <1>3, <1>4

LEMMA KeptEmpty ==
  ASSUME NEW P
  PROVE  IsKept([n \in 0..0 |-> <<>>], <<>>, P)
BY EmptySeq DEF IsKept

LEMMA KeptExists ==
  ASSUME NEW T, NEW s \in Seq(T), NEW P
  PROVE  \E f : IsKept(f, s, P)
<1>. DEFINE B == {r \in Seq(T) : \E f : IsKept(f, r, P)}
<1>1. <<>> \in B
  BY KeptEmpty, EmptySeq
<1>2. \A r \in B, x \in T : Append(r, x) \in B
  BY KeptAppend, AppendProperties
<1>3. B = Seq(T)
  <2>1. B \in SUBSET Seq(T)
    OBVIOUS
  <2>. HIDE DEF B
  <2>. QED  BY <1>1, <1>2, <2>1, AllSequences
<1>. QED  BY <1>3

LEMMA KeptUnique ==
  ASSUME NEW T, NEW s \in Seq(T), NEW P, NEW f, NEW g, IsKept(f, s, P), IsKept(g, s, P)
  PROVE  f = g
<1>. DEFINE N == {n \in Nat : n <= Len(s) => f[n] = g[n]}
<1>0. Len(s) \in Nat
  BY LenProperties
<1>1. 0 \in N
  BY <1>0 DEF IsKept
<1>2. ASSUME NEW n \in N, n + 1 <= Len(s) PROVE f[n + 1] = g[n + 1]
  <2>1. n + 1 \in 0..Len(s) /\ n + 1 # 0 /\ (n + 1) - 1 = n /\ f[n] = g[n]
    BY <1>0, <1>2
  <2>2. f[n + 1] = IF n + 1 \in P THEN Append(f[n], s[n + 1]) ELSE f[n]
    BY <2>1 DEF IsKept
  <2>3. g[n + 1] = IF n + 1 \in P THEN Append(g[n], s[n + 1]) ELSE g[n]
    BY <2>1 DEF IsKept
  <2>. QED  BY <2>1, <2>2, <2>3
<1>3. N = Nat
  <2>1. N \in SUBSET Nat /\ \A n \in N : n + 1 \in N
    BY <1>2
  <2>. HIDE DEF N
  <2>. QED  BY <1>1, <2>1, AllNaturals
<1>4. \A n \in 0..Len(s) : f[n] = g[n]
  BY <1>0, <1>3
<1>5. f = [n \in 0..Len(s) |-> f[n]] /\ g = [n \in 0..Len(s) |-> g[n]]
  BY DEF IsKept
<1>. QED  BY <1>4, <1>5

LEMMA AtIs ==
  ASSUME NEW T, NEW s \in Seq(T), NEW P, NEW f, IsKept(f, s, P)
  PROVE  At(s, P) = f[Len(s)]
<1>. DEFINE g == CHOOSE h : IsKept(h, s, P)
<1>1. IsKept(g, s, P)
  OBVIOUS
<1>2. At(s, P) = g[Len(s)]
  BY DEF At, IsKept
<1>. HIDE DEF g
<1>. QED  BY <1>1, <1>2, KeptUnique

LEMMA AtEmpty ==
  ASSUME NEW P
  PROVE  At(<<>>, P) = <<>>
BY KeptEmpty, AtIs, EmptySeq

LEMMA AtAppend ==
  ASSUME NEW T, NEW s \in Seq(T), NEW x \in T, NEW P
  PROVE  At(Append(s, x), P) = IF Len(s) + 1 \in P THEN Append(At(s, P), x) ELSE At(s, P)
<1>1. PICK f : IsKept(f, s, P)
  BY KeptExists
<1>2. PICK g : /\ IsKept(g, Append(s, x), P)
               /\ g[Len(s) + 1] = IF Len(s) + 1 \in P THEN Append(f[Len(s)], x) ELSE f[Len(s)]
  BY <1>1, KeptAppend
<1>3. Append(s, x) \in Seq(T) /\ Len(Append(s, x)) = Len(s) + 1
  BY AppendProperties
<1>. QED  BY <1>1, <1>2, <1>3, AtIs

LEMMA ToSetAppend ==
  ASSUME NEW T, NEW s \in Seq(T), NEW x \in T
  PROVE  ToSet(Append(s, x)) = ToSet(s) \cup {x}
<1>1. /\ Len(s) \in Nat /\ DOMAIN s = 1..Len(s) /\ DOMAIN Append(s, x) = 1..(Len(s) + 1)
      /\ Append(s, x)[Len(s) + 1] = x /\ \A n \in 1..Len(s) : Append(s, x)[n] = s[n]
  BY LenProperties, AppendProperties
<1>2. 1..(Len(s) + 1) = (1..Len(s)) \cup {Len(s) + 1}
  BY <1>1
<1>. QED  BY <1>1, <1>2 DEF ToSet

LEMMA ToSetEmpty == ToSet(<<>>) = {}
BY DEF ToSet

LEMMA ToSetType ==
  ASSUME NEW T, NEW s \in Seq(T)
  PROVE  ToSet(s) \subseteq T /\ s \in Seq(ToSet(s)) /\ (s # <<>> => ToSet(s) # {})
<1>1. \A n \in DOMAIN s : s[n] \in T
  BY LenProperties, ElementOfSeq
<1>2. s \in Seq(ToSet(s))
  BY LenProperties, IsASeq DEF ToSet
<1>3. s # <<>> => 1 \in DOMAIN s
  BY LenProperties, EmptySeq
<1>. QED  BY <1>1, <1>2, <1>3 DEF ToSet

LEMMA ToSetConcat ==
  ASSUME NEW T, NEW s \in Seq(T), NEW r \in Seq(T)
  PROVE  ToSet(s \o r) = ToSet(s) \cup ToSet(r)
<1>0. Len(s) \in Nat /\ Len(r) \in Nat /\ DOMAIN s = 1..Len(s) /\ DOMAIN r = 1..Len(r)
  BY LenProperties
<1>1. /\ DOMAIN (s \o r) = 1..(Len(s) + Len(r))
      /\ \A n \in 1..(Len(s) + Len(r)) :
           (s \o r)[n] = IF n <= Len(s) THEN s[n] ELSE r[n - Len(s)]
  BY <1>0, ConcatProperties, LenProperties
<1>2. \A n \in 1..Len(s) : n \in 1..(Len(s) + Len(r)) /\ (s \o r)[n] = s[n]
  BY <1>0, <1>1
<1>3. \A n \in 1..Len(r) : n + Len(s) \in 1..(Len(s) + Len(r)) /\ (s \o r)[n + Len(s)] = r[n]
  BY <1>0, <1>1
<1>4. ToSet(s) \subseteq ToSet(s \o r)
  BY <1>0, <1>1, <1>2 DEF ToSet
<1>7. ToSet(r) \subseteq ToSet(s \o r)
  BY <1>0, <1>1, <1>3 DEF ToSet
<1>5. \A n \in 1..(Len(s) + Len(r)) : n \in 1..Len(s) \/ n - Len(s) \in 1..Len(r)
  BY <1>0
<1>6. ToSet(s \o r) \subseteq ToSet(s) \cup ToSet(r)
  BY <1>0, <1>1, <1>5 DEF ToSet
<1>. QED  BY <1>4, <1>6, <1>7

LEMMA InjectiveAppend ==
  ASSUME NEW T, NEW s \in Seq(T), NEW x \in T
  PROVE  IsInjective(Append(s, x)) <=> IsInjective(s) /\ x \notin ToSet(s)
<1>1. /\ Len(s) \in Nat /\ DOMAIN s = 1..Len(s) /\ DOMAIN Append(s, x) = 1..(Len(s) + 1)
      /\ Append(s, x)[Len(s) + 1] = x /\ \A n \in 1..Len(s) : Append(s, x)[n] = s[n]
  BY LenProperties, AppendProperties
<1>2. 1..(Len(s) + 1) = (1..Len(s)) \cup {Len(s) + 1} /\ Len(s) + 1 \notin 1..Len(s)
  BY <1>1
<1>. QED  BY <1>1, <1>2 DEF ToSet, IsInjective

(* The members at given positions, each position once.                     *)
LEMMA AtType ==
  ASSUME NEW T, NEW s \in Seq(T), NEW P
  PROVE  At(s, P) \in Seq(T) /\ ToSet(At(s, P)) = {s[n] : n \in P \cap DOMAIN s}
<1>. DEFINE Good(r) == At(r, P) \in Seq(T) /\ ToSet(At(r, P)) = {r[n] : n \in P \cap DOMAIN r}
            B == {r \in Seq(T) : Good(r)}
<1>1. <<>> \in B
  <2>. DEFINE e == <<>>
  <2>1. e \in Seq(T) /\ At(e, P) = e /\ DOMAIN e = {} /\ ToSet(e) = {}
    BY AtEmpty, EmptySeq, ToSetEmpty
  <2>. HIDE DEF e
  <2>2. {e[n] : n \in P \cap DOMAIN e} = {}
    BY <2>1
  <2>. QED  BY <2>1, <2>2 DEF e
<1>2. ASSUME NEW r \in B, NEW x \in T PROVE Append(r, x) \in B
  <2>0. r \in Seq(T) /\ At(r, P) \in Seq(T) /\ ToSet(At(r, P)) = {r[n] : n \in P \cap DOMAIN r}
    OBVIOUS
  <2>1. /\ Len(r) \in Nat /\ DOMAIN r = 1..Len(r) /\ DOMAIN Append(r, x) = 1..(Len(r) + 1)
        /\ Append(r, x)[Len(r) + 1] = x /\ \A n \in 1..Len(r) : Append(r, x)[n] = r[n]
        /\ Append(r, x) \in Seq(T)
    BY <2>0, LenProperties, AppendProperties
  <2>2. 1..(Len(r) + 1) = (1..Len(r)) \cup {Len(r) + 1}
    BY <2>1
  <2>3. At(Append(r, x), P) = IF Len(r) + 1 \in P THEN Append(At(r, P), x) ELSE At(r, P)
    BY <2>0, AtAppend
  <2>4. Append(At(r, P), x) \in Seq(T) /\ ToSet(Append(At(r, P), x)) = ToSet(At(r, P)) \cup {x}
    BY <2>0, AppendProperties, ToSetAppend
  <2>5. {Append(r, x)[n] : n \in P \cap DOMAIN Append(r, x)} =
          {r[n] : n \in P \cap DOMAIN r} \cup (IF Len(r) + 1 \in P THEN {x} ELSE {})
    BY <2>1, <2>2
  <2>6. Good(Append(r, x))
    BY <2>0, <2>3, <2>4, <2>5
  <2>. QED  BY <2>1, <2>6
<1>3. B = Seq(T)
  <2>1. B \in SUBSET Seq(T)
    OBVIOUS
  <2>. HIDE DEF B
  <2>. QED  BY <1>1, <1>2, <2>1, AllSequences
<1>. QED  BY <1>3

LEMMA AtInjective ==
  ASSUME NEW T, NEW s \in Seq(T), NEW P, \A m, n \in P \cap DOMAIN s : s[m] = s[n] => m = n
  PROVE  IsInjective(At(s, P))
<1>. DEFINE Once(r) == \A m, n \in P \cap DOMAIN r : r[m] = r[n] => m = n
            B == {r \in Seq(T) : Once(r) => IsInjective(At(r, P))}
<1>1. <<>> \in B
  <2>. DEFINE e == <<>>
  <2>1. e \in Seq(T) /\ At(e, P) = e /\ DOMAIN e = {}
    BY AtEmpty, EmptySeq
  <2>. HIDE DEF e
  <2>2. IsInjective(At(e, P))
    BY <2>1 DEF IsInjective
  <2>. QED  BY <2>1, <2>2 DEF e
<1>2. ASSUME NEW r \in B, NEW x \in T PROVE Append(r, x) \in B
  <2>0. r \in Seq(T) /\ (Once(r) => IsInjective(At(r, P)))
    OBVIOUS
  <2>1. /\ Len(r) \in Nat /\ DOMAIN r = 1..Len(r) /\ DOMAIN Append(r, x) = 1..(Len(r) + 1)
        /\ Append(r, x)[Len(r) + 1] = x /\ \A n \in 1..Len(r) : Append(r, x)[n] = r[n]
        /\ Append(r, x) \in Seq(T)
    BY <2>0, LenProperties, AppendProperties
  <2>2. At(Append(r, x), P) = IF Len(r) + 1 \in P THEN Append(At(r, P), x) ELSE At(r, P)
    BY <2>0, AtAppend
  <2>3. At(r, P) \in Seq(T) /\ ToSet(At(r, P)) = {r[n] : n \in P \cap DOMAIN r}
    BY <2>0, AtType
  <2>4. IsInjective(Append(At(r, P), x)) <=> IsInjective(At(r, P)) /\ x \notin ToSet(At(r, P))
    BY <2>3, InjectiveAppend
  <2>5. ASSUME Once(Append(r, x)) PROVE IsInjective(At(Append(r, x), P))
    <3>1. \A n \in DOMAIN r : n \in DOMAIN Append(r, x) /\ n # Len(r) + 1
      BY <2>1
    <3>2. Once(r)
      BY <2>1, <2>5, <3>1
    <3>3. ASSUME Len(r) + 1 \in P, NEW n \in P \cap DOMAIN r PROVE r[n] # x
      BY <2>1, <2>5, <3>1, <3>3
    <3>. QED  BY <2>0, <2>2, <2>3, <2>4, <3>2, <3>3
  <2>. QED  BY <2>1, <2>5
<1>3. B = Seq(T)
  <2>1. B \in SUBSET Seq(T)
    OBVIOUS
  <2>. HIDE DEF B
  <2>. QED  BY <1>1, <1>2, <2>1, AllSequences
<1>. QED  BY <1>3

(* What request_batch and request_url keep: every member that was not seen, *)
(* once.                                                                    *)
LEMMA FirstsOutsideIs ==
  ASSUME NEW T, NEW s \in Seq(T), NEW seen
  PROVE  /\ FirstsOutside(s, seen) \in Seq(T) /\ ToSet(FirstsOutside(s, seen)) = ToSet(s) \ seen
         /\ IsInjective(FirstsOutside(s, seen))
<1>. DEFINE P == {n \in DOMAIN s : s[n] \notin seen /\ \A m \in 1..(n - 1) : s[m] # s[n]}
<1>1. Len(s) \in Nat /\ DOMAIN s = 1..Len(s)
  BY LenProperties
<1>2. ASSUME NEW n \in DOMAIN s, s[n] \notin seen
      PROVE  \E k \in P : s[k] = s[n]
  <2>. DEFINE N == {k \in DOMAIN s : s[k] = s[n]}
  <2>1. N \in SUBSET Nat /\ N # {}
    BY <1>1
  <2>2. PICK k \in N : \A y \in N : k <= y
    <3>. HIDE DEF N
    <3>. QED  BY <2>1, LeastNatural
  <2>3. \A m \in 1..(k - 1) : m \in DOMAIN s /\ ~(k <= m)
    BY <1>1
  <2>. QED  BY <1>2, <2>2, <2>3
<1>3. ASSUME NEW m \in P \cap DOMAIN s, NEW n \in P \cap DOMAIN s, s[m] = s[n] PROVE m = n
  <2>1. m \in Nat /\ n \in Nat /\ m >= 1 /\ n >= 1
    BY <1>1
  <2>2. ~(m < n) /\ ~(n < m)
    BY <1>3, <2>1
  <2>. QED  BY <2>1, <2>2
<1>4. FirstsOutside(s, seen) = At(s, P)
  BY DEF FirstsOutside
<1>5. {s[n] : n \in P \cap DOMAIN s} = ToSet(s) \ seen
  BY <1>2 DEF ToSet
<1>. HIDE DEF P
<1>. QED  BY <1>3, <1>4, <1>5, AtType, AtInjective


-----------------------------------------------------------------------------
(* Lists in general.                                                       *)

LEMMA ListMembers ==
  ASSUME NEW T, NEW s \in Seq(T)
  PROVE  /\ Len(s) \in Nat /\ DOMAIN s = 1..Len(s)
         /\ \A n \in DOMAIN s : s[n] \in T /\ s[n] \in ToSet(s)
BY LenProperties, ElementOfSeq DEF ToSet

LEMMA ListMap ==
  ASSUME NEW T, NEW s \in Seq(T), NEW U, NEW f, f = [n \in DOMAIN s |-> f[n]],
         \A n \in DOMAIN s : f[n] \in U
  PROVE  f \in Seq(U) /\ ToSet(f) = {f[n] : n \in DOMAIN s} /\ DOMAIN f = DOMAIN s /\ Len(f) = Len(s)
<1>1. Len(s) \in Nat /\ DOMAIN s = 1..Len(s)
  BY LenProperties
<1>2. f = [n \in 1..Len(s) |-> f[n]] /\ \A n \in 1..Len(s) : f[n] \in U
  BY <1>1
<1>3. f \in Seq(U)
  BY <1>1, <1>2, IsASeq
<1>4. DOMAIN f = 1..Len(s)
  BY <1>2
<1>5. Len(f) = Len(s)
  BY <1>1, <1>3, <1>4, LenProperties
<1>. QED  BY <1>1, <1>3, <1>4, <1>5 DEF ToSet

LEMMA HeadAndTail ==
  ASSUME NEW T, NEW s \in Seq(T), s # <<>>
  PROVE  /\ Head(s) \in T /\ Head(s) \in ToSet(s) /\ Tail(s) \in Seq(T)
         /\ ToSet(s) = {Head(s)} \cup ToSet(Tail(s)) /\ Len(Tail(s)) = Len(s) - 1
<1>1. /\ Head(s) \in T /\ Tail(s) \in Seq(T) /\ Len(Tail(s)) = Len(s) - 1
      /\ \A i \in 1..Len(Tail(s)) : Tail(s)[i] = s[i + 1]
  BY HeadTailProperties
<1>2. Len(s) \in Nat /\ Len(s) >= 1 /\ DOMAIN s = 1..Len(s) /\ Head(s) = s[1]
  BY LenProperties, EmptySeq
<1>3. DOMAIN Tail(s) = 1..(Len(s) - 1)
  BY <1>1, LenProperties
<1>4. \A i \in 1..Len(s) : i = 1 \/ i - 1 \in 1..(Len(s) - 1)
  BY <1>2
<1>5. \A i \in 1..(Len(s) - 1) : i + 1 \in 1..Len(s)
  BY <1>2
<1>6. ToSet(s) \subseteq {Head(s)} \cup ToSet(Tail(s))
  <2>1. \A i \in 1..(Len(s) - 1) : Tail(s)[i] = s[i + 1]
    BY <1>1
  <2>2. \A i \in 1..Len(s) : i # 1 => s[i] = Tail(s)[i - 1]
    BY <1>2, <1>4, <2>1
  <2>. QED  BY <1>2, <1>3, <1>4, <2>2 DEF ToSet
<1>7. {Head(s)} \cup ToSet(Tail(s)) \subseteq ToSet(s)
  <2>1. \A i \in 1..(Len(s) - 1) : Tail(s)[i] = s[i + 1]
    BY <1>1
  <2>2. 1 \in 1..Len(s)
    BY <1>2
  <2>. QED  BY <1>2, <1>3, <1>5, <2>1, <2>2 DEF ToSet
<1>. QED  BY <1>1, <1>2, <1>6, <1>7

LEMMA OneOfList ==
  ASSUME NEW T, NEW x \in T
  PROVE  /\ <<x>> \in Seq(T) /\ Len(<<x>>) = 1 /\ <<x>>[1] = x /\ DOMAIN <<x>> = 1..1
         /\ ToSet(<<x>>) = {x} /\ IsInjective(<<x>>)
<1>. DEFINE e == <<x>>
<1>1. e \in Seq(T) /\ Len(e) = 1 /\ e[1] = x /\ DOMAIN e = 1..1
  OBVIOUS
<1>. HIDE DEF e
<1>2. ToSet(e) = {x} /\ IsInjective(e)
  BY <1>1 DEF ToSet, IsInjective
<1>. QED  BY <1>1, <1>2 DEF e

-----------------------------------------------------------------------------
(* The concatenation of a list of lists.                                   *)

IsFlat(f, s) == f = [i \in 1..Len(s) |-> IF i = 1 THEN s[i] ELSE f[i - 1] \o s[i]]

LEMMA FlatAppend ==
  ASSUME NEW T, NEW s \in Seq(T), NEW x \in T, NEW f, IsFlat(f, s)
  PROVE  \E g : IsFlat(g, Append(s, x))
<1>. DEFINE m == Len(s) + 1
            top == IF m = 1 THEN x ELSE f[Len(s)] \o x
            g == [n \in 1..m |-> IF n = m THEN top ELSE f[n]]
<1>1. /\ Len(s) \in Nat /\ Len(Append(s, x)) = m /\ Append(s, x)[m] = x
      /\ \A n \in 1..Len(s) : Append(s, x)[n] = s[n]
  BY LenProperties, AppendProperties
<1>2. ASSUME NEW n \in 1..m
      PROVE  g[n] = IF n = 1 THEN Append(s, x)[n] ELSE g[n - 1] \o Append(s, x)[n]
  <2>1. CASE n = m
    <3>1. n # 1 => n - 1 = Len(s) /\ n - 1 \in 1..m /\ n - 1 # m
      BY <1>1, <2>1
    <3>2. g[n] = top /\ (n # 1 => g[n - 1] = f[Len(s)])
      BY <2>1, <3>1
    <3>. QED  BY <1>1, <2>1, <3>1, <3>2
  <2>2. CASE n # m
    <3>1. n \in 1..Len(s) /\ (n # 1 => n - 1 \in 1..m /\ n - 1 # m)
      BY <1>1, <2>2
    <3>2. g[n] = f[n] /\ (n # 1 => g[n - 1] = f[n - 1])
      BY <2>2, <3>1
    <3>3. f[n] = IF n = 1 THEN s[n] ELSE f[n - 1] \o s[n]
      BY <3>1 DEF IsFlat
    <3>. QED  BY <1>1, <3>1, <3>2, <3>3
  <2>. QED  BY <2>1, <2>2
<1>3. IsFlat(g, Append(s, x))
  <2>. DEFINE r == Append(s, x)
  <2>1. Len(r) = m /\ \A n \in 1..m : g[n] = IF n = 1 THEN r[n] ELSE g[n - 1] \o r[n]
    BY <1>1, <1>2
  <2>2. g = [n \in 1..m |-> g[n]]
    OBVIOUS
  <2>. HIDE DEF r, g, m
  <2>3. g = [n \in 1..m |-> IF n = 1 THEN r[n] ELSE g[n - 1] \o r[n]]
    BY <2>1, <2>2
  <2>4. IsFlat(g, r)
    BY <2>1, <2>3 DEF IsFlat
  <2>. QED  BY <2>4 DEF r
<1>. HIDE DEF g
<1>. QED  BY <1>3

LEMMA FlatExists ==
  ASSUME NEW T, NEW s \in Seq(T)
  PROVE  \E f : IsFlat(f, s)
<1>. DEFINE B == {r \in Seq(T) : \E f : IsFlat(f, r)}
<1>1. <<>> \in B
  <2>. DEFINE e == <<>>
  <2>1. e \in Seq(T) /\ Len(e) = 0
    BY EmptySeq
  <2>. HIDE DEF e
  <2>. DEFINE f == [i \in 1..0 |-> i]
  <2>2. IsFlat(f, e)
    BY <2>1 DEF IsFlat
  <2>. HIDE DEF f
  <2>. QED  BY <2>1, <2>2 DEF e
<1>2. \A r \in B, x \in T : Append(r, x) \in B
  BY FlatAppend, AppendProperties
<1>3. B = Seq(T)
  <2>1. B \in SUBSET Seq(T)
    OBVIOUS
  <2>. HIDE DEF B
  <2>. QED  BY <1>1, <1>2, <2>1, AllSequences
<1>. QED  BY <1>3

LEMMA FlattenIs ==
  ASSUME NEW T, NEW s \in Seq(Seq(T))
  PROVE  FlattenSeq(s) \in Seq(T) /\ ToSet(FlattenSeq(s)) = UNION {ToSet(s[i]) : i \in DOMAIN s}
<1>. DEFINE f == CHOOSE h : IsFlat(h, s)
<1>0. Len(s) \in Nat /\ DOMAIN s = 1..Len(s) /\ \A i \in 1..Len(s) : s[i] \in Seq(T)
  BY LenProperties, ElementOfSeq
<1>1. IsFlat(f, s)
  BY FlatExists
<1>2. Len(s) # 0 => FlattenSeq(s) = f[Len(s)]
  BY DEF FlattenSeq, IsFlat
<1>. HIDE DEF f
<1>3. CASE Len(s) = 0
  <2>1. FlattenSeq(s) = s
    BY <1>3 DEF FlattenSeq
  <2>2. s = <<>>
    BY <1>3, EmptySeq
  <2>3. s \in Seq(T) /\ ToSet(s) = {} /\ DOMAIN s = {}
    BY <1>0, <1>3, <2>2, ToSetEmpty, EmptySeq
  <2>. QED  BY <2>1, <2>3
<1>4. CASE Len(s) # 0
  <2>. DEFINE Good(n) == f[n] \in Seq(T) /\ ToSet(f[n]) = UNION {ToSet(s[i]) : i \in 1..n}
              N == {n \in Nat : n \in 1..Len(s) => Good(n)}
  <2>1. 0 \in N
    OBVIOUS
  <2>2. ASSUME NEW n \in N, n + 1 \in 1..Len(s) PROVE Good(n + 1)
    <3>1. CASE n = 0
      <4>1. f[n + 1] = s[1] /\ s[1] \in Seq(T)
        BY <1>0, <1>1, <2>2, <3>1 DEF IsFlat
      <4>2. 1..(n + 1) = {1}
        BY <3>1
      <4>3. UNION {ToSet(s[i]) : i \in {1}} = ToSet(s[1])
        OBVIOUS
      <4>. QED  BY <4>1, <4>2, <4>3
    <3>2. CASE n # 0
      <4>1. n \in 1..Len(s) /\ (n + 1) - 1 = n /\ n + 1 # 1
        BY <1>0, <2>2, <3>2
      <4>2. f[n + 1] = f[n] \o s[n + 1]
        BY <1>1, <2>2, <4>1 DEF IsFlat
      <4>3. f[n] \in Seq(T) /\ ToSet(f[n]) = UNION {ToSet(s[i]) : i \in 1..n} /\ s[n + 1] \in Seq(T)
        BY <1>0, <2>2, <4>1
      <4>4. f[n + 1] \in Seq(T) /\ ToSet(f[n + 1]) = ToSet(f[n]) \cup ToSet(s[n + 1])
        BY <4>2, <4>3, ConcatProperties, ToSetConcat
      <4>5. 1..(n + 1) = (1..n) \cup {n + 1}
        OBVIOUS
      <4>6. UNION {ToSet(s[i]) : i \in 1..(n + 1)} =
              (UNION {ToSet(s[i]) : i \in 1..n}) \cup ToSet(s[n + 1])
        BY <4>5
      <4>. QED  BY <4>3, <4>4, <4>6
    <3>. QED  BY <3>1, <3>2
  <2>3. N = Nat
    <3>1. N \in SUBSET Nat /\ \A n \in N : n + 1 \in N
      <4>. HIDE DEF Good
      <4>. QED  BY <2>2
    <3>. HIDE DEF N
    <3>. QED  BY <2>1, <3>1, AllNaturals
  <2>4. Good(Len(s))
    <3>. HIDE DEF Good
    <3>. QED  BY <1>0, <1>4, <2>3
  <2>. QED  BY <1>0, <1>2, <1>4, <2>4
<1>. QED  BY <1>3, <1>4

-----------------------------------------------------------------------------
(* The transactions of a message, one after the other.                     *)

IsAfter(f, g, writes) ==
  f = [n \in 0..Len(writes) |-> IF n = 0 THEN g ELSE Merge(f[n - 1], writes[n])]

LEMMA AfterAppend ==
  ASSUME NEW T, NEW s \in Seq(T), NEW x \in T, NEW g, NEW f, IsAfter(f, g, s)
  PROVE  \E h : IsAfter(h, g, Append(s, x))
<1>. DEFINE m == Len(s) + 1
            r == Append(s, x)
            h == [n \in 0..m |-> IF n = m THEN Merge(f[Len(s)], x) ELSE f[n]]
<1>1. Len(s) \in Nat /\ Len(r) = m /\ r[m] = x /\ \A n \in 1..Len(s) : r[n] = s[n]
  BY LenProperties, AppendProperties
<1>2. ASSUME NEW n \in 0..m
      PROVE  h[n] = IF n = 0 THEN g ELSE Merge(h[n - 1], r[n])
  <2>1. CASE n = m
    <3>1. n # 0 /\ n - 1 = Len(s) /\ n - 1 \in 0..m /\ n - 1 # m
      BY <1>1, <2>1
    <3>2. h[n] = Merge(f[Len(s)], x) /\ h[n - 1] = f[Len(s)]
      BY <2>1, <3>1
    <3>. QED  BY <1>1, <2>1, <3>1, <3>2
  <2>2. CASE n # m /\ n # 0
    <3>1. n \in 1..Len(s) /\ n - 1 \in 0..m /\ n - 1 # m /\ n \in 0..Len(s)
      BY <1>1, <2>2
    <3>2. h[n] = f[n] /\ h[n - 1] = f[n - 1]
      BY <2>2, <3>1
    <3>3. f[n] = Merge(f[n - 1], s[n])
      BY <2>2, <3>1 DEF IsAfter
    <3>. QED  BY <1>1, <2>2, <3>1, <3>2, <3>3
  <2>3. CASE n # m /\ n = 0
    <3>1. f[0] = g
      BY <1>1 DEF IsAfter
    <3>. QED  BY <2>3, <3>1
  <2>. QED  BY <2>1, <2>2, <2>3
<1>3. h = [n \in 0..m |-> h[n]]
  OBVIOUS
<1>. HIDE DEF h, r, m
<1>4. h = [n \in 0..m |-> IF n = 0 THEN g ELSE Merge(h[n - 1], r[n])]
  BY <1>2, <1>3
<1>5. IsAfter(h, g, r)
  BY <1>1, <1>4 DEF IsAfter
<1>. QED  BY <1>5 DEF r

LEMMA AfterExists ==
  ASSUME NEW T, NEW s \in Seq(T), NEW g
  PROVE  \E f : IsAfter(f, g, s)
<1>. DEFINE B == {r \in Seq(T) : \E f : IsAfter(f, g, r)}
<1>1. <<>> \in B
  <2>. DEFINE e == <<>>
              f == [n \in 0..0 |-> g]
  <2>1. e \in Seq(T) /\ Len(e) = 0
    BY EmptySeq
  <2>. HIDE DEF e
  <2>2. IsAfter(f, g, e)
    BY <2>1 DEF IsAfter
  <2>. HIDE DEF f
  <2>. QED  BY <2>1, <2>2 DEF e
<1>2. \A r \in B, x \in T : Append(r, x) \in B
  BY AfterAppend, AppendProperties
<1>3. B = Seq(T)
  <2>1. B \in SUBSET Seq(T)
    OBVIOUS
  <2>. HIDE DEF B
  <2>. QED  BY <1>1, <1>2, <2>1, AllSequences
<1>. QED  BY <1>3

(* What every single write keeps, the writes of a message keep.            *)
LEMMA WrittenKeeps ==
  ASSUME NEW T, NEW s \in Seq(T), NEW G, NEW g \in G, \A h \in G, w \in T : Merge(h, w) \in G
  PROVE  Written(g, s) \in G
<1>. DEFINE f == CHOOSE h : IsAfter(h, g, s)
            N == {n \in Nat : n \in 0..Len(s) => f[n] \in G}
<1>0. Len(s) \in Nat /\ \A n \in 1..Len(s) : s[n] \in T
  BY LenProperties, ElementOfSeq
<1>1. IsAfter(f, g, s)
  BY AfterExists
<1>2. Written(g, s) = f[Len(s)]
  BY DEF Written, IsAfter
<1>. HIDE DEF f
<1>3. 0 \in N
  BY <1>0, <1>1 DEF IsAfter
<1>4. ASSUME NEW n \in N, n + 1 \in 0..Len(s) PROVE f[n + 1] \in G
  <2>1. n \in 0..Len(s) /\ n + 1 \in 1..Len(s) /\ (n + 1) - 1 = n /\ n + 1 # 0
    BY <1>0, <1>4
  <2>2. f[n + 1] = Merge(f[n], s[n + 1])
    BY <1>1, <1>4, <2>1 DEF IsAfter
  <2>. QED  BY <1>0, <1>4, <2>1, <2>2
<1>5. N = Nat
  <2>1. N \in SUBSET Nat /\ \A n \in N : n + 1 \in N
    BY <1>4
  <2>. HIDE DEF N
  <2>. QED  BY <1>3, <2>1, AllNaturals
<1>. QED  BY <1>0, <1>2, <1>5

LEMMA WrittenOnce ==
  ASSUME NEW g, NEW w
  PROVE  Written(g, <<w>>) = Merge(g, w)
<1>. DEFINE s == <<w>>
            f == CHOOSE h : IsAfter(h, g, s)
<1>1. s \in Seq({w}) /\ Len(s) = 1 /\ s[1] = w
  BY OneOfList
<1>. HIDE DEF s
<1>2. IsAfter(f, g, s)
  BY <1>1, AfterExists
<1>3. Written(g, s) = f[Len(s)]
  BY DEF Written, IsAfter
<1>. HIDE DEF f
<1>4. f[0] = g /\ f[1] = Merge(f[0], s[1])
  BY <1>1, <1>2 DEF IsAfter
<1>. QED  BY <1>1, <1>3, <1>4 DEF s

-----------------------------------------------------------------------------
(* Chunks: of one to `size` members, each a part of the list.              *)

LEMMA ChunkCount ==
  ASSUME NEW l \in Nat, NEW size \in Nat \ {0}
  PROVE  /\ (l + size - 1) \div size \in Nat
         /\ size * ((l + size - 1) \div size) <= l + size - 1
         /\ (l > 0 => (l + size - 1) \div size > 0)
<1>. DEFINE a == l + size - 1
<1>1. a \in Nat /\ (l > 0 => a >= size)
  OBVIOUS
<1>. HIDE DEF a
<1>2. a \div size \in Nat /\ size * (a \div size) <= a
  BY <1>1
<1>3. a >= size => a \div size > 0
  BY <1>1
<1>. QED  BY <1>1, <1>2, <1>3 DEF a

LEMMA ChunkStart ==
  ASSUME NEW size \in Nat \ {0}, NEW q \in Nat, NEW c \in 1..q
  PROVE  c * size <= size * q /\ (c - 1) * size = c * size - size /\ c * size >= size /\ c * size \in Nat
OBVIOUS

LEMMA MinOfTwo ==
  ASSUME NEW a \in Int, NEW b \in Int
  PROVE  Min({a, b}) = IF a <= b THEN a ELSE b
BY DEF Min

LEMMA MaxOfTwo ==
  ASSUME NEW a \in Int, NEW b \in Int
  PROVE  Max({a, b}) = IF a >= b THEN a ELSE b
BY DEF Max

LEMMA ChunkIs ==
  ASSUME NEW T, NEW s \in Seq(T), NEW size \in Nat \ {0}, NEW c \in DOMAIN Chunked(s, size)
  PROVE  /\ Chunked(s, size)[c] \in Seq(T) /\ Len(Chunked(s, size)[c]) \in 1..size
         /\ (IsInjective(s) => IsInjective(Chunked(s, size)[c]))
<1>. DEFINE l == Len(s)
            q == (l + size - 1) \div size
            lo == (c - 1) * size + 1
            hi == IF c * size <= l THEN c * size ELSE l
            b == c * size
<1>0. l \in Nat /\ DOMAIN s = 1..l /\ \A i \in 1..l : s[i] \in T
  BY LenProperties, ElementOfSeq
<1>1. q \in Nat /\ size * q <= l + size - 1 /\ c \in 1..q
  BY <1>0, ChunkCount DEF Chunked
<1>2. b <= size * q /\ lo = b - size + 1 /\ b >= size /\ b \in Nat
  <2>. HIDE DEF q
  <2>. QED  BY <1>1, ChunkStart
<1>3. b < l + size
  <2>1. size * q \in Nat
    <3>. HIDE DEF q
    <3>. QED  BY <1>1
  <2>. HIDE DEF q, b, l
  <2>. QED  BY <1>0, <1>1, <1>2, <2>1
<1>4. Min({b, l}) = hi
  BY <1>0, <1>2, MinOfTwo
<1>5. Chunked(s, size)[c] = SubSeq(s, lo, hi)
  <2>1. c \in 1..((Len(s) + size - 1) \div size)
    BY <1>1
  <2>2. Chunked(s, size)[c] = SubSeq(s, (c - 1) * size + 1, Min({c * size, Len(s)}))
    BY <2>1 DEF Chunked
  <2>. QED  BY <1>4, <2>2
<1>6. hi = (IF b <= l THEN b ELSE l)
  OBVIOUS
<1>. HIDE DEF l, q, lo, hi, b
<1>7. lo \in Int /\ hi \in Int /\ lo >= 1 /\ lo <= hi /\ hi <= l /\ hi - lo + 1 <= size
  BY <1>0, <1>2, <1>3, <1>6
<1>8. \A i \in lo..hi : i \in 1..l /\ s[i] \in T
  BY <1>0, <1>7
<1>9. /\ SubSeq(s, lo, hi) \in Seq(T) /\ Len(SubSeq(s, lo, hi)) = hi - lo + 1
      /\ \A i \in 1..(hi - lo + 1) : SubSeq(s, lo, hi)[i] = s[lo + i - 1]
  BY <1>7, <1>8, SubSeqProperties
<1>10. ASSUME IsInjective(s) PROVE IsInjective(SubSeq(s, lo, hi))
  <2>. DEFINE r == SubSeq(s, lo, hi)
  <2>1. DOMAIN r = 1..(hi - lo + 1) /\ \A i \in 1..(hi - lo + 1) : r[i] = s[lo + i - 1]
    BY <1>9, LenProperties
  <2>. HIDE DEF r
  <2>2. \A i \in 1..(hi - lo + 1) : lo + i - 1 \in DOMAIN s
    BY <1>0, <1>7
  <2>3. ASSUME NEW i \in DOMAIN r, NEW j \in DOMAIN r, r[i] = r[j] PROVE i = j
    <3>1. lo + i - 1 = lo + j - 1
      BY <1>10, <2>1, <2>2, <2>3 DEF IsInjective
    <3>. QED  BY <1>7, <2>1, <2>3, <3>1
  <2>4. IsInjective(r)
    BY <2>3 DEF IsInjective
  <2>. QED  BY <2>4 DEF r
<1>. QED  BY <1>5, <1>7, <1>9, <1>10

LEMMA ChunkedIs ==
  ASSUME NEW T, NEW s \in Seq(T), NEW size \in Nat \ {0}
  PROVE  /\ Chunked(s, size) \in Seq(Seq(T))
         /\ DOMAIN Chunked(s, size) = 1..Len(Chunked(s, size))
         /\ (s # <<>> => Chunked(s, size) # <<>>)
<1>. DEFINE q == (Len(s) + size - 1) \div size
            f == Chunked(s, size)
<1>1. Len(s) \in Nat /\ q \in Nat /\ (Len(s) > 0 => q > 0)
  BY ChunkCount, LenProperties
<1>2. f = [c \in 1..q |-> f[c]]
  BY DEF Chunked
<1>3. \A c \in 1..q : f[c] \in Seq(T)
  BY <1>2, ChunkIs
<1>. HIDE DEF q, f
<1>4. f \in Seq(Seq(T))
  BY <1>1, <1>2, <1>3, IsASeq
<1>5. DOMAIN f = 1..Len(f) /\ DOMAIN f = 1..q
  BY <1>2, <1>4, LenProperties
<1>6. s # <<>> => Len(s) > 0
  BY <1>1, EmptySeq
<1>7. q > 0 => f # <<>>
  BY <1>1, <1>5, EmptySeq
<1>. QED  BY <1>1, <1>4, <1>5, <1>6, <1>7 DEF f

-----------------------------------------------------------------------------
(* What the queues, the crawled set and the graph may hold.                *)

Endpoints == Single \cup Several \cup Unmapped \cup
               {"me/tracks", "artists/{id}/albums", "albums/{id}/tracks"}

(* The endpoints of one resource, and what the ids of an endpoint name.    *)
One == Single \cup {"artists/{id}/albums", "albums/{id}/tracks"}

KindOf(endpoint) ==
  CASE endpoint \in {"tracks/{id}", "tracks?ids"} -> Tracks
    [] endpoint \in {"albums/{id}", "albums?ids", "albums/{id}/tracks"} -> Albums
    [] endpoint \in {"artists/{id}", "artists?ids", "artists/{id}/albums"} -> Artists
    [] OTHER -> {}

Resources ==
  {u \in [endpoint : Endpoints, ids : Seq(Ids), page : Nat \ {0}] :
     /\ u.ids \in Seq(KindOf(u.endpoint))
     /\ u.endpoint \in One => Len(u.ids) = 1
     /\ Pages(u) = <<>> \/ u.page \in DOMAIN Pages(u)}

(* A request: within the cap, without a repeated id, and for the albums of *)
(* an artist only in a discography crawl and of one the user likes enough. *)
Proper(u) ==
  /\ IsInjective(u.ids)
  /\ u.endpoint \in Several => Len(u.ids) \in 1..BatchIdLimits[u.endpoint]
  /\ u.endpoint = "artists/{id}/albums" => config.discographies /\ u.ids[1] \in Taste

Depths == 0..Max({config.depth, SeedDepth})

Messages == {r \in [url : Resources, depth : Depths] : Proper(r.url)}

(* Every edge the catalogue has, and whose liked songs are recorded.       *)
Edges == CreditEdges(Tracks) \cup CreatorEdges(Albums) \cup AlbumArtistEdges(Tracks)

LikedBy == IF config.user THEN Liked ELSE {}

Sound(g) ==
  /\ g.liked \subseteq g.nodes \cap LikedBy
  /\ g.created \subseteq Edges \cap (g.nodes \X g.nodes)
  /\ g.contains \subseteq (Albums \X Tracks) \cap (g.nodes \X g.nodes)

Graphs ==
  {g \in [nodes : SUBSET Ids, complete : SUBSET Ids, liked : SUBSET Ids,
          created : SUBSET (Ids \X Ids), contains : SUBSET (Ids \X Ids)] :
     g.complete \subseteq g.nodes /\ Sound(g)}

(* What a graph may grow into: nothing it records is ever taken back.      *)
Above(g) ==
  {h \in Graphs : /\ g.nodes \subseteq h.nodes /\ g.complete \subseteq h.complete
                  /\ g.liked \subseteq h.liked /\ g.created \subseteq h.created
                  /\ g.contains \subseteq h.contains}

Inserts ==
  {w \in [nodes : SUBSET Ids, always : SUBSET Ids, ifNew : SUBSET Ids, liked : SUBSET Ids,
          created : SUBSET (Ids \X Ids), contains : SUBSET (Ids \X Ids)] :
     w.always \cup w.ifNew \subseteq w.nodes /\ Sound(w)}

(* A backfill: what is left of its worklist, in chunks.                    *)
Batches(S) == {ids \in Seq(S) : Len(ids) \in 1..BatchSize}

Backfills ==
  {b \in [endpoint : {"tracks?ids", "artists?ids"}, todo : Seq(Seq(Ids)),
          n429 : 0..(MaxErrors - 1), n500 : 0..(MaxErrors - 1)] :
     b.todo # <<>> /\ b.todo \in Seq(Batches(KindOf(b.endpoint)))}

TypeInv ==
  /\ config \in Configurations
  /\ crawled \subseteq Messages /\ lost \subseteq Messages
  /\ requests \in Seq(Messages) /\ stores \in Seq(Messages) /\ follows \in Seq(Messages)
  /\ graph \in Graphs
  /\ runs \in 0..MaxSeedRuns
  /\ backfill \in Backfills \cup {NoBackfill}

-----------------------------------------------------------------------------
(* The catalogue.                                                          *)

LEMMA Catalogue ==
  /\ IsFiniteSet(Tracks) /\ IsFiniteSet(Artists)
  /\ \A t \in Tracks : AlbumOf[t] \in Albums /\ Credits[t] \in Seq(Artists)
  /\ \A a \in Albums : Creators[a] \in Seq(Artists)
  /\ \A e \in Several : BatchIdLimits[e] \in Nat \ {0}
  /\ AffinityMin \in Nat \ {0} /\ BatchSize \in Nat \ {0} /\ MaxErrors \in Nat \ {0}
  /\ SeedDepth \in Nat /\ MaxSeedRuns \in Nat
BY CatalogAssumption DEF Several

LEMMA FirstPage ==
  /\ LikedPages \in Seq(Seq(Tracks)) /\ 1 \in DOMAIN LikedPages /\ LikedPages # <<>>
  /\ \A a \in Albums : /\ AlbumPages[a] \in Seq(Seq(Tracks)) /\ 1 \in DOMAIN AlbumPages[a]
                       /\ AlbumPages[a] # <<>>
  /\ \A ar \in Artists : /\ Discography[ar] \in Seq(Seq(Albums)) /\ 1 \in DOMAIN Discography[ar]
                         /\ Discography[ar] # <<>>
<1>1. ASSUME NEW T, NEW s \in Seq(Seq(T)) \ {<<>>} PROVE 1 \in DOMAIN s
  BY <1>1, LenProperties, EmptySeq
<1>. QED  BY <1>1, CatalogAssumption

LEMMA CreditsAre ==
  /\ \A tracks \in SUBSET Tracks : CreditsOf(tracks) \subseteq Artists
  /\ \A albums \in SUBSET Albums : CreatorsOf(albums) \subseteq Artists
<1>1. ASSUME NEW tracks \in SUBSET Tracks, NEW t \in tracks PROVE ToSet(Credits[t]) \subseteq Artists
  BY <1>1, Catalogue, ToSetType
<1>2. ASSUME NEW albums \in SUBSET Albums, NEW a \in albums PROVE ToSet(Creators[a]) \subseteq Artists
  BY <1>2, Catalogue, ToSetType
<1>. QED  BY <1>1, <1>2 DEF CreditsOf, CreatorsOf

LEMMA Lists ==
  /\ \A tracks \in Seq(Tracks) : CreditSeq(tracks) \in Seq(Artists) /\ AlbumSeq(tracks) \in Seq(Albums)
  /\ \A albums \in Seq(Albums) : CreatorSeq(albums) \in Seq(Artists)
<1>1. ASSUME NEW tracks \in Seq(Tracks)
      PROVE  CreditSeq(tracks) \in Seq(Artists) /\ AlbumSeq(tracks) \in Seq(Albums)
  <2>. DEFINE f == [i \in DOMAIN tracks |-> Credits[tracks[i]]]
              h == [i \in DOMAIN tracks |-> AlbumOf[tracks[i]]]
  <2>1. \A i \in DOMAIN tracks : f[i] \in Seq(Artists) /\ h[i] \in Albums
    BY ListMembers, Catalogue
  <2>2. f = [i \in DOMAIN tracks |-> f[i]] /\ h = [i \in DOMAIN tracks |-> h[i]]
    OBVIOUS
  <2>3. CreditSeq(tracks) = FlattenSeq(f) /\ AlbumSeq(tracks) = h
    BY DEF CreditSeq, AlbumSeq
  <2>. HIDE DEF f, h
  <2>4. f \in Seq(Seq(Artists)) /\ h \in Seq(Albums)
    BY <2>1, <2>2, ListMap
  <2>. QED  BY <2>3, <2>4, FlattenIs
<1>2. ASSUME NEW albums \in Seq(Albums) PROVE CreatorSeq(albums) \in Seq(Artists)
  <2>. DEFINE f == [i \in DOMAIN albums |-> Creators[albums[i]]]
  <2>1. \A i \in DOMAIN albums : f[i] \in Seq(Artists)
    BY ListMembers, Catalogue
  <2>2. f = [i \in DOMAIN albums |-> f[i]]
    OBVIOUS
  <2>3. CreatorSeq(albums) = FlattenSeq(f)
    BY DEF CreatorSeq
  <2>. HIDE DEF f
  <2>4. f \in Seq(Seq(Artists))
    BY <2>1, <2>2, ListMap
  <2>. QED  BY <2>3, <2>4, FlattenIs
<1>. QED  BY <1>1, <1>2

LEMMA LikedTracks ==
  /\ Liked \subseteq Tracks /\ IsFiniteSet(Liked)
  /\ Liked = UNION {ToSet(LikedPages[p]) : p \in DOMAIN LikedPages}
  /\ \A p \in DOMAIN LikedPages : LikedPages[p] \in Seq(Tracks) /\ ToSet(LikedPages[p]) \subseteq Liked
<1>1. FlattenSeq(LikedPages) \in Seq(Tracks) /\ Liked = UNION {ToSet(LikedPages[p]) : p \in DOMAIN LikedPages}
  BY FirstPage, FlattenIs DEF Liked, TracksOn
<1>2. \A p \in DOMAIN LikedPages : LikedPages[p] \in Seq(Tracks)
  BY FirstPage, ListMembers
<1>3. Liked \subseteq Tracks
  BY <1>1, ToSetType DEF Liked, TracksOn
<1>. QED  BY <1>1, <1>2, <1>3, Catalogue, FS_Subset

LEMMA Url_Is ==
  ASSUME NEW u \in Resources
  PROVE  /\ u.endpoint \in Endpoints /\ u.page \in Nat \ {0}
         /\ u.ids \in Seq(KindOf(u.endpoint))
         /\ u = [endpoint |-> u.endpoint, ids |-> u.ids, page |-> u.page]
         /\ u.endpoint \in One => u.ids[1] \in KindOf(u.endpoint) /\ u.ids = <<u.ids[1]>>
<1>1. /\ u.endpoint \in Endpoints /\ u.page \in Nat \ {0} /\ u.ids \in Seq(KindOf(u.endpoint))
      /\ u = [endpoint |-> u.endpoint, ids |-> u.ids, page |-> u.page]
      /\ u.endpoint \in One => Len(u.ids) = 1
  BY DEF Resources
<1>2. ASSUME NEW T, NEW s \in Seq(T), Len(s) = 1 PROVE s[1] \in T /\ s = <<s[1]>>
  BY <1>2
<1>. QED  BY <1>1, <1>2

LEMMA PageIs ==
  ASSUME NEW u \in Resources
  PROVE  /\ u.endpoint = "me/tracks" =>
              u.page \in DOMAIN LikedPages /\ Page(u) = LikedPages[u.page] /\ Pages(u) = LikedPages
         /\ u.endpoint = "albums/{id}/tracks" => Page(u) \in Seq(Tracks)
         /\ u.endpoint = "artists/{id}/albums" => Page(u) \in Seq(Albums)
<1>1. Pages(u) = <<>> \/ u.page \in DOMAIN Pages(u)
  BY DEF Resources
<1>2. CASE u.endpoint = "me/tracks"
  BY <1>1, <1>2, FirstPage DEF Pages, Page
<1>3. CASE u.endpoint = "albums/{id}/tracks"
  <2>1. u.ids[1] \in Albums
    BY <1>3, Url_Is DEF One, KindOf
  <2>2. Pages(u) = AlbumPages[u.ids[1]]
    BY <1>3 DEF Pages
  <2>3. Pages(u) \in Seq(Seq(Tracks)) /\ Pages(u) # <<>>
    BY <2>1, <2>2, FirstPage
  <2>. QED  BY <1>1, <1>3, <2>3, ListMembers DEF Page
<1>4. CASE u.endpoint = "artists/{id}/albums"
  <2>1. u.ids[1] \in Artists
    BY <1>4, Url_Is DEF One, KindOf
  <2>2. Pages(u) = Discography[u.ids[1]]
    BY <1>4 DEF Pages
  <2>3. Pages(u) \in Seq(Seq(Albums)) /\ Pages(u) # <<>>
    BY <2>1, <2>2, FirstPage
  <2>. QED  BY <1>1, <1>4, <2>3, ListMembers DEF Page
<1>. QED  BY <1>2, <1>3, <1>4

LEMMA ItemsAre ==
  ASSUME NEW T, NEW u, u.ids \in Seq(T)
  PROVE  Items(u) \in Seq(T) /\ ToSet(Items(u)) \subseteq T /\ LongAlbums(u) \in Seq(T)
<1>1. Items(u) \in Seq(T)
  <2>. DEFINE P == {n \in DOMAIN u.ids : u.ids[n] \notin Unknown}
  <2>1. Items(u) = At(u.ids, P)
    BY DEF Items
  <2>. HIDE DEF P
  <2>. QED  BY <2>1, AtType
<1>2. LongAlbums(u) \in Seq(T)
  <2>. DEFINE items == Items(u)
              P == {n \in DOMAIN items : Len(AlbumPages[items[n]]) > 1}
  <2>1. LongAlbums(u) = At(items, P)
    BY DEF LongAlbums
  <2>. HIDE DEF P, items
  <2>2. items \in Seq(T)
    BY <1>1 DEF items
  <2>. QED  BY <2>1, <2>2, AtType
<1>. QED  BY <1>1, <1>2, ToSetType

-----------------------------------------------------------------------------
(* The writes.                                                             *)

LEMMA MergeKeeps ==
  ASSUME NEW g \in Graphs, NEW w \in Inserts
  PROVE  Merge(g, w) \in Graphs
<1>1. /\ g.nodes \subseteq Ids /\ g.complete \subseteq g.nodes /\ Sound(g)
      /\ w.nodes \subseteq Ids /\ w.always \cup w.ifNew \subseteq w.nodes /\ Sound(w)
      /\ g.created \subseteq Ids \X Ids /\ w.created \subseteq Ids \X Ids
      /\ g.contains \subseteq Ids \X Ids /\ w.contains \subseteq Ids \X Ids
      /\ g.liked \subseteq Ids /\ w.liked \subseteq Ids
  BY DEF Graphs, Inserts
<1>. DEFINE m == Merge(g, w)
<1>2. /\ m.nodes = g.nodes \cup w.nodes /\ m.complete = g.complete \cup w.always \cup (w.ifNew \ g.nodes)
      /\ m.liked = g.liked \cup w.liked /\ m.created = g.created \cup w.created
      /\ m.contains = g.contains \cup w.contains
      /\ m = [nodes |-> m.nodes, complete |-> m.complete, liked |-> m.liked,
              created |-> m.created, contains |-> m.contains]
  BY DEF Merge
<1>. HIDE DEF m
<1>3. m.complete \subseteq m.nodes
  BY <1>1, <1>2
<1>4. Sound(m)
  <2>1. m.liked \subseteq m.nodes \cap LikedBy
    BY <1>1, <1>2 DEF Sound
  <2>2. m.created \subseteq Edges \cap (m.nodes \X m.nodes)
    BY <1>1, <1>2 DEF Sound
  <2>3. m.contains \subseteq (Albums \X Tracks) \cap (m.nodes \X m.nodes)
    BY <1>1, <1>2 DEF Sound
  <2>. QED  BY <2>1, <2>2, <2>3 DEF Sound
<1>5. /\ m.nodes \in SUBSET Ids /\ m.complete \in SUBSET Ids /\ m.liked \in SUBSET Ids
      /\ m.created \in SUBSET (Ids \X Ids) /\ m.contains \in SUBSET (Ids \X Ids)
  BY <1>1, <1>2, <1>3
<1>6. m \in [nodes : SUBSET Ids, complete : SUBSET Ids, liked : SUBSET Ids,
             created : SUBSET (Ids \X Ids), contains : SUBSET (Ids \X Ids)]
  BY <1>2, <1>5
<1>7. m \in Graphs
  BY <1>3, <1>4, <1>6 DEF Graphs
<1>. QED  BY <1>7 DEF m

(* An insert is typed when its parts are.                                  *)
LEMMA InsertIs ==
  ASSUME NEW nodes \in SUBSET Ids, NEW always \in SUBSET nodes, NEW ifNew \in SUBSET nodes,
         NEW created, created \subseteq Edges \cap (nodes \X nodes),
         NEW contains, contains \subseteq (Albums \X Tracks) \cap (nodes \X nodes),
         NEW liked, liked \subseteq nodes \cap LikedBy
  PROVE  Insert(nodes, always, ifNew, created, contains, liked) \in Inserts
<1>. DEFINE w == Insert(nodes, always, ifNew, created, contains, liked)
<1>1. /\ w.nodes = nodes /\ w.always = always /\ w.ifNew = ifNew /\ w.created = created
      /\ w.contains = contains /\ w.liked = liked
      /\ w = [nodes |-> w.nodes, always |-> w.always, ifNew |-> w.ifNew, created |-> w.created,
              contains |-> w.contains, liked |-> w.liked]
  BY DEF Insert
<1>. HIDE DEF w
<1>2. nodes \X nodes \subseteq Ids \X Ids
  OBVIOUS
<1>3. /\ w.nodes \in SUBSET Ids /\ w.always \in SUBSET Ids /\ w.ifNew \in SUBSET Ids /\ w.liked \in SUBSET Ids
      /\ w.created \in SUBSET (Ids \X Ids) /\ w.contains \in SUBSET (Ids \X Ids)
  BY <1>1, <1>2
<1>4. Sound(w) /\ w.always \cup w.ifNew \subseteq w.nodes
  BY <1>1 DEF Sound
<1>5. w \in Inserts
  BY <1>1, <1>3, <1>4 DEF Inserts
<1>. QED  BY <1>5 DEF w

LEMMA CreditEdgesAre ==
  ASSUME NEW tracks \in SUBSET Tracks
  PROVE  /\ CreditEdges(tracks) \subseteq Edges \cap (CreditsOf(tracks) \X tracks)
         /\ AlbumArtistEdges(tracks) \subseteq
              Edges \cap (CreatorsOf({AlbumOf[t] : t \in tracks}) \X tracks)
<1>1. CreditEdges(tracks) \subseteq CreditsOf(tracks) \X tracks
  BY DEF CreditEdges, CreditsOf
<1>2. CreditEdges(tracks) \subseteq CreditEdges(Tracks)
  BY DEF CreditEdges
<1>3. AlbumArtistEdges(tracks) \subseteq CreatorsOf({AlbumOf[t] : t \in tracks}) \X tracks
  BY DEF AlbumArtistEdges, CreatorsOf
<1>4. AlbumArtistEdges(tracks) \subseteq AlbumArtistEdges(Tracks)
  BY DEF AlbumArtistEdges
<1>. QED  BY <1>1, <1>2, <1>3, <1>4 DEF Edges

LEMMA CreatorEdgesAre ==
  ASSUME NEW albums \in SUBSET Albums
  PROVE  CreatorEdges(albums) \subseteq Edges \cap (CreatorsOf(albums) \X albums)
<1>1. CreatorEdges(albums) \subseteq CreatorsOf(albums) \X albums
  BY DEF CreatorEdges, CreatorsOf
<1>2. CreatorEdges(albums) \subseteq CreatorEdges(Albums)
  BY DEF CreatorEdges
<1>. QED  BY <1>1, <1>2 DEF Edges

LEMMA InsertCreditedIs ==
  ASSUME NEW tracks \in SUBSET Tracks, NEW credited \in SUBSET tracks,
         NEW liked, liked \subseteq tracks \cap LikedBy
  PROVE  InsertCredited(tracks, credited, liked) \in Inserts
<1>. DEFINE albums == {AlbumOf[t] : t \in tracks}
            nodes == tracks \cup albums \cup CreditsOf(credited) \cup CreatorsOf(albums)
            created == CreditEdges(credited) \cup CreatorEdges(albums) \cup AlbumArtistEdges(tracks)
            contains == {<<AlbumOf[t], t>> : t \in tracks}
<1>0. credited \in SUBSET Tracks
  OBVIOUS
<1>1. albums \in SUBSET Albums
  BY Catalogue
<1>2. nodes \in SUBSET Ids
  BY <1>0, <1>1, CreditsAre DEF Ids
<1>3. created \subseteq Edges \cap (nodes \X nodes)
  <2>1. CreatorEdges(albums) \subseteq Edges \cap (CreatorsOf(albums) \X albums)
    BY <1>1, CreatorEdgesAre
  <2>2. /\ CreditEdges(credited) \subseteq Edges \cap (CreditsOf(credited) \X credited)
        /\ AlbumArtistEdges(tracks) \subseteq Edges \cap (CreatorsOf(albums) \X tracks)
    BY <1>0, CreditEdgesAre
  <2>3. CreatorsOf(albums) \subseteq nodes /\ CreditsOf(credited) \subseteq nodes /\ albums \subseteq nodes
        /\ tracks \subseteq nodes
    OBVIOUS
  <2>. HIDE DEF nodes, albums
  <2>. QED  BY <2>1, <2>2, <2>3
<1>4. contains \subseteq (Albums \X Tracks) \cap (nodes \X nodes)
  BY Catalogue
<1>5. InsertCredited(tracks, credited, liked) = Insert(nodes, tracks, albums, created, contains, liked)
  BY DEF InsertCredited
<1>6. tracks \in SUBSET nodes /\ albums \in SUBSET nodes /\ liked \subseteq nodes \cap LikedBy
  OBVIOUS
<1>. HIDE DEF nodes, albums, created, contains
<1>. QED  BY <1>2, <1>3, <1>4, <1>5, <1>6, InsertIs

LEMMA InsertTracksIs ==
  ASSUME NEW tracks \in SUBSET Tracks
  PROVE  /\ InsertTracks(tracks) \in Inserts
         /\ \A liked : liked \subseteq tracks \cap LikedBy => InsertLikedSongs(tracks, liked) \in Inserts
<1>1. CreditKept(tracks) \in SUBSET tracks /\ tracks \in SUBSET tracks /\ {} \subseteq tracks \cap LikedBy
  BY DEF CreditKept
<1>. QED  BY <1>1, InsertCreditedIs DEF InsertTracks, InsertLikedSongs

LEMMA InsertAlbumsIs ==
  ASSUME NEW albums \in SUBSET Albums
  PROVE  /\ InsertAlbums(albums) \in Inserts
         /\ \A a \in albums : InsertSingleAlbum(a) \in Inserts
<1>1. ASSUME NEW some \in SUBSET albums
      PROVE  /\ some \cup CreatorsOf(some) \in SUBSET Ids
             /\ CreatorEdges(some) \subseteq
                  Edges \cap ((some \cup CreatorsOf(some)) \X (some \cup CreatorsOf(some)))
             /\ {} \subseteq (Albums \X Tracks) \cap ((some \cup CreatorsOf(some)) \X (some \cup CreatorsOf(some)))
             /\ {} \subseteq (some \cup CreatorsOf(some)) \cap LikedBy
             /\ some \in SUBSET (some \cup CreatorsOf(some)) /\ {} \in SUBSET (some \cup CreatorsOf(some))
  <2>1. some \in SUBSET Albums
    OBVIOUS
  <2>2. CreatorEdges(some) \subseteq Edges \cap (CreatorsOf(some) \X some) /\ CreatorsOf(some) \subseteq Artists
    BY <2>1, CreatorEdgesAre, CreditsAre
  <2>. QED  BY <2>1, <2>2 DEF Ids
<1>2. InsertAlbums(albums) \in Inserts
  <2>. DEFINE nodes == albums \cup CreatorsOf(albums)
  <2>1. InsertAlbums(albums) = Insert(nodes, albums, {}, CreatorEdges(albums), {}, {})
    BY DEF InsertAlbums
  <2>2. /\ nodes \in SUBSET Ids /\ CreatorEdges(albums) \subseteq Edges \cap (nodes \X nodes)
        /\ {} \subseteq (Albums \X Tracks) \cap (nodes \X nodes) /\ {} \subseteq nodes \cap LikedBy
        /\ albums \in SUBSET nodes /\ {} \in SUBSET nodes
    BY <1>1
  <2>. HIDE DEF nodes
  <2>. QED  BY <2>1, <2>2, InsertIs
<1>3. ASSUME NEW a \in albums PROVE InsertSingleAlbum(a) \in Inserts
  <2>. DEFINE nodes == {a} \cup CreatorsOf({a})
  <2>0. CreatorsOf({a}) = ToSet(Creators[a])
    BY DEF CreatorsOf
  <2>1. InsertSingleAlbum(a) = Insert(nodes, {}, {a}, CreatorEdges({a}), {}, {})
    BY <2>0 DEF InsertSingleAlbum
  <2>2. /\ nodes \in SUBSET Ids /\ CreatorEdges({a}) \subseteq Edges \cap (nodes \X nodes)
        /\ {} \subseteq (Albums \X Tracks) \cap (nodes \X nodes) /\ {} \subseteq nodes \cap LikedBy
        /\ {a} \in SUBSET nodes /\ {} \in SUBSET nodes
    BY <1>1
  <2>. HIDE DEF nodes
  <2>. QED  BY <2>1, <2>2, InsertIs
<1>. QED  BY <1>2, <1>3

LEMMA InsertAlbumTracksIs ==
  ASSUME NEW albums \in SUBSET Albums, NEW contains \in SUBSET (albums \X Tracks)
  PROVE  InsertAlbumTracks(albums, contains) \in Inserts
<1>. DEFINE tracks == {e[2] : e \in contains}
            nodes == albums \cup tracks \cup CreditsOf(tracks)
<1>1. tracks \in SUBSET Tracks
  OBVIOUS
<1>2. /\ CreditEdges(tracks) \subseteq Edges \cap (CreditsOf(tracks) \X tracks)
      /\ CreditsOf(tracks) \subseteq Artists
  <2>. HIDE DEF tracks
  <2>. QED  BY <1>1, CreditEdgesAre, CreditsAre
<1>3. nodes \in SUBSET Ids /\ CreditEdges(tracks) \subseteq Edges \cap (nodes \X nodes)
  <2>. HIDE DEF tracks
  <2>. QED  BY <1>1, <1>2 DEF Ids
<1>4. contains \subseteq (Albums \X Tracks) \cap (nodes \X nodes)
  OBVIOUS
<1>5. InsertAlbumTracks(albums, contains) = Insert(nodes, {}, {}, CreditEdges(tracks), contains, {})
  BY DEF InsertAlbumTracks
<1>6. {} \in SUBSET nodes /\ {} \subseteq nodes \cap LikedBy
  OBVIOUS
<1>. HIDE DEF nodes, tracks
<1>. QED  BY <1>3, <1>4, <1>5, <1>6, InsertIs

LEMMA InsertArtistsIs ==
  ASSUME NEW artists \in SUBSET Artists
  PROVE  InsertArtists(artists) \in Inserts
<1>1. /\ artists \in SUBSET Ids /\ artists \in SUBSET artists /\ {} \in SUBSET artists
      /\ {} \subseteq Edges \cap (artists \X artists) /\ {} \subseteq artists \cap LikedBy
      /\ {} \subseteq (Albums \X Tracks) \cap (artists \X artists)
  BY DEF Ids
<1>. QED  BY <1>1, InsertIs DEF InsertArtists

LEMMA EmbeddedTracksAre ==
  ASSUME NEW albums \in SUBSET Albums
  PROVE  EmbeddedTracks(albums) \in SUBSET (albums \X Tracks)
<1>1. \A a \in albums : AlbumPages[a][1] \in Seq(Tracks)
  BY FirstPage, ListMembers
<1>2. \A a \in albums : ToSet(AlbumPages[a][1]) \subseteq Tracks
  BY <1>1, ToSetType
<1>. QED  BY <1>2 DEF EmbeddedTracks

(* What the handler of a URL writes.                                       *)
LEMMA WritesAre ==
  ASSUME NEW u \in Resources
  PROVE  Writes(u) \in Seq(Inserts)
<1>0. ASSUME NEW T, NEW x \in T PROVE <<x>> \in Seq(T)
  BY OneOfList
<1>1. <<>> \in Seq(Inserts)
  BY EmptySeq
<1>2. ToSet(Items(u)) \subseteq KindOf(u.endpoint)
  BY Url_Is, ItemsAre
<1>3. u.endpoint \in One => u.ids[1] \in KindOf(u.endpoint)
  BY Url_Is
<1>4. CASE u.endpoint = "me/tracks"
  <2>1. Page(u) \in Seq(Tracks) /\ ToSet(Page(u)) \subseteq Liked
    BY <1>4, PageIs, LikedTracks
  <2>2. ToSet(Page(u)) \in SUBSET Tracks
    BY <2>1, ToSetType
  <2>3. (IF config.user THEN ToSet(Page(u)) ELSE {}) \subseteq ToSet(Page(u)) \cap LikedBy
    BY <2>1 DEF LikedBy
  <2>4. InsertLikedSongs(ToSet(Page(u)), IF config.user THEN ToSet(Page(u)) ELSE {}) \in Inserts
    BY <2>2, <2>3, InsertTracksIs
  <2>5. Writes(u) = LikedSongs_Write(ToSet(Page(u)))
    BY <1>4 DEF Writes
  <2>. QED  BY <1>0, <2>4, <2>5 DEF LikedSongs_Write
<1>5. CASE u.endpoint = "tracks/{id}"
  <2>1. {u.ids[1]} \in SUBSET Tracks
    BY <1>3, <1>5 DEF One, Single, KindOf
  <2>2. InsertTracks({u.ids[1]}) \in Inserts
    BY <2>1, InsertTracksIs
  <2>3. Writes(u) = SingleTrack_Write(u.ids[1])
    BY <1>5 DEF Writes
  <2>. QED  BY <1>0, <2>2, <2>3 DEF SingleTrack_Write
<1>6. CASE u.endpoint = "albums/{id}"
  <2>1. {u.ids[1]} \in SUBSET Albums
    BY <1>3, <1>6 DEF One, Single, KindOf
  <2>2. InsertSingleAlbum(u.ids[1]) \in Inserts
    BY <2>1, InsertAlbumsIs
  <2>3. Writes(u) = SingleAlbum_Write(u.ids[1])
    BY <1>6 DEF Writes
  <2>. QED  BY <1>0, <2>2, <2>3 DEF SingleAlbum_Write
<1>7. CASE u.endpoint = "artists/{id}"
  <2>1. {u.ids[1]} \in SUBSET Artists
    BY <1>3, <1>7 DEF One, Single, KindOf
  <2>2. InsertArtists({u.ids[1]}) \in Inserts
    BY <2>1, InsertArtistsIs
  <2>3. Writes(u) = SingleArtist_Write(u.ids[1])
    BY <1>7 DEF Writes
  <2>. QED  BY <1>0, <2>2, <2>3 DEF SingleArtist_Write
<1>8. CASE u.endpoint = "tracks?ids"
  <2>1. ToSet(Items(u)) \in SUBSET Tracks
    BY <1>2, <1>8 DEF KindOf
  <2>2. InsertTracks(ToSet(Items(u))) \in Inserts
    BY <2>1, InsertTracksIs
  <2>3. Writes(u) = <<InsertTracks(ToSet(Items(u)))>>
    BY <1>8 DEF Writes
  <2>. QED  BY <1>0, <2>2, <2>3
<1>9. CASE u.endpoint = "albums?ids"
  <2>. DEFINE albums == ToSet(Items(u))
  <2>1. albums \in SUBSET Albums
    BY <1>2, <1>9 DEF KindOf
  <2>2. Writes(u) = SeveralAlbums_Write(albums)
    BY <1>9 DEF Writes
  <2>. HIDE DEF albums
  <2>3. InsertAlbums(albums) \in Inserts /\ InsertAlbumTracks(albums, EmbeddedTracks(albums)) \in Inserts
    BY <2>1, InsertAlbumsIs, EmbeddedTracksAre, InsertAlbumTracksIs
  <2>4. /\ <<InsertAlbums(albums)>> \in Seq(Inserts)
        /\ (IF config.discographies THEN <<InsertAlbumTracks(albums, EmbeddedTracks(albums))>> ELSE <<>>)
             \in Seq(Inserts)
    BY <1>0, <1>1, <2>3
  <2>. QED  BY <2>2, <2>4, ConcatProperties DEF SeveralAlbums_Write
<1>10. CASE u.endpoint = "artists?ids"
  <2>1. ToSet(Items(u)) \in SUBSET Artists
    BY <1>2, <1>10 DEF KindOf
  <2>2. InsertArtists(ToSet(Items(u))) \in Inserts
    BY <2>1, InsertArtistsIs
  <2>3. Writes(u) = <<InsertArtists(ToSet(Items(u)))>>
    BY <1>10 DEF Writes
  <2>. QED  BY <1>0, <2>2, <2>3
<1>11. CASE u.endpoint = "albums/{id}/tracks"
  <2>. DEFINE a == u.ids[1]
              page == ToSet(Page(u))
  <2>1. a \in Albums /\ page \subseteq Tracks
    BY <1>3, <1>11, PageIs, ToSetType DEF One, KindOf
  <2>2. Writes(u) = TracksOfAlbum_Write(a, page)
    BY <1>11 DEF Writes
  <2>. HIDE DEF a, page
  <2>3. {a} \in SUBSET Albums /\ {<<a, t>> : t \in page} \in SUBSET ({a} \X Tracks)
    BY <2>1
  <2>4. InsertAlbumTracks({a}, {<<a, t>> : t \in page}) \in Inserts
    BY <2>3, InsertAlbumTracksIs
  <2>. QED  BY <1>0, <2>2, <2>4 DEF TracksOfAlbum_Write
<1>12. CASE u.endpoint = "artists/{id}/albums" \/ u.endpoint \in Unmapped
  BY <1>1, <1>12 DEF Writes, Harvest_Write, Unmapped
<1>13. u.endpoint \in Endpoints
  BY Url_Is
<1>. QED  BY <1>4, <1>5, <1>6, <1>7, <1>8, <1>9, <1>10, <1>11, <1>12, <1>13 DEF Endpoints, Single, Several

-----------------------------------------------------------------------------
(* The requests.                                                           *)

LEMMA SeqWiden ==
  ASSUME NEW S, NEW T, S \subseteq T, NEW s \in Seq(S)
  PROVE  s \in Seq(T)
<1>1. Len(s) \in Nat /\ s = [i \in 1..Len(s) |-> s[i]] /\ \A i \in 1..Len(s) : s[i] \in T
  BY LenProperties, ElementOfSeq
<1>. QED  BY <1>1, IsASeq

LEMMA KindsAreIds == \A endpoint : KindOf(endpoint) \subseteq Ids
BY DEF KindOf, Ids

LEMMA FirstUrl ==
  ASSUME NEW endpoint \in Endpoints, NEW ids \in Seq(KindOf(endpoint)),
         endpoint \in One => Len(ids) = 1
  PROVE  Url(endpoint, ids, 1) \in Resources
<1>. DEFINE u == Url(endpoint, ids, 1)
<1>1. u.endpoint = endpoint /\ u.ids = ids /\ u.page = 1 /\ u = [endpoint |-> u.endpoint, ids |-> u.ids, page |-> u.page]
  BY DEF Url
<1>. HIDE DEF u
<1>2. ids \in Seq(Ids)
  BY KindsAreIds, SeqWiden
<1>3. endpoint \in One => ids[1] \in KindOf(endpoint)
  <2>1. Len(ids) = 1 => 1 \in DOMAIN ids
    BY ListMembers
  <2>. QED  BY <2>1, ListMembers
<1>4. Pages(u) = <<>> \/ 1 \in DOMAIN Pages(u)
  <2>1. CASE endpoint = "me/tracks"
    BY <1>1, <2>1, FirstPage DEF Pages
  <2>2. CASE endpoint = "artists/{id}/albums"
    <3>1. ids[1] \in Artists
      BY <1>3, <2>2 DEF One, KindOf
    <3>. QED  BY <1>1, <2>2, <3>1, FirstPage DEF Pages
  <2>3. CASE endpoint = "albums/{id}/tracks"
    <3>1. ids[1] \in Albums
      BY <1>3, <2>3 DEF One, KindOf
    <3>. QED  BY <1>1, <2>3, <3>1, FirstPage DEF Pages
  <2>4. CASE endpoint \notin {"me/tracks", "artists/{id}/albums", "albums/{id}/tracks"}
    BY <1>1, <2>4 DEF Pages
  <2>. QED  BY <2>1, <2>2, <2>3, <2>4
<1>5. u \in [endpoint : Endpoints, ids : Seq(Ids), page : Nat \ {0}]
  BY <1>1, <1>2
<1>6. u \in Resources
  BY <1>1, <1>4, <1>5 DEF Resources
<1>. QED  BY <1>6 DEF u

LEMMA RequestIs ==
  ASSUME NEW u \in Resources, Proper(u), NEW depth \in Depths
  PROVE  Request(u, depth) \in Messages /\ Request(u, depth).url = u /\ Request(u, depth).depth = depth
BY DEF Request, Messages

LEMMA RequestBatchIs ==
  ASSUME NEW endpoint \in Several, NEW ids \in Seq(KindOf(endpoint)), NEW depth \in Depths
  PROVE  RequestBatch(endpoint, ids, depth) \in Seq(Messages)
<1>. DEFINE size == BatchIdLimits[endpoint]
            chunks == Chunked(Unique(ids), size)
            f == [c \in DOMAIN chunks |-> Request(Url(endpoint, chunks[c], 1), depth)]
<1>1. size \in Nat \ {0}
  BY Catalogue
<1>2. Unique(ids) \in Seq(KindOf(endpoint)) /\ IsInjective(Unique(ids))
  BY FirstsOutsideIs DEF Unique
<1>3. RequestBatch(endpoint, ids, depth) = f
  BY DEF RequestBatch
<1>4. chunks \in Seq(Seq(KindOf(endpoint)))
  <2>. HIDE DEF size
  <2>. QED  BY <1>1, <1>2, ChunkedIs
<1>5. ASSUME NEW c \in DOMAIN chunks PROVE f[c] \in Messages
  <2>1. chunks[c] \in Seq(KindOf(endpoint)) /\ Len(chunks[c]) \in 1..size /\ IsInjective(chunks[c])
    <3>. HIDE DEF size
    <3>. QED  BY <1>1, <1>2, ChunkIs
  <2>. DEFINE ids_c == chunks[c]
              u == Url(endpoint, ids_c, 1)
  <2>2. endpoint \in Endpoints /\ endpoint \notin One /\ endpoint # "artists/{id}/albums"
    BY DEF Endpoints, One, Single, Several
  <2>3. f[c] = Request(u, depth)
    OBVIOUS
  <2>. HIDE DEF chunks, f
  <2>4. u \in Resources
    BY <2>1, <2>2, FirstUrl
  <2>5. Proper(u)
    BY <2>1, <2>2 DEF Proper, Url
  <2>. HIDE DEF u
  <2>. QED  BY <2>3, <2>4, <2>5, RequestIs
<1>6. f = [c \in DOMAIN chunks |-> f[c]]
  OBVIOUS
<1>. DEFINE C == Seq(KindOf(endpoint))
<1>7. chunks \in Seq(C) /\ \A c \in DOMAIN chunks : f[c] \in Messages
  BY <1>4, <1>5
<1>. HIDE DEF f, chunks, C
<1>8. f \in Seq(Messages)
  BY <1>6, <1>7, ListMap
<1>. QED  BY <1>3, <1>8

LEMMA EachIs ==
  ASSUME NEW endpoint \in Single, NEW ids \in Seq(KindOf(endpoint)), NEW depth \in Depths
  PROVE  Each(endpoint, ids, depth) \in Seq(Messages)
<1>. DEFINE f == [i \in DOMAIN ids |-> Request(Url(endpoint, <<ids[i]>>, 1), depth)]
<1>1. ASSUME NEW i \in DOMAIN ids PROVE f[i] \in Messages
  <2>. DEFINE one == <<ids[i]>>
              u == Url(endpoint, one, 1)
  <2>1. one \in Seq(KindOf(endpoint)) /\ Len(one) = 1 /\ IsInjective(one)
    BY ListMembers, OneOfList
  <2>2. endpoint \in Endpoints /\ endpoint \notin Several /\ endpoint # "artists/{id}/albums"
    BY DEF Endpoints, One, Single, Several
  <2>3. f[i] = Request(u, depth)
    OBVIOUS
  <2>. HIDE DEF one, f
  <2>4. u \in Resources
    BY <2>1, <2>2, FirstUrl
  <2>5. Proper(u)
    BY <2>1, <2>2 DEF Proper, Url
  <2>. HIDE DEF u
  <2>. QED  BY <2>3, <2>4, <2>5, RequestIs
<1>2. Each(endpoint, ids, depth) = f /\ f = [i \in DOMAIN ids |-> f[i]]
  BY DEF Each
<1>. HIDE DEF f
<1>. QED  BY <1>1, <1>2, ListMap

LEMMA SeveralTracksNext ==
  ASSUME NEW tracks \in Seq(Tracks), NEW depth \in Depths
  PROVE  SeveralTracks_Neighbours(tracks, depth) \in Seq(Messages)
<1>1. "albums?ids" \in Several /\ KindOf("albums?ids") = Albums
      /\ "artists?ids" \in Several /\ KindOf("artists?ids") = Artists
  BY DEF Several, KindOf
<1>2. AlbumSeq(tracks) \in Seq(Albums) /\ CreditSeq(tracks) \in Seq(Artists)
  BY Lists
<1>3. /\ RequestBatch("albums?ids", AlbumSeq(tracks), depth) \in Seq(Messages)
      /\ RequestBatch("artists?ids", CreditSeq(tracks), depth) \in Seq(Messages)
  BY <1>1, <1>2, RequestBatchIs
<1>. QED  BY <1>3, ConcatProperties DEF SeveralTracks_Neighbours

LEMMA SingleTrackNext ==
  ASSUME NEW tracks \in Seq(Tracks), NEW depth \in Depths
  PROVE  SingleTrack_Neighbours(tracks, depth) \in Seq(Messages)
<1>1. CASE config.batch
  BY <1>1, SeveralTracksNext DEF SingleTrack_Neighbours
<1>2. CASE ~config.batch
  <2>. DEFINE f == [i \in DOMAIN tracks |->
                      Each("albums/{id}", <<AlbumOf[tracks[i]]>>, depth)
                        \o Each("artists/{id}", Credits[tracks[i]], depth)]
  <2>1. "albums/{id}" \in Single /\ KindOf("albums/{id}") = Albums
        /\ "artists/{id}" \in Single /\ KindOf("artists/{id}") = Artists
    BY DEF Single, KindOf
  <2>2. ASSUME NEW i \in DOMAIN tracks PROVE f[i] \in Seq(Messages)
    <3>1. <<AlbumOf[tracks[i]]>> \in Seq(Albums) /\ Credits[tracks[i]] \in Seq(Artists)
      BY ListMembers, Catalogue, OneOfList
    <3>2. /\ Each("albums/{id}", <<AlbumOf[tracks[i]]>>, depth) \in Seq(Messages)
          /\ Each("artists/{id}", Credits[tracks[i]], depth) \in Seq(Messages)
      BY <2>1, <3>1, EachIs
    <3>. QED  BY <3>2, ConcatProperties
  <2>3. SingleTrack_Neighbours(tracks, depth) = FlattenSeq(f) /\ f = [i \in DOMAIN tracks |-> f[i]]
    BY <1>2 DEF SingleTrack_Neighbours
  <2>. HIDE DEF f
  <2>4. f \in Seq(Seq(Messages))
    BY <2>2, <2>3, ListMap
  <2>. QED  BY <2>3, <2>4, FlattenIs
<1>. QED  BY <1>1, <1>2

LEMMA LikedSongsNext ==
  ASSUME NEW tracks \in Seq(Tracks), NEW depth \in Depths
  PROVE  LikedSongs_Neighbours(tracks, depth) \in Seq(Messages)
<1>1. CASE config.batch
  BY <1>1, SeveralTracksNext DEF LikedSongs_Neighbours
<1>2. CASE ~config.batch
  <2>. DEFINE f == [i \in DOMAIN tracks |->
                      Each("tracks/{id}", <<tracks[i]>>, depth)
                        \o SingleTrack_Neighbours(<<tracks[i]>>, depth)]
  <2>1. "tracks/{id}" \in Single /\ KindOf("tracks/{id}") = Tracks
    BY DEF Single, KindOf
  <2>2. ASSUME NEW i \in DOMAIN tracks PROVE f[i] \in Seq(Messages)
    <3>1. <<tracks[i]>> \in Seq(Tracks)
      BY ListMembers, OneOfList
    <3>2. /\ Each("tracks/{id}", <<tracks[i]>>, depth) \in Seq(Messages)
          /\ SingleTrack_Neighbours(<<tracks[i]>>, depth) \in Seq(Messages)
      BY <2>1, <3>1, EachIs, SingleTrackNext
    <3>. QED  BY <3>2, ConcatProperties
  <2>3. LikedSongs_Neighbours(tracks, depth) = FlattenSeq(f) /\ f = [i \in DOMAIN tracks |-> f[i]]
    BY <1>2 DEF LikedSongs_Neighbours
  <2>. HIDE DEF f
  <2>4. f \in Seq(Seq(Messages))
    BY <2>2, <2>3, ListMap
  <2>. QED  BY <2>3, <2>4, FlattenIs
<1>. QED  BY <1>1, <1>2

LEMMA SeveralAlbumsNext ==
  ASSUME NEW albums \in Seq(Albums), NEW depth \in Depths
  PROVE  SeveralAlbums_Neighbours(albums, depth) \in Seq(Messages)
<1>. DEFINE f == [i \in DOMAIN albums |-> AlbumPages[albums[i]][1]]
            embedded == IF config.discographies THEN CreditSeq(FlattenSeq(f)) ELSE <<>>
<1>1. \A i \in DOMAIN albums : f[i] \in Seq(Tracks)
  BY ListMembers, FirstPage
<1>2. f = [i \in DOMAIN albums |-> f[i]]
  OBVIOUS
<1>3. SeveralAlbums_Neighbours(albums, depth) =
        RequestBatch("artists?ids", CreatorSeq(albums) \o embedded, depth)
  BY DEF SeveralAlbums_Neighbours
<1>4. embedded \in Seq(Artists)
  <2>. HIDE DEF f
  <2>1. f \in Seq(Seq(Tracks))
    BY <1>1, <1>2, ListMap
  <2>2. CreditSeq(FlattenSeq(f)) \in Seq(Artists)
    BY <2>1, FlattenIs, Lists
  <2>. QED  BY <2>2, EmptySeq
<1>. HIDE DEF embedded
<1>5. CreatorSeq(albums) \o embedded \in Seq(Artists)
  BY <1>4, Lists, ConcatProperties
<1>6. "artists?ids" \in Several /\ KindOf("artists?ids") = Artists
  BY DEF Several, KindOf
<1>. QED  BY <1>3, <1>5, <1>6, RequestBatchIs

LEMMA SingleAlbumNext ==
  ASSUME NEW a \in Albums, NEW depth \in Depths
  PROVE  SingleAlbum_Neighbours(a, depth) \in Seq(Messages)
<1>1. /\ "artists?ids" \in Several /\ KindOf("artists?ids") = Artists
      /\ "artists/{id}" \in Single /\ KindOf("artists/{id}") = Artists /\ Creators[a] \in Seq(Artists)
  BY Catalogue DEF Several, Single, KindOf
<1>2. /\ RequestBatch("artists?ids", Creators[a], depth) \in Seq(Messages)
      /\ Each("artists/{id}", Creators[a], depth) \in Seq(Messages)
  BY <1>1, RequestBatchIs, EachIs
<1>. QED  BY <1>2 DEF SingleAlbum_Neighbours

LEMMA PagesNext ==
  ASSUME NEW depth \in Depths
  PROVE  /\ \A page \in Seq(Tracks) : TracksOfAlbum_Neighbours(page, depth) \in Seq(Messages)
         /\ \A page \in Seq(Albums) : Harvest_Neighbours(page, depth) \in Seq(Messages)
<1>1. "albums?ids" \in Several /\ KindOf("albums?ids") = Albums
      /\ "artists?ids" \in Several /\ KindOf("artists?ids") = Artists
  BY DEF Several, KindOf
<1>. QED  BY <1>1, RequestBatchIs, Lists DEF TracksOfAlbum_Neighbours, Harvest_Neighbours

LEMMA NextPagesAre ==
  ASSUME NEW u \in Resources, NEW depth \in Depths
  PROVE  SeveralAlbums_NextPages(u, depth) \in Seq(Messages)
<1>1. CASE ~(u.endpoint = "albums?ids" /\ config.discographies)
  BY <1>1, EmptySeq DEF SeveralAlbums_NextPages
<1>2. CASE u.endpoint = "albums?ids" /\ config.discographies
  <2>. DEFINE long == LongAlbums(u)
              f == [i \in DOMAIN long |-> Request(Url("albums/{id}/tracks", <<long[i]>>, 2), depth)]
  <2>1. SeveralAlbums_NextPages(u, depth) = f /\ f = [i \in DOMAIN long |-> f[i]]
    BY <1>2 DEF SeveralAlbums_NextPages
  <2>2. u.ids \in Seq(Albums)
    BY <1>2, Url_Is DEF KindOf
  <2>3. long \in Seq(Albums) /\ \A i \in DOMAIN long : Len(AlbumPages[long[i]]) > 1
    <3>. DEFINE items == Items(u)
                P == {n \in DOMAIN items : Len(AlbumPages[items[n]]) > 1}
    <3>1. items \in Seq(Albums)
      BY <2>2, ItemsAre
    <3>2. long = At(items, P)
      BY DEF LongAlbums
    <3>3. \A n \in P \cap DOMAIN items : Len(AlbumPages[items[n]]) > 1
      OBVIOUS
    <3>. HIDE DEF long, P, items
    <3>4. long \in Seq(Albums) /\ ToSet(long) = {items[n] : n \in P \cap DOMAIN items}
      BY <3>1, <3>2, AtType
    <3>. QED  BY <3>3, <3>4, ListMembers
  <2>4. ASSUME NEW i \in DOMAIN long PROVE f[i] \in Messages
    <3>. DEFINE a == long[i]
                ids == <<a>>
                v == Url("albums/{id}/tracks", ids, 2)
    <3>1. a \in Albums /\ Len(AlbumPages[a]) > 1
      BY <2>3, ListMembers
    <3>2. f[i] = Request(v, depth)
      OBVIOUS
    <3>. HIDE DEF a, f, long
    <3>3. ids \in Seq(Albums) /\ ids \in Seq(Ids) /\ Len(ids) = 1 /\ ids[1] = a /\ IsInjective(ids)
      BY <3>1, OneOfList DEF Ids
    <3>. HIDE DEF ids
    <3>4. 2 \in DOMAIN AlbumPages[a]
      BY <3>1, FirstPage, ListMembers
    <3>5. /\ v.endpoint = "albums/{id}/tracks" /\ v.ids = ids /\ v.page = 2
          /\ v = [endpoint |-> v.endpoint, ids |-> v.ids, page |-> v.page]
      BY DEF Url
    <3>. HIDE DEF v
    <3>6. Pages(v) = AlbumPages[a]
      BY <3>3, <3>5 DEF Pages
    <3>7. KindOf(v.endpoint) = Albums /\ v.endpoint \in Endpoints /\ v.endpoint \notin Several
      BY <3>5 DEF KindOf, Endpoints, Several
    <3>8. v \in [endpoint : Endpoints, ids : Seq(Ids), page : Nat \ {0}]
      <4>1. v.endpoint \in Endpoints /\ v.ids \in Seq(Ids) /\ v.page \in Nat \ {0}
        <5>1. v.page \in Nat \ {0}
          <6>1. \A n : n = 2 => n \in Nat \ {0}
            OBVIOUS
          <6>2. v.page = 2
            BY <3>5
          <6>. QED  BY <6>1, <6>2
        <5>2. v.ids \in Seq(Ids)
          BY <3>3, <3>5
        <5>. QED  BY <3>7, <5>1, <5>2
      <4>. QED  BY <3>5, <4>1
    <3>9. v \in Resources
      BY <3>3, <3>4, <3>5, <3>6, <3>7, <3>8 DEF Resources
    <3>10. Proper(v)
      BY <3>3, <3>5, <3>7 DEF Proper
    <3>. QED  BY <3>2, <3>9, <3>10, RequestIs
  <2>. HIDE DEF f, long
  <2>. QED  BY <2>1, <2>3, <2>4, ListMap
<1>. QED  BY <1>1, <1>2

LEMMA NeighboursAre ==
  ASSUME NEW u \in Resources, NEW depth \in Depths
  PROVE  Neighbours(u, depth) \in Seq(Messages)
<1>0. u.ids \in Seq(KindOf(u.endpoint)) /\ Items(u) \in Seq(KindOf(u.endpoint))
      /\ (u.endpoint \in One => u.ids[1] \in KindOf(u.endpoint))
  BY Url_Is, ItemsAre
<1>1. CASE u.endpoint = "me/tracks"
  <2>1. Page(u) \in Seq(Tracks)
    BY <1>1, PageIs, LikedTracks
  <2>. QED  BY <1>1, <2>1, LikedSongsNext DEF Neighbours
<1>2. CASE u.endpoint = "tracks/{id}"
  <2>1. u.ids \in Seq(Tracks)
    BY <1>0, <1>2 DEF KindOf
  <2>. QED  BY <1>2, <2>1, SingleTrackNext DEF Neighbours
<1>3. CASE u.endpoint = "tracks?ids"
  <2>1. Items(u) \in Seq(Tracks)
    BY <1>0, <1>3 DEF KindOf
  <2>. QED  BY <1>3, <2>1, SeveralTracksNext DEF Neighbours
<1>4. CASE u.endpoint = "albums/{id}"
  <2>1. u.ids[1] \in Albums
    BY <1>0, <1>4 DEF KindOf, One, Single
  <2>. QED  BY <1>4, <2>1, SingleAlbumNext DEF Neighbours
<1>5. CASE u.endpoint = "albums?ids"
  <2>1. Items(u) \in Seq(Albums)
    BY <1>0, <1>5 DEF KindOf
  <2>. QED  BY <1>5, <2>1, SeveralAlbumsNext DEF Neighbours
<1>6. CASE u.endpoint = "albums/{id}/tracks"
  <2>1. Page(u) \in Seq(Tracks)
    BY <1>6, PageIs
  <2>. QED  BY <1>6, <2>1, PagesNext DEF Neighbours
<1>7. CASE u.endpoint = "artists/{id}/albums"
  <2>1. Page(u) \in Seq(Albums)
    BY <1>7, PageIs
  <2>. QED  BY <1>7, <2>1, PagesNext DEF Neighbours
<1>8. CASE u.endpoint \notin {"me/tracks", "tracks/{id}", "tracks?ids", "albums/{id}", "albums?ids",
                              "albums/{id}/tracks", "artists/{id}/albums"}
  BY <1>8, EmptySeq DEF Neighbours
<1>. QED  BY <1>1, <1>2, <1>3, <1>4, <1>5, <1>6, <1>7, <1>8

LEMMA DepthsAre ==
  ASSUME config \in Configurations
  PROVE  /\ Depths \subseteq Nat /\ config.depth \in Depths /\ SeedDepth \in Depths
         /\ \A d \in Depths : d > 0 => d - 1 \in Depths
<1>1. config.depth \in Nat /\ SeedDepth \in Nat
  BY CatalogAssumption
<1>. DEFINE top == Max({config.depth, SeedDepth})
<1>2. top \in Nat /\ config.depth <= top /\ SeedDepth <= top
  BY <1>1, MaxOfTwo
<1>3. Depths = 0..top
  BY DEF Depths
<1>. HIDE DEF top
<1>. QED  BY <1>1, <1>2, <1>3

(* What a message fans out to.                                             *)
LEMMA FollowLinksAre ==
  ASSUME config \in Configurations, NEW r \in Messages
  PROVE  FollowLinks(r) \in Seq(Messages)
<1>1. r.url \in Resources /\ r.depth \in Depths
  BY DEF Messages
<1>2. SeveralAlbums_NextPages(r.url, r.depth) \in Seq(Messages)
  BY <1>1, NextPagesAre
<1>3. (IF r.depth > 0 THEN Neighbours(r.url, r.depth - 1) ELSE <<>>) \in Seq(Messages)
  <2>1. CASE r.depth > 0
    <3>1. r.depth - 1 \in Depths
      BY <1>1, <2>1, DepthsAre
    <3>. QED  BY <1>1, <2>1, <3>1, NeighboursAre
  <2>2. CASE ~(r.depth > 0)
    BY <2>2, EmptySeq
  <2>. QED  BY <2>1, <2>2
<1>. QED  BY <1>2, <1>3, ConcatProperties DEF FollowLinks

-----------------------------------------------------------------------------
(* Sets as lists.                                                          *)

LEMMA InjectiveLen ==
  ASSUME NEW T, NEW s \in Seq(T), IsInjective(s)
  PROVE  IsFiniteSet(ToSet(s)) /\ Cardinality(ToSet(s)) = Len(s)
<1>. DEFINE B == {r \in Seq(T) : IsInjective(r) =>
                    IsFiniteSet(ToSet(r)) /\ Cardinality(ToSet(r)) = Len(r)}
<1>1. <<>> \in B
  BY EmptySeq, ToSetEmpty, FS_EmptySet
<1>2. ASSUME NEW r \in B, NEW x \in T PROVE Append(r, x) \in B
  <2>1. SUFFICES ASSUME IsInjective(Append(r, x))
                 PROVE  /\ IsFiniteSet(ToSet(Append(r, x)))
                        /\ Cardinality(ToSet(Append(r, x))) = Len(Append(r, x))
    BY AppendProperties
  <2>2. IsInjective(r) /\ x \notin ToSet(r) /\ ToSet(Append(r, x)) = ToSet(r) \cup {x}
    BY <2>1, InjectiveAppend, ToSetAppend
  <2>3. IsFiniteSet(ToSet(r)) /\ Cardinality(ToSet(r)) = Len(r)
    BY <2>2
  <2>4. /\ IsFiniteSet(ToSet(r) \cup {x})
        /\ Cardinality(ToSet(r) \cup {x}) = Cardinality(ToSet(r)) + 1
    BY <2>2, <2>3, FS_AddElement
  <2>5. Len(Append(r, x)) = Len(r) + 1
    BY AppendProperties
  <2>. QED  BY <2>2, <2>3, <2>4, <2>5
<1>3. B = Seq(T)
  <2>1. B \in SUBSET Seq(T)
    OBVIOUS
  <2>. HIDE DEF B
  <2>. QED  BY <1>1, <1>2, <2>1, AllSequences
<1>. QED  BY <1>3

LEMMA InjectiveCovers ==
  ASSUME NEW S, IsFiniteSet(S), NEW f \in [1..Cardinality(S) -> S], IsInjective(f)
  PROVE  f \in Seq(S) /\ ToSet(f) = S /\ Len(f) = Cardinality(S)
<1>1. Cardinality(S) \in Nat
  BY FS_CardinalityType
<1>2. f = [i \in 1..Cardinality(S) |-> f[i]] /\ \A i \in 1..Cardinality(S) : f[i] \in S
  OBVIOUS
<1>3. f \in Seq(S)
  BY <1>1, <1>2, IsASeq
<1>4. Len(f) = Cardinality(S)
  <2>1. DOMAIN f = 1..Len(f) /\ DOMAIN f = 1..Cardinality(S) /\ Len(f) \in Nat
    BY <1>3, LenProperties
  <2>. QED  BY <1>1, <2>1
<1>5. ToSet(f) \in SUBSET S /\ IsFiniteSet(ToSet(f)) /\ Cardinality(ToSet(f)) = Len(f)
  BY <1>3, ToSetType, InjectiveLen
<1>. QED  BY <1>3, <1>4, <1>5, FS_Subset

LEMMA SetToSeqIs ==
  ASSUME NEW S, IsFiniteSet(S)
  PROVE  /\ SetToSeq(S) \in Seq(S) /\ ToSet(SetToSeq(S)) = S /\ IsInjective(SetToSeq(S))
         /\ (S # {} => SetToSeq(S) # <<>>)
<1>1. PICK g \in Bijection(1..Cardinality(S), S) : TRUE
  BY FS_CardinalityType DEF ExistsBijection
<1>2. g \in [1..Cardinality(S) -> S] /\ IsInjective(g)
  BY <1>1 DEF Bijection, Injection, IsInjective
<1>. DEFINE f == SetToSeq(S)
<1>3. f \in [1..Cardinality(S) -> S] /\ IsInjective(f)
  BY <1>2 DEF SetToSeq
<1>. HIDE DEF f
<1>4. f \in Seq(S) /\ ToSet(f) = S
  BY <1>3, InjectiveCovers
<1>5. f = <<>> => S = {}
  BY <1>4, ToSetEmpty
<1>. QED  BY <1>3, <1>4, <1>5 DEF f

LEMMA SetToSeqsAre ==
  ASSUME NEW S, IsFiniteSet(S), NEW f \in SetToSeqs(S)
  PROVE  f \in Seq(S) /\ ToSet(f) = S
<1>1. f \in [1..Cardinality(S) -> S] /\ IsInjective(f)
  BY DEF SetToSeqs, IsInjective
<1>. QED  BY <1>1, InjectiveCovers

-----------------------------------------------------------------------------
(* The frontier: whom the graph shows the user to like enough is whom the   *)
(* catalogue does.                                                          *)

LEMMA TasteFinite ==
  \A ar : LikedOf(ar) \subseteq Liked /\ IsFiniteSet(LikedOf(ar)) /\ Cardinality(LikedOf(ar)) \in Nat
BY LikedTracks, FS_Subset, FS_CardinalityType DEF LikedOf

LEMMA EdgeIsCredit ==
  ASSUME NEW ar, NEW t \in Tracks
  PROVE  <<ar, t>> \in Edges <=> ar \in CreditsOf({t}) \cup CreatorsOf({AlbumOf[t]})
<1>1. <<ar, t>> \in CreditEdges(Tracks) <=> ar \in CreditsOf({t})
  BY DEF CreditEdges, CreditsOf
<1>2. <<ar, t>> \in AlbumArtistEdges(Tracks) <=> ar \in CreatorsOf({AlbumOf[t]})
  BY DEF AlbumArtistEdges, CreatorsOf
<1>3. <<ar, t>> \notin CreatorEdges(Albums)
  BY CatalogAssumption DEF CreatorEdges
<1>. QED  BY <1>1, <1>2, <1>3 DEF Edges

LEMMA SeedableIsTaste ==
  ASSUME graph \in Graphs
  PROVE  Seedable \subseteq Taste /\ IsFiniteSet(Seedable)
<1>0. graph.liked \subseteq LikedBy /\ graph.created \subseteq Edges
  BY DEF Graphs, Sound
<1>1. ASSUME NEW ar \in Seedable PROVE ar \in Taste
  <2>. DEFINE S == {t \in graph.liked : <<ar, t>> \in graph.created}
  <2>1. ar \in Artists /\ Cardinality(S) >= AffinityMin
    BY DEF Seedable, Affinity
  <2>2. S \subseteq LikedOf(ar)
    <3>1. ASSUME NEW t \in S PROVE t \in LikedOf(ar)
      <4>1. t \in Liked /\ t \in Tracks /\ <<ar, t>> \in Edges
        BY <1>0, LikedTracks DEF LikedBy
      <4>. QED  BY <4>1, EdgeIsCredit DEF LikedOf
    <3>. QED  BY <3>1
  <2>3. IsFiniteSet(S) /\ Cardinality(S) \in Nat /\ Cardinality(S) <= Cardinality(LikedOf(ar))
    <3>. HIDE DEF S
    <3>. QED  BY <2>2, TasteFinite, FS_Subset, FS_CardinalityType
  <2>4. config.user
    <3>1. ~config.user => S = {}
      BY <1>0 DEF LikedBy
    <3>2. Cardinality(S) # 0
      <4>. HIDE DEF S
      <4>. QED  BY <2>1, <2>3, Catalogue
    <3>. HIDE DEF S
    <3>. QED  BY <3>1, <3>2, FS_EmptySet
  <2>. HIDE DEF S
  <2>5. Cardinality(LikedOf(ar)) >= AffinityMin
    BY <2>1, <2>3, TasteFinite, Catalogue
  <2>. QED  BY <2>1, <2>4, <2>5 DEF Taste
<1>2. Seedable \subseteq Artists
  BY DEF Seedable
<1>. QED  BY <1>1, <1>2, Catalogue, FS_Subset

(* The seeds: one request for each artist of the taste the graph shows.     *)
LEMMA SeedsAre ==
  ASSUME TypeInv, NEW seeds \in DiscographySeeds
  PROVE  /\ seeds \in Seq(Messages)
         /\ config.discographies => \A ar \in Seedable : \E r \in ToSet(seeds) :
              r.url.endpoint = "artists/{id}/albums" /\ r.url.ids[1] = ar
<1>1. CASE ~config.discographies
  BY <1>1, EmptySeq DEF DiscographySeeds
<1>2. CASE config.discographies
  <2>1. PICK s \in SetToSeqs(Seedable) : seeds = Each("artists/{id}/albums", s, SeedDepth)
    BY <1>2 DEF DiscographySeeds
  <2>2. s \in Seq(Seedable) /\ ToSet(s) = Seedable
    BY SeedableIsTaste, SetToSeqsAre DEF TypeInv
  <2>. DEFINE f == [i \in DOMAIN s |-> Request(Url("artists/{id}/albums", <<s[i]>>, 1), SeedDepth)]
  <2>3. seeds = f /\ f = [i \in DOMAIN s |-> f[i]]
    BY <2>1 DEF Each
  <2>4. ASSUME NEW i \in DOMAIN s
        PROVE  /\ f[i] \in Messages
               /\ f[i].url.endpoint = "artists/{id}/albums" /\ f[i].url.ids[1] = s[i]
    <3>. DEFINE ar == s[i]
                one == <<ar>>
                u == Url("artists/{id}/albums", one, 1)
    <3>1. ar \in Taste /\ ar \in Artists
      BY <2>2, ListMembers, SeedableIsTaste DEF TypeInv, Taste
    <3>2. f[i] = Request(u, SeedDepth)
      OBVIOUS
    <3>. HIDE DEF ar, f
    <3>3. one \in Seq(Artists) /\ Len(one) = 1 /\ one[1] = ar /\ IsInjective(one)
      BY <3>1, OneOfList
    <3>. HIDE DEF one
    <3>4. "artists/{id}/albums" \in Endpoints /\ KindOf("artists/{id}/albums") = Artists
          /\ "artists/{id}/albums" \notin Several
      BY DEF Endpoints, KindOf, Several
    <3>5. u \in Resources
      BY <3>3, <3>4, FirstUrl
    <3>6. u.endpoint = "artists/{id}/albums" /\ u.ids = one
      BY DEF Url
    <3>. HIDE DEF u
    <3>7. Proper(u)
      BY <1>2, <3>1, <3>3, <3>4, <3>6 DEF Proper
    <3>8. SeedDepth \in Depths
      BY DepthsAre DEF TypeInv
    <3>9. f[i] \in Messages /\ f[i].url = u
      BY <3>2, <3>5, <3>7, <3>8, RequestIs
    <3>. QED  BY <3>3, <3>6, <3>9 DEF ar
  <2>. HIDE DEF f
  <2>5. seeds \in Seq(Messages) /\ ToSet(seeds) = {f[i] : i \in DOMAIN s}
    <3>1. s \in Seq(Seedable) /\ \A i \in DOMAIN s : f[i] \in Messages
      BY <2>2, <2>4
    <3>2. f = [i \in DOMAIN s |-> f[i]]
      BY <2>3
    <3>3. f \in Seq(Messages) /\ DOMAIN f = DOMAIN s
      BY <3>1, <3>2, ListMap
    <3>4. ToSet(f) = {f[i] : i \in DOMAIN s}
      BY <3>3 DEF ToSet
    <3>. QED  BY <2>3, <3>3, <3>4
  <2>6. ASSUME NEW ar \in Seedable
        PROVE  \E r \in ToSet(seeds) : r.url.endpoint = "artists/{id}/albums" /\ r.url.ids[1] = ar
    <3>1. PICK i \in DOMAIN s : s[i] = ar
      BY <2>2 DEF ToSet
    <3>2. f[i] \in ToSet(seeds)
      BY <2>5, <3>1
    <3>. QED  BY <2>4, <3>1, <3>2
  <2>. QED  BY <2>5, <2>6
<1>. QED  BY <1>1, <1>2

-----------------------------------------------------------------------------
(* The type invariant, and what follows from it.                           *)

LEMMA SameConfiguration ==
  ASSUME config' = config
  PROVE  Messages' = Messages /\ Graphs' = Graphs
<1>1. Depths' = Depths
  BY DEF Depths
<1>2. Taste' = Taste /\ LikedBy' = LikedBy
  BY DEF Taste, LikedOf, Liked, LikedBy
<1>3. \A u : Proper(u)' <=> Proper(u)
  BY <1>2 DEF Proper
<1>4. \A g : Sound(g)' <=> Sound(g)
  BY <1>2 DEF Sound
<1>. QED  BY <1>1, <1>3, <1>4 DEF Messages, Graphs

LEMMA PublishIs ==
  ASSUME crawled \subseteq Messages, NEW queue \in Seq(Messages), NEW reqs \in Seq(Messages),
         Publish(queue, reqs)
  PROVE  /\ requests' \in Seq(Messages) /\ ToSet(requests') = ToSet(queue) \cup (ToSet(reqs) \ crawled)
         /\ crawled' \subseteq Messages /\ crawled' = crawled \cup ToSet(reqs)
<1>1. /\ Fresh(reqs) \in Seq(Messages) /\ ToSet(Fresh(reqs)) = ToSet(reqs) \ crawled
  BY FirstsOutsideIs DEF Fresh
<1>2. requests' = queue \o Fresh(reqs) /\ crawled' = crawled \cup ToSet(reqs)
  BY DEF Publish
<1>3. ToSet(reqs) \subseteq Messages
  BY ToSetType
<1>. QED  BY <1>1, <1>2, <1>3, ConcatProperties, ToSetConcat

LEMMA TypeInit == Init => TypeInv
<1>. SUFFICES ASSUME Init PROVE TypeInv
  OBVIOUS
<1>1. graph \in Graphs
  <2>. DEFINE g == [nodes |-> {}, complete |-> {}, liked |-> {}, created |-> {}, contains |-> {}]
  <2>1. /\ g.nodes = {} /\ g.complete = {} /\ g.liked = {} /\ g.created = {} /\ g.contains = {}
        /\ g \in [nodes : SUBSET Ids, complete : SUBSET Ids, liked : SUBSET Ids,
                  created : SUBSET (Ids \X Ids), contains : SUBSET (Ids \X Ids)]
    OBVIOUS
  <2>2. graph = g
    BY DEF Init
  <2>. HIDE DEF g
  <2>3. g \in Graphs
    BY <2>1 DEF Graphs, Sound
  <2>. QED  BY <2>2, <2>3
<1>2. /\ config \in Configurations /\ crawled = {} /\ lost = {} /\ requests = <<>>
      /\ stores = <<>> /\ follows = <<>> /\ runs = 0 /\ backfill = NoBackfill
  BY DEF Init
<1>3. runs \in 0..MaxSeedRuns
  BY <1>2, Catalogue
<1>. QED  BY <1>1, <1>2, <1>3, EmptySeq DEF TypeInv

LEMMA LikedSongsAre ==
  ASSUME config \in Configurations
  PROVE  /\ Request(Url("me/tracks", <<>>, 1), config.depth) \in Messages
         /\ Request(Url("me/playlists", <<>>, 1), config.depth) \in Messages
<1>1. ASSUME NEW endpoint \in {"me/tracks", "me/playlists"}
      PROVE  Request(Url(endpoint, <<>>, 1), config.depth) \in Messages
  <2>. DEFINE e == <<>>
              u == Url(endpoint, e, 1)
  <2>1. e \in Seq(KindOf(endpoint)) /\ IsInjective(e)
    BY EmptySeq DEF IsInjective
  <2>2. endpoint \in Endpoints /\ endpoint \notin One /\ endpoint \notin Several
        /\ endpoint # "artists/{id}/albums"
    BY DEF Endpoints, One, Single, Several, Unmapped
  <2>. HIDE DEF e
  <2>3. u \in Resources
    BY <2>1, <2>2, FirstUrl
  <2>4. Proper(u)
    BY <2>1, <2>2 DEF Proper, Url
  <2>. HIDE DEF u
  <2>5. Request(u, config.depth) \in Messages
    BY <2>3, <2>4, RequestIs, DepthsAre
  <2>. QED  BY <2>5 DEF u, e
<1>. QED  BY <1>1

LEMMA NextPageIs ==
  ASSUME NEW r \in Messages, HasNext(r.url)
  PROVE  Request(NextPage(r.url), r.depth) \in Messages
<1>. DEFINE u == r.url
            v == NextPage(u)
<1>1. u \in Resources /\ Proper(u) /\ r.depth \in Depths
  BY DEF Messages
<1>. HIDE DEF u
<1>2. /\ v.endpoint = u.endpoint /\ v.ids = u.ids /\ v.page = u.page + 1
      /\ v = [endpoint |-> v.endpoint, ids |-> v.ids, page |-> v.page]
  BY <1>1, Url_Is DEF NextPage
<1>3. u.page < Len(Pages(u))
  BY DEF HasNext, u
<1>. HIDE DEF v
<1>4. Pages(v) = Pages(u)
  BY <1>2 DEF Pages
<1>5. Pages(u) # <<>> => \E T : Pages(u) \in Seq(T)
  <2>1. CASE u.endpoint = "me/tracks"
    BY <2>1, FirstPage DEF Pages
  <2>2. CASE u.endpoint = "albums/{id}/tracks"
    <3>1. u.ids[1] \in Albums
      BY <1>1, <2>2, Url_Is DEF One, KindOf
    <3>. QED  BY <2>2, <3>1, FirstPage DEF Pages
  <2>3. CASE u.endpoint = "artists/{id}/albums"
    <3>1. u.ids[1] \in Artists
      BY <1>1, <2>3, Url_Is DEF One, KindOf
    <3>. QED  BY <2>3, <3>1, FirstPage DEF Pages
  <2>4. CASE u.endpoint \notin {"me/tracks", "artists/{id}/albums", "albums/{id}/tracks"}
    BY <2>4 DEF Pages
  <2>. QED  BY <2>1, <2>2, <2>3, <2>4
<1>6. Pages(u) = <<>> => Len(Pages(u)) = 0
  BY EmptySeq
<1>7. u.page \in Nat \ {0}
  BY <1>1, Url_Is
<1>8. v.page \in DOMAIN Pages(v) /\ v.page \in Nat \ {0}
  <2>1. PICK T : Pages(u) \in Seq(T)
    BY <1>3, <1>5, <1>6, <1>7
  <2>2. DOMAIN Pages(u) = 1..Len(Pages(u)) /\ Len(Pages(u)) \in Nat
    BY <2>1, LenProperties
  <2>3. v.page \in 1..Len(Pages(u))
    BY <1>2, <1>3, <1>7, <2>2
  <2>. QED  BY <1>4, <2>2, <2>3
<1>9. v \in Resources
  <2>1. /\ u.endpoint \in Endpoints /\ u.ids \in Seq(Ids) /\ u.ids \in Seq(KindOf(u.endpoint))
        /\ u.endpoint \in One => Len(u.ids) = 1
    BY <1>1 DEF Resources
  <2>2. v \in [endpoint : Endpoints, ids : Seq(Ids), page : Nat \ {0}]
    BY <1>2, <1>8, <2>1
  <2>. QED  BY <1>2, <1>8, <2>1, <2>2 DEF Resources
<1>10. Proper(v)
  BY <1>1, <1>2 DEF Proper
<1>11. Request(v, r.depth) \in Messages
  BY <1>1, <1>9, <1>10, RequestIs
<1>. QED  BY <1>11 DEF v, u

LEMMA SeedTyped ==
  ASSUME TypeInv, Seed
  PROVE  TypeInv'
<1>1. Messages' = Messages /\ Graphs' = Graphs
  BY SameConfiguration DEF Seed
<1>2. PICK seeds \in DiscographySeeds :
        Publish(requests, <<Request(Url("me/tracks", <<>>, 1), config.depth),
                            Request(Url("me/playlists", <<>>, 1), config.depth)>> \o seeds)
  BY DEF Seed
<1>. DEFINE a == Request(Url("me/tracks", <<>>, 1), config.depth)
            b == Request(Url("me/playlists", <<>>, 1), config.depth)
            reqs == <<a, b>> \o seeds
<1>3. a \in Messages /\ b \in Messages
  BY LikedSongsAre DEF TypeInv
<1>4. seeds \in Seq(Messages)
  BY SeedsAre
<1>5. Publish(requests, reqs)
  BY <1>2
<1>. HIDE DEF a, b
<1>6. <<a, b>> \in Seq(Messages)
  BY <1>3
<1>7. reqs \in Seq(Messages)
  <2>. DEFINE ab == <<a, b>>
  <2>. HIDE DEF ab
  <2>1. ab \in Seq(Messages)
    BY <1>6 DEF ab
  <2>2. ab \o seeds \in Seq(Messages)
    BY <1>4, <2>1, ConcatProperties
  <2>. QED  BY <2>2 DEF ab
<1>. HIDE DEF reqs
<1>8. requests' \in Seq(Messages) /\ crawled' \subseteq Messages
  BY <1>5, <1>7, PublishIs DEF TypeInv
<1>9. runs' \in 0..MaxSeedRuns
  BY Catalogue DEF Seed, TypeInv
<1>10. UNCHANGED <<config, stores, follows, graph, lost, backfill>>
  BY DEF Seed, backfilling
<1>. QED  BY <1>1, <1>8, <1>9, <1>10 DEF TypeInv

LEMMA EngineTyped ==
  ASSUME TypeInv, Engine_Fetch
  PROVE  TypeInv'
<1>1. Messages' = Messages /\ Graphs' = Graphs
  BY SameConfiguration DEF Engine_Fetch
<1>2. Head(requests) \in Messages /\ Tail(requests) \in Seq(Messages)
  BY HeadAndTail DEF TypeInv, Engine_Fetch
<1>. DEFINE req == Head(requests)
            next == IF HasNext(req.url) THEN <<Request(NextPage(req.url), req.depth)>> ELSE <<>>
<1>3. UNCHANGED <<config, graph, runs, lost, backfill>>
  BY DEF Engine_Fetch, backfilling
<1>4. CASE requests' = Tail(requests) /\ crawled' = crawled \ {req} /\ UNCHANGED <<stores, follows>>
  BY <1>1, <1>2, <1>3, <1>4 DEF TypeInv
<1>5. CASE Publish(Tail(requests), next) /\ stores' = Append(stores, req) /\ follows' = Append(follows, req)
  <2>. HIDE DEF req
  <2>1. req \in Messages
    BY <1>2 DEF req
  <2>2. next \in Seq(Messages)
    BY <2>1, NextPageIs, OneOfList, EmptySeq
  <2>. HIDE DEF next
  <2>3. requests' \in Seq(Messages) /\ crawled' \subseteq Messages
    BY <1>2, <1>5, <2>2, PublishIs DEF TypeInv
  <2>4. stores' \in Seq(Messages) /\ follows' \in Seq(Messages)
    BY <1>5, <2>1, AppendProperties DEF TypeInv
  <2>. QED  BY <1>1, <1>3, <2>3, <2>4 DEF TypeInv
<1>. QED  BY <1>4, <1>5 DEF Engine_Fetch

LEMMA MergeAbove ==
  ASSUME NEW g, NEW h \in Above(g), NEW w \in Inserts
  PROVE  Merge(h, w) \in Above(g)
<1>1. h \in Graphs
  BY DEF Above
<1>2. /\ Merge(h, w).nodes = h.nodes \cup w.nodes /\ Merge(h, w).liked = h.liked \cup w.liked
      /\ Merge(h, w).complete = h.complete \cup w.always \cup (w.ifNew \ h.nodes)
      /\ Merge(h, w).created = h.created \cup w.created
      /\ Merge(h, w).contains = h.contains \cup w.contains
  BY DEF Merge
<1>. QED  BY <1>1, <1>2, MergeKeeps DEF Above

LEMMA WrittenIs ==
  ASSUME NEW g \in Graphs, NEW u \in Resources
  PROVE  /\ Written(g, Writes(u)) \in Above(g)
         /\ \A i \in DOMAIN Writes(u) : Written(g, SubSeq(Writes(u), 1, i - 1)) \in Above(g)
<1>0. g \in Above(g)
  BY DEF Above
<1>1. \A h \in Above(g), w \in Inserts : Merge(h, w) \in Above(g)
  BY MergeAbove
<1>2. Writes(u) \in Seq(Inserts)
  BY WritesAre
<1>. DEFINE writes == Writes(u)
<1>. HIDE DEF writes
<1>3. ASSUME NEW i \in DOMAIN writes PROVE SubSeq(writes, 1, i - 1) \in Seq(Inserts)
  <2>1. Len(writes) \in Nat /\ DOMAIN writes = 1..Len(writes) /\ \A j \in 1..Len(writes) : writes[j] \in Inserts
    BY <1>2, LenProperties, ElementOfSeq DEF writes
  <2>2. i - 1 \in Int /\ 1 \in Int /\ \A j \in 1..(i - 1) : writes[j] \in Inserts
    BY <2>1
  <2>. QED  BY <2>2, SubSeqProperties
<1>4. Written(g, writes) \in Above(g)
  BY <1>0, <1>1, <1>2, WrittenKeeps DEF writes
<1>5. ASSUME NEW i \in DOMAIN writes PROVE Written(g, SubSeq(writes, 1, i - 1)) \in Above(g)
  <2>. DEFINE part == SubSeq(writes, 1, i - 1)
  <2>1. part \in Seq(Inserts)
    BY <1>3
  <2>. HIDE DEF part
  <2>2. Written(g, part) \in Above(g)
    BY <1>0, <1>1, <2>1, WrittenKeeps
  <2>. QED  BY <2>2 DEF part
<1>. QED  BY <1>4, <1>5 DEF writes

LEMMA StoreTyped ==
  ASSUME TypeInv, Worker_Store \/ Worker_StoreFails
  PROVE  TypeInv'
<1>1. config' = config /\ UNCHANGED <<crawled, requests, follows, runs, backfill>>
  BY DEF Worker_Store, Worker_StoreFails, backfilling
<1>2. Messages' = Messages /\ Graphs' = Graphs
  BY <1>1, SameConfiguration
<1>3. Head(stores) \in Messages /\ Tail(stores) \in Seq(Messages) /\ stores' = Tail(stores)
  BY HeadAndTail DEF TypeInv, Worker_Store, Worker_StoreFails
<1>4. Head(stores).url \in Resources
  BY <1>3 DEF Messages
<1>5. graph' \in Graphs
  BY <1>4, WrittenIs DEF TypeInv, Above, Worker_Store, Worker_StoreFails
<1>6. lost' \subseteq Messages
  BY <1>3 DEF TypeInv, Worker_Store, Worker_StoreFails
<1>. QED  BY <1>1, <1>2, <1>3, <1>5, <1>6 DEF TypeInv

LEMMA FollowTyped ==
  ASSUME TypeInv, Worker_FollowLinks
  PROVE  TypeInv'
<1>1. Messages' = Messages /\ Graphs' = Graphs
  BY SameConfiguration DEF Worker_FollowLinks
<1>2. Head(follows) \in Messages /\ Tail(follows) \in Seq(Messages) /\ follows' = Tail(follows)
  BY HeadAndTail DEF TypeInv, Worker_FollowLinks
<1>3. FollowLinks(Head(follows)) \in Seq(Messages)
  BY <1>2, FollowLinksAre DEF TypeInv
<1>4. requests' \in Seq(Messages) /\ crawled' \subseteq Messages
  BY <1>3, PublishIs DEF TypeInv, Worker_FollowLinks
<1>5. UNCHANGED <<config, stores, graph, runs, lost, backfill>>
  BY DEF Worker_FollowLinks, backfilling
<1>. QED  BY <1>1, <1>2, <1>4, <1>5 DEF TypeInv


LEMMA ReadTyped ==
  ASSUME TypeInv, NEW endpoint \in {"tracks?ids", "artists?ids"}, Backfill_Read(endpoint)
  PROVE  TypeInv'
<1>1. config' = config /\ UNCHANGED <<crawled, requests, stores, follows, runs, lost, graph>>
  BY DEF Backfill_Read, crawl
<1>2. Messages' = Messages /\ Graphs' = Graphs
  BY <1>1, SameConfiguration
<1>. DEFINE S == Missing(endpoint)
            ids == SetToSeq(S)
            todo == Chunked(ids, BatchSize)
            K == KindOf(endpoint)
<1>3. S \subseteq K /\ IsFiniteSet(S) /\ S # {}
  <2>1. S \subseteq K
    BY DEF Missing, KindOf
  <2>2. K = Tracks \/ K = Artists
    BY DEF KindOf
  <2>. HIDE DEF S, K
  <2>3. IsFiniteSet(S)
    BY <2>1, <2>2, Catalogue, FS_Subset
  <2>4. S # {}
    BY DEF Backfill_Read, S
  <2>. QED  BY <2>1, <2>3, <2>4
<1>4. backfill' = [NoBackfill EXCEPT !.endpoint = endpoint, !.todo = todo]
  BY DEF Backfill_Read
<1>5. K \subseteq Ids
  BY KindsAreIds
<1>. HIDE DEF S, K
<1>6. ids \in Seq(K) /\ ids # <<>>
  BY <1>3, SetToSeqIs, SeqWiden
<1>. HIDE DEF ids
<1>7. /\ todo \in Seq(Seq(K)) /\ todo # <<>> /\ DOMAIN todo = 1..Len(todo) /\ Len(todo) \in Nat
      /\ \A c \in DOMAIN todo : todo[c] \in Seq(K) /\ Len(todo[c]) \in 1..BatchSize
  BY <1>6, ChunkedIs, ChunkIs, LenProperties, Catalogue
<1>. HIDE DEF todo
<1>8. todo \in Seq(Batches(K)) /\ todo \in Seq(Seq(Ids))
  <2>1. \A c \in DOMAIN todo : todo[c] \in Batches(K)
    BY <1>7 DEF Batches
  <2>2. Seq(K) \subseteq Seq(Ids)
    BY <1>5, SeqWiden
  <2>. DEFINE C == Seq(K)
              D == Batches(K)
  <2>3. todo \in Seq(C) /\ \A c \in DOMAIN todo : todo[c] \in D
    BY <1>7, <2>1
  <2>4. todo = [c \in DOMAIN todo |-> todo[c]]
    BY <1>7, LenProperties
  <2>5. todo \in Seq(Batches(K))
    <3>. HIDE DEF C, D
    <3>1. todo \in Seq(D)
      BY <2>3, <2>4, ListMap
    <3>. QED  BY <3>1 DEF D
  <2>6. todo \in Seq(Seq(Ids))
    BY <1>7, <2>2, SeqWiden
  <2>. QED  BY <2>5, <2>6
<1>9. backfill' = [endpoint |-> endpoint, todo |-> todo, n429 |-> 0, n500 |-> 0]
  BY <1>4 DEF NoBackfill
<1>10. 0 \in 0..(MaxErrors - 1)
  BY Catalogue
<1>11. backfill' \in Backfills
  <2>. DEFINE b == [endpoint |-> endpoint, todo |-> todo, n429 |-> 0, n500 |-> 0]
  <2>1. b \in [endpoint : {"tracks?ids", "artists?ids"}, todo : Seq(Seq(Ids)),
               n429 : 0..(MaxErrors - 1), n500 : 0..(MaxErrors - 1)]
    BY <1>8, <1>10
  <2>2. b.todo = todo /\ b.endpoint = endpoint
    OBVIOUS
  <2>. HIDE DEF b
  <2>3. b \in Backfills
    BY <1>7, <1>8, <2>1, <2>2 DEF Backfills, K
  <2>. QED  BY <1>9, <2>3 DEF b
<1>. QED  BY <1>1, <1>2, <1>11 DEF TypeInv

LEMMA BackfillIs ==
  ASSUME TypeInv, backfill # NoBackfill
  PROVE  /\ backfill \in Backfills
         /\ backfill.endpoint \in {"tracks?ids", "artists?ids"}
         /\ backfill.n429 \in 0..(MaxErrors - 1) /\ backfill.n500 \in 0..(MaxErrors - 1)
         /\ backfill.todo # <<>> /\ backfill.todo \in Seq(Batches(KindOf(backfill.endpoint)))
         /\ backfill.todo \in Seq(Seq(Ids))
         /\ backfill = [endpoint |-> backfill.endpoint, todo |-> backfill.todo,
                        n429 |-> backfill.n429, n500 |-> backfill.n500]
<1>1. backfill \in Backfills
  BY DEF TypeInv
<1>. QED  BY <1>1 DEF Backfills

LEMMA BackfillMade ==
  ASSUME NEW e \in {"tracks?ids", "artists?ids"}, NEW todo \in Seq(Seq(Ids)), todo # <<>>,
         todo \in Seq(Batches(KindOf(e))),
         NEW m \in 0..(MaxErrors - 1), NEW n \in 0..(MaxErrors - 1)
  PROVE  [endpoint |-> e, todo |-> todo, n429 |-> m, n500 |-> n] \in Backfills
<1>. DEFINE b == [endpoint |-> e, todo |-> todo, n429 |-> m, n500 |-> n]
<1>1. b \in [endpoint : {"tracks?ids", "artists?ids"}, todo : Seq(Seq(Ids)),
             n429 : 0..(MaxErrors - 1), n500 : 0..(MaxErrors - 1)]
  OBVIOUS
<1>2. b.todo = todo /\ b.endpoint = e
  OBVIOUS
<1>. HIDE DEF b
<1>3. b \in Backfills
  BY <1>1, <1>2 DEF Backfills
<1>. QED  BY <1>3 DEF b

(* A backfill moves on to its next batch with its errors forgotten.         *)
LEMMA NextBatchIs ==
  ASSUME NEW e, NEW rest, NEW b, b = [NoBackfill EXCEPT !.endpoint = e, !.todo = rest]
  PROVE  b = [endpoint |-> e, todo |-> rest, n429 |-> 0, n500 |-> 0]
BY DEF NoBackfill

LEMMA TailIsNonempty ==
  ASSUME NEW T, NEW s \in Seq(T), s # <<>>, Len(s) # 1
  PROVE  Tail(s) # <<>>
<1>1. Len(Tail(s)) = Len(s) - 1 /\ Len(s) \in Nat
  BY HeadTailProperties, LenProperties
<1>2. Len(Tail(s)) # 0
  BY <1>1
<1>. DEFINE t == Tail(s)
<1>3. t \in Seq(T)
  BY HeadTailProperties
<1>4. Len(t) # 0
  BY <1>2
<1>. HIDE DEF t
<1>5. t # <<>>
  BY <1>3, <1>4, EmptySeq
<1>. QED  BY <1>5 DEF t

LEMMA BatchTyped ==
  ASSUME TypeInv, Backfill_Batch
  PROVE  TypeInv'
<1>1. config' = config /\ UNCHANGED <<crawled, requests, stores, follows, runs, lost>>
  BY DEF Backfill_Batch, crawl
<1>2. Messages' = Messages /\ Graphs' = Graphs
  BY <1>1, SameConfiguration
<1>. DEFINE e == backfill.endpoint
            todo == backfill.todo
            u == Url(e, Head(todo), 1)
<1>3. /\ backfill \in Backfills /\ e \in {"tracks?ids", "artists?ids"}
      /\ todo # <<>> /\ todo \in Seq(Batches(KindOf(e))) /\ todo \in Seq(Seq(Ids))
  BY BackfillIs DEF Backfill_Batch
<1>4. /\ Head(todo) \in Seq(KindOf(e)) /\ Len(Head(todo)) \in 1..BatchSize
      /\ Tail(todo) \in Seq(Batches(KindOf(e))) /\ Tail(todo) \in Seq(Seq(Ids))
      /\ Len(Tail(todo)) = Len(todo) - 1 /\ Len(todo) \in Nat
  <2>. HIDE DEF todo, e
  <2>. QED  BY <1>3, HeadAndTail, LenProperties DEF Batches
<1>5. graph' \in Graphs
  <2>1. graph' = Written(graph, Writes(u))
    BY DEF Backfill_Batch
  <2>2. e \in Endpoints /\ e \notin One
    BY <1>3 DEF Endpoints, One, Single, Several
  <2>. HIDE DEF e, todo
  <2>3. u \in Resources
    BY <1>4, <2>2, FirstUrl
  <2>. HIDE DEF u
  <2>. QED  BY <2>1, <2>3, WrittenIs DEF TypeInv, Above
<1>6. backfill' \in Backfills \cup {NoBackfill}
  <2>1. backfill' = IF Len(todo) = 1 THEN NoBackfill
                    ELSE [NoBackfill EXCEPT !.endpoint = e, !.todo = Tail(todo)]
    BY DEF Backfill_Batch
  <2>. DEFINE rest == Tail(todo)
  <2>. HIDE DEF e, todo, rest
  <2>2. Len(todo) # 1 => backfill' = [endpoint |-> e, todo |-> rest, n429 |-> 0, n500 |-> 0]
    <3>1. Len(todo) # 1 => backfill' = [NoBackfill EXCEPT !.endpoint = e, !.todo = rest]
      BY <2>1 DEF rest
    <3>. QED  BY <3>1, NextBatchIs
  <2>4. Len(todo) # 1 => Tail(todo) # <<>>
    BY <1>3, TailIsNonempty
  <2>5. 0 \in 0..(MaxErrors - 1)
    BY Catalogue
  <2>6. rest \in Seq(Seq(Ids)) /\ rest \in Seq(Batches(KindOf(e))) /\ (Len(todo) # 1 => rest # <<>>)
    BY <1>4, <2>4 DEF rest
  <2>7. Len(todo) # 1 => [endpoint |-> e, todo |-> rest, n429 |-> 0, n500 |-> 0] \in Backfills
    BY <1>3, <2>5, <2>6, BackfillMade
  <2>. QED  BY <2>1, <2>2, <2>7 DEF rest
<1>. QED  BY <1>1, <1>2, <1>5, <1>6 DEF TypeInv

LEMMA RetryTyped ==
  ASSUME TypeInv, Backfill_Retry
  PROVE  TypeInv'
<1>1. config' = config /\ UNCHANGED <<crawled, requests, stores, follows, runs, lost, graph>>
  BY DEF Backfill_Retry, crawl
<1>2. Messages' = Messages /\ Graphs' = Graphs
  BY <1>1, SameConfiguration
<1>. DEFINE e == backfill.endpoint
            todo == backfill.todo
            m == backfill.n429
            n == backfill.n500
<1>3. /\ e \in {"tracks?ids", "artists?ids"} /\ todo # <<>> /\ todo \in Seq(Batches(KindOf(e)))
      /\ todo \in Seq(Seq(Ids)) /\ m \in 0..(MaxErrors - 1) /\ n \in 0..(MaxErrors - 1)
      /\ backfill = [endpoint |-> e, todo |-> todo, n429 |-> m, n500 |-> n]
  BY BackfillIs DEF Backfill_Retry
<1>4. PICK errors \in {[backfill EXCEPT !.n429 = @ + 1], [backfill EXCEPT !.n500 = @ + 1]} :
        backfill' = IF errors.n429 >= MaxErrors \/ errors.n500 >= MaxErrors THEN NoBackfill ELSE errors
  BY DEF Backfill_Retry
<1>. HIDE DEF e, todo, m, n
<1>5. \/ errors = [endpoint |-> e, todo |-> todo, n429 |-> m + 1, n500 |-> n]
      \/ errors = [endpoint |-> e, todo |-> todo, n429 |-> m, n500 |-> n + 1]
  BY <1>3, <1>4
<1>6. PICK a \in Nat, b \in Nat : errors = [endpoint |-> e, todo |-> todo, n429 |-> a, n500 |-> b]
  BY <1>3, <1>5
<1>7. CASE a >= MaxErrors \/ b >= MaxErrors
  <2>1. backfill' = NoBackfill
    BY <1>4, <1>6, <1>7
  <2>. QED  BY <1>1, <1>2, <2>1 DEF TypeInv
<1>8. CASE ~(a >= MaxErrors \/ b >= MaxErrors)
  <2>1. a \in 0..(MaxErrors - 1) /\ b \in 0..(MaxErrors - 1)
    BY <1>8, Catalogue
  <2>2. backfill' = errors
    BY <1>4, <1>6, <1>8
  <2>3. backfill' \in Backfills
    BY <1>3, <1>6, <2>1, <2>2, BackfillMade
  <2>. QED  BY <1>1, <1>2, <2>3 DEF TypeInv
<1>. QED  BY <1>7, <1>8

LEMMA TypeStep == TypeInv /\ [Next]_vars => TypeInv'
<1>. SUFFICES ASSUME TypeInv, [Next]_vars PROVE TypeInv'
  OBVIOUS
<1>1. CASE Seed
  BY <1>1, SeedTyped
<1>2. CASE Engine_Fetch
  BY <1>2, EngineTyped
<1>3. CASE Worker_Store \/ Worker_StoreFails
  BY <1>3, StoreTyped
<1>4. CASE Worker_FollowLinks
  BY <1>4, FollowTyped
<1>5. CASE \E endpoint \in {"tracks?ids", "artists?ids"} : Backfill_Read(endpoint)
  BY <1>5, ReadTyped
<1>6. CASE Backfill_Batch
  BY <1>6, BatchTyped
<1>7. CASE Backfill_Retry
  BY <1>7, RetryTyped
<1>8. CASE Backfill_Abort
  <2>1. config' = config /\ UNCHANGED <<crawled, requests, stores, follows, runs, lost, graph>>
        /\ backfill' = NoBackfill
    BY <1>8 DEF Backfill_Abort, crawl
  <2>. QED  BY <2>1, SameConfiguration DEF TypeInv
<1>9. CASE UNCHANGED vars
  <2>1. config' = config /\ UNCHANGED <<crawled, requests, stores, follows, runs, lost, graph, backfill>>
    BY <1>9 DEF vars, crawl, backfilling
  <2>. QED  BY <2>1, SameConfiguration DEF TypeInv
<1>. QED  BY <1>1, <1>2, <1>3, <1>4, <1>5, <1>6, <1>7, <1>8, <1>9 DEF Next, Backfill

LEMMA TypeAlways == Spec => []TypeInv
BY TypeInit, TypeStep, PTL DEF Spec

LEMMA TypesHold == TypeInv => TypeOK
<1>. SUFFICES ASSUME TypeInv PROVE TypeOK
  OBVIOUS
<1>1. ASSUME NEW r \in crawled \cup ToSet(requests) \cup ToSet(stores) \cup ToSet(follows) \cup lost
      PROVE  /\ ToSet(r.url.ids) \subseteq Ids
             /\ IsInjective(r.url.ids)
             /\ r.depth \in 0..Max({config.depth, SeedDepth})
             /\ r.url.endpoint \in Several => Len(r.url.ids) \in 1..BatchIdLimits[r.url.endpoint]
             /\ r.url.endpoint \in Unmapped \/ Pages(r.url) = <<>> \/ r.url.page \in DOMAIN Pages(r.url)
  <2>1. r \in Messages
    BY ToSetType DEF TypeInv
  <2>2. r.url \in Resources /\ r.depth \in Depths /\ Proper(r.url)
    BY <2>1 DEF Messages
  <2>3. r.url.ids \in Seq(Ids) /\ (Pages(r.url) = <<>> \/ r.url.page \in DOMAIN Pages(r.url))
    BY <2>2 DEF Resources
  <2>. QED  BY <2>2, <2>3, ToSetType DEF Proper, Depths
<1>2. /\ graph.nodes \subseteq Ids /\ graph.complete \subseteq graph.nodes
      /\ graph.liked \subseteq graph.nodes /\ graph.created \subseteq Edges \cap (graph.nodes \X graph.nodes)
      /\ graph.contains \subseteq (Albums \X Tracks) \cap (graph.nodes \X graph.nodes)
  BY DEF TypeInv, Graphs, Sound
<1>3. Edges \subseteq Artists \X (Tracks \cup Albums)
  <2>1. /\ CreditEdges(Tracks) \subseteq CreditsOf(Tracks) \X Tracks
        /\ AlbumArtistEdges(Tracks) \subseteq CreatorsOf({AlbumOf[t] : t \in Tracks}) \X Tracks
    BY CreditEdgesAre
  <2>2. CreatorEdges(Albums) \subseteq CreatorsOf(Albums) \X Albums
    BY CreatorEdgesAre
  <2>3. CreditsOf(Tracks) \subseteq Artists /\ CreatorsOf(Albums) \subseteq Artists
        /\ CreatorsOf({AlbumOf[t] : t \in Tracks}) \subseteq Artists
    <3>1. {AlbumOf[t] : t \in Tracks} \in SUBSET Albums
      BY Catalogue
    <3>. QED  BY <3>1, CreditsAre
  <2>. QED  BY <2>1, <2>2, <2>3 DEF Edges
<1>4. graph.created \subseteq (Artists \X (Tracks \cup Albums)) \cap (graph.nodes \X graph.nodes)
  BY <1>2, <1>3
<1>5. /\ backfill.n429 \in 0..(MaxErrors - 1) /\ backfill.n500 \in 0..(MaxErrors - 1)
      /\ \A i \in DOMAIN backfill.todo : Len(backfill.todo[i]) \in 1..BatchSize
  <2>1. CASE backfill = NoBackfill
    <3>1. backfill.n429 = 0 /\ backfill.n500 = 0 /\ backfill.todo = <<>>
      BY <2>1 DEF NoBackfill
    <3>2. DOMAIN backfill.todo = {} /\ 0 \in 0..(MaxErrors - 1)
      BY <3>1, Catalogue, EmptySeq
    <3>. QED  BY <3>1, <3>2
  <2>2. CASE backfill # NoBackfill
    <3>1. backfill.todo \in Seq(Batches(KindOf(backfill.endpoint)))
      BY <2>2, BackfillIs
    <3>2. \A i \in DOMAIN backfill.todo : backfill.todo[i] \in Batches(KindOf(backfill.endpoint))
      BY <3>1, ListMembers
    <3>. QED  BY <2>2, <3>2, BackfillIs DEF Batches
  <2>. QED  BY <2>1, <2>2
<1>. QED  BY <1>1, <1>2, <1>4, <1>5 DEF TypeOK, TypeInv

(* Types: whatever the catalogue, the configuration and the caps, no        *)
(* request repeats an id or exceeds the cap of its endpoint, every queue    *)
(* holds requests for pages that exist at depths the chain reaches, and no  *)
(* edge of the graph lacks an end.                                          *)
THEOREM CatalogTypes == Spec => []TypeOK
BY TypeAlways, TypesHold, PTL

(* The invariant albums_of_artist.py relies on: only an artist with enough  *)
(* liked songs in the catalogue ever has its discography requested, however *)
(* far the graph has grown when the seeder runs again, and none at all      *)
(* outside a discography crawl.                                             *)
THEOREM FrontierIsUncrawled == Spec => []FrontierUncrawled
<1>1. TypeInv => FrontierUncrawled
  <2>. SUFFICES ASSUME TypeInv, NEW r \in crawled, r.url.endpoint = "artists/{id}/albums"
                PROVE  config.discographies /\ r.url.ids[1] \in Taste
    BY DEF FrontierUncrawled, Seeded
  <2>1. r \in Messages
    BY DEF TypeInv
  <2>. QED  BY <2>1 DEF Messages, Proper
<1>. QED  BY <1>1, TypeAlways, PTL

-----------------------------------------------------------------------------
(* What a sequence of transactions adds, from below and from above.         *)

(* The graph has what an insert writes.                                     *)
Holds(g, w) ==
  /\ w.nodes \subseteq g.nodes /\ w.always \subseteq g.complete /\ w.liked \subseteq g.liked
  /\ w.created \subseteq g.created /\ w.contains \subseteq g.contains

(* A graph has no more than another, payloads of albums aside: an insert    *)
(* that creates an album may set its payload, whatever else would.          *)
Under(g, b) ==
  /\ g.nodes \subseteq b.nodes /\ g.complete \subseteq b.complete \cup Albums
  /\ g.liked \subseteq b.liked /\ g.created \subseteq b.created /\ g.contains \subseteq b.contains

(* Every album has its payload, or will get it.                             *)
NoStubs(g, late) == g.nodes \cap Albums \subseteq g.complete \cup late

LEMMA MergeHolds ==
  ASSUME NEW g, NEW w
  PROVE  Holds(Merge(g, w), w) /\ \A v : Holds(g, v) => Holds(Merge(g, w), v)
BY DEF Merge, Holds

LEMMA WrittenHolds ==
  ASSUME NEW T, NEW s \in Seq(T), NEW g, NEW w \in ToSet(s)
  PROVE  Holds(Written(g, s), w)
<1>. DEFINE f == CHOOSE h : IsAfter(h, g, s)
<1>0. Len(s) \in Nat
  BY LenProperties
<1>1. IsAfter(f, g, s)
  BY AfterExists
<1>2. Written(g, s) = f[Len(s)]
  BY DEF Written, IsAfter
<1>3. PICK i \in 1..Len(s) : s[i] = w
  BY ListMembers DEF ToSet
<1>. DEFINE N == {n \in Nat : n \in i..Len(s) => Holds(f[n], w)}
<1>. HIDE DEF f
<1>4. 0 \in N
  OBVIOUS
<1>5. ASSUME NEW n \in N, n + 1 \in i..Len(s) PROVE Holds(f[n + 1], w)
  <2>1. n + 1 \in 1..Len(s) /\ n + 1 \in 0..Len(s) /\ (n + 1) - 1 = n /\ n + 1 # 0
    BY <1>0, <1>5
  <2>2. f[n + 1] = Merge(f[n], s[n + 1])
    BY <1>1, <2>1 DEF IsAfter
  <2>3. CASE n + 1 = i
    BY <1>3, <2>2, <2>3, MergeHolds
  <2>4. CASE n + 1 # i
    <3>1. n \in i..Len(s)
      BY <1>0, <1>5, <2>4
    <3>. QED  BY <2>2, <3>1, MergeHolds
  <2>. QED  BY <2>3, <2>4
<1>6. N = Nat
  <2>1. N \in SUBSET Nat /\ \A n \in N : n + 1 \in N
    BY <1>5
  <2>. HIDE DEF N
  <2>. QED  BY <1>4, <2>1, AllNaturals
<1>. QED  BY <1>0, <1>2, <1>6

LEMMA WrittenAbove ==
  ASSUME NEW g \in Graphs, NEW s \in Seq(Inserts)
  PROVE  Written(g, s) \in Above(g)
<1>1. g \in Above(g)
  BY DEF Above
<1>2. \A h \in Above(g), w \in Inserts : Merge(h, w) \in Above(g)
  BY MergeAbove
<1>. QED  BY <1>1, <1>2, WrittenKeeps

LEMMA SeqNarrow ==
  ASSUME NEW S, NEW s \in Seq(S), NEW T, ToSet(s) \subseteq T
  PROVE  s \in Seq(T)
<1>1. s \in Seq(ToSet(s))
  BY ToSetType
<1>. QED  BY <1>1, SeqWiden

LEMMA WrittenUnder ==
  ASSUME NEW g \in Graphs, NEW s \in Seq(Inserts), NEW b, Under(g, b),
         \A w \in ToSet(s) : Holds(b, w) /\ w.ifNew \subseteq Albums
  PROVE  Under(Written(g, s), b)
<1>. DEFINE T == {w \in Inserts : Holds(b, w) /\ w.ifNew \subseteq Albums}
            G == {h \in Graphs : Under(h, b)}
<1>1. s \in Seq(T)
  <2>1. ToSet(s) \subseteq T
    BY ToSetType
  <2>. HIDE DEF T
  <2>. QED  BY <2>1, SeqNarrow
<1>2. ASSUME NEW h \in G, NEW w \in T PROVE Merge(h, w) \in G
  <2>1. h \in Graphs /\ w \in Inserts /\ Merge(h, w) \in Graphs
    BY MergeKeeps
  <2>2. Under(Merge(h, w), b)
    BY DEF Under, Holds, Merge
  <2>. QED  BY <2>1, <2>2
<1>3. g \in G
  OBVIOUS
<1>4. Written(g, s) \in G
  <2>. HIDE DEF T, G
  <2>. QED  BY <1>1, <1>2, <1>3, WrittenKeeps
<1>. QED  BY <1>4

LEMMA WrittenNoStubs ==
  ASSUME NEW g \in Graphs, NEW s \in Seq(Inserts), NEW late, NoStubs(g, late),
         \A w \in ToSet(s) : w.nodes \cap Albums \subseteq w.always \cup w.ifNew \cup late
  PROVE  NoStubs(Written(g, s), late)
<1>. DEFINE T == {w \in Inserts : w.nodes \cap Albums \subseteq w.always \cup w.ifNew \cup late}
            G == {h \in Graphs : NoStubs(h, late)}
<1>1. s \in Seq(T)
  <2>1. ToSet(s) \subseteq T
    BY ToSetType
  <2>. HIDE DEF T
  <2>. QED  BY <2>1, SeqNarrow
<1>2. ASSUME NEW h \in G, NEW w \in T PROVE Merge(h, w) \in G
  <2>1. h \in Graphs /\ w \in Inserts /\ Merge(h, w) \in Graphs
    BY MergeKeeps
  <2>2. NoStubs(Merge(h, w), late)
    <3>1. h.nodes \cap Albums \subseteq h.complete \cup late
      BY DEF NoStubs
    <3>2. w.nodes \cap Albums \subseteq w.always \cup w.ifNew \cup late
      OBVIOUS
    <3>3. /\ Merge(h, w).nodes = h.nodes \cup w.nodes
          /\ Merge(h, w).complete = h.complete \cup w.always \cup (w.ifNew \ h.nodes)
      BY DEF Merge
    <3>. QED  BY <3>1, <3>2, <3>3 DEF NoStubs
  <2>. QED  BY <2>1, <2>2
<1>3. g \in G
  OBVIOUS
<1>4. Written(g, s) \in G
  <2>. HIDE DEF T, G
  <2>. QED  BY <1>1, <1>2, <1>3, WrittenKeeps
<1>. QED  BY <1>4

LEMMA WritesOfAre ==
  ASSUME NEW urls \in SUBSET Resources, IsFiniteSet(urls)
  PROVE  /\ WritesOf(urls) \in Seq(Inserts)
         /\ ToSet(WritesOf(urls)) = UNION {ToSet(Writes(u)) : u \in urls}
<1>. DEFINE l == SetToSeq(urls)
            n == Cardinality(urls)
            f == [i \in 1..n |-> Writes(l[i])]
<1>1. l \in Seq(urls) /\ ToSet(l) = urls /\ IsInjective(l)
  BY SetToSeqIs
<1>2. Len(l) = n /\ n \in Nat /\ DOMAIN l = 1..n
  BY <1>1, InjectiveLen, LenProperties
<1>3. WritesOf(urls) = FlattenSeq(f)
  BY DEF WritesOf
<1>. HIDE DEF l, n
<1>4. \A i \in 1..n : l[i] \in urls /\ f[i] = Writes(l[i]) /\ f[i] \in Seq(Inserts)
  BY <1>1, <1>2, ListMembers, WritesAre
<1>5. f = [i \in DOMAIN l |-> f[i]]
  BY <1>2
<1>. HIDE DEF f
<1>6. f \in Seq(Seq(Inserts)) /\ DOMAIN f = 1..n
  BY <1>1, <1>2, <1>4, <1>5, ListMap
<1>7. UNION {ToSet(f[i]) : i \in DOMAIN f} = UNION {ToSet(Writes(u)) : u \in urls}
  <2>1. \A u \in urls : \E i \in 1..n : l[i] = u
    BY <1>1, <1>2 DEF ToSet
  <2>. QED  BY <1>4, <1>6, <2>1
<1>. QED  BY <1>3, <1>6, <1>7, FlattenIs

-----------------------------------------------------------------------------
(* Of an endpoint, a set of requests asks for the ids S and no others, at   *)
(* one depth; and it is of no other endpoints than these.                   *)

Asks(Q, endpoint, S, depth) ==
  /\ \A q \in Q : q.url.endpoint = endpoint => q.depth = depth /\ ToSet(q.url.ids) \subseteq S
  /\ \A x \in S : \E q \in Q : q.url.endpoint = endpoint /\ q.depth = depth /\ x \in ToSet(q.url.ids)

Only(Q, endpoints) == \A q \in Q : q.url.endpoint \in endpoints

LEMMA AsksUnion ==
  ASSUME NEW D, NEW Q, NEW S, NEW R, NEW V, NEW endpoint, NEW depth,
         \A i \in D : Asks(Q[i], endpoint, S[i], depth) /\ S[i] \subseteq V /\ Q[i] \subseteq R,
         \A x \in V : \E i \in D : x \in S[i],
         \A q \in R : \E i \in D : q \in Q[i]
  PROVE  Asks(R, endpoint, V, depth)
<1>1. ASSUME NEW q \in R, q.url.endpoint = endpoint
      PROVE  q.depth = depth /\ ToSet(q.url.ids) \subseteq V
  BY <1>1 DEF Asks
<1>2. ASSUME NEW x \in V
      PROVE  \E q \in R : q.url.endpoint = endpoint /\ q.depth = depth /\ x \in ToSet(q.url.ids)
  <2>1. PICK i \in D : x \in S[i]
    OBVIOUS
  <2>2. PICK q \in Q[i] : q.url.endpoint = endpoint /\ q.depth = depth /\ x \in ToSet(q.url.ids)
    BY <2>1 DEF Asks
  <2>. QED  BY <2>2
<1>. QED  BY <1>1, <1>2 DEF Asks

LEMMA AsksBeside ==
  ASSUME NEW Q, NEW R, NEW endpoint, NEW S, NEW depth, NEW E,
         Asks(Q, endpoint, S, depth), Only(R, E), endpoint \notin E
  PROVE  Asks(Q \cup R, endpoint, S, depth) /\ Asks(R \cup Q, endpoint, S, depth)
<1>1. ASSUME NEW q \in Q \cup R, q.url.endpoint = endpoint
      PROVE  q.depth = depth /\ ToSet(q.url.ids) \subseteq S
  BY <1>1 DEF Asks, Only
<1>2. ASSUME NEW x \in S
      PROVE  \E q \in Q \cup R : q.url.endpoint = endpoint /\ q.depth = depth /\ x \in ToSet(q.url.ids)
  BY DEF Asks
<1>3. Q \cup R = R \cup Q
  OBVIOUS
<1>. QED  BY <1>1, <1>2, <1>3 DEF Asks

LEMMA OnlyBeside ==
  ASSUME NEW Q, NEW R, NEW E, NEW F, Only(Q, E), Only(R, F)
  PROVE  Only(Q \cup R, E \cup F)
BY DEF Only

(* Every member of a list is in one of its chunks: the one its position,    *)
(* divided by the size of a chunk, names.                                   *)
LEMMA ProductGrows ==
  ASSUME NEW a \in Nat, NEW b \in Nat, NEW size \in Nat, a <= b
  PROVE  size * a <= size * b /\ size * a \in Nat /\ size * b \in Nat
OBVIOUS

LEMMA ChunkNumber ==
  ASSUME NEW size \in Nat \ {0}, NEW l \in Nat, NEW n \in 1..l
  PROVE  \E c \in 1..((l + size - 1) \div size) : (c - 1) * size + 1 <= n /\ n <= c * size
<1>. DEFINE k == (n - 1) \div size
            q == (l + size - 1) \div size
            a == n - 1
            b == l + size - 1
<1>1. a \in Nat /\ b \in Nat
  OBVIOUS
<1>2. ASSUME NEW x \in Nat
      PROVE  x \div size \in Nat /\ size * (x \div size) <= x /\ x < size * (x \div size) + size
  OBVIOUS
<1>3. /\ k \in Nat /\ q \in Nat
      /\ size * k <= a /\ a < size * k + size /\ size * q <= b /\ b < size * q + size
  BY <1>1, <1>2
<1>. HIDE DEF k, q
<1>4. ~(q <= k)
  <2>. SUFFICES ASSUME q <= k PROVE FALSE
    OBVIOUS
  <2>1. size * q <= size * k /\ size * q \in Nat /\ size * k \in Nat
    BY <1>3, ProductGrows
  <2>. DEFINE x == size * q
              y == size * k
  <2>. HIDE DEF x, y
  <2>2. x <= y /\ x \in Nat /\ y \in Nat /\ y <= a /\ b < x + size
    BY <1>3, <2>1 DEF x, y
  <2>. QED  BY <2>2
<1>5. k + 1 \in 1..q
  BY <1>3, <1>4
<1>6. PICK c \in 1..q : c = k + 1
  BY <1>5
<1>7. c - 1 = k /\ c \in Nat
  BY <1>3, <1>6
<1>8. k * size = size * k /\ size * k \in Nat
  BY <1>3, ProductGrows
<1>9. c * size = size * k + size
  BY <1>3, <1>6
<1>. DEFINE x == size * k
<1>. HIDE DEF x
<1>10. (c - 1) * size + 1 <= n /\ n <= c * size
  <2>1. (c - 1) * size = x /\ c * size = x + size /\ x \in Nat
    BY <1>7, <1>8, <1>9, Zenon DEF x
  <2>2. x <= n - 1 /\ n - 1 < x + size
    BY <1>3 DEF x
  <2>3. ASSUME NEW lo, NEW hi, lo = x, hi = x + size PROVE lo + 1 <= n /\ n <= hi
    BY <2>1, <2>2, <2>3
  <2>. QED  BY <2>1, <2>3
<1>. QED  BY <1>10 DEF q

LEMMA ChunksCover ==
  ASSUME NEW T, NEW s \in Seq(T), NEW size \in Nat \ {0}, NEW x \in ToSet(s)
  PROVE  \E c \in DOMAIN Chunked(s, size) : x \in ToSet(Chunked(s, size)[c])
<1>. DEFINE l == Len(s)
            q == (l + size - 1) \div size
<1>0. l \in Nat /\ DOMAIN s = 1..l /\ \A i \in 1..l : s[i] \in T
  BY LenProperties, ElementOfSeq
<1>1. PICK n \in 1..l : s[n] = x
  BY <1>0 DEF ToSet
<1>2. PICK c \in 1..q : (c - 1) * size + 1 <= n /\ n <= c * size
  BY <1>0, ChunkNumber
<1>3. DOMAIN Chunked(s, size) = 1..q
  BY DEF Chunked
<1>. DEFINE lo == (c - 1) * size + 1
            b == c * size
            hi == Min({b, l})
            r == SubSeq(s, lo, hi)
<1>4. Chunked(s, size)[c] = r
  BY <1>2 DEF Chunked
<1>5. q \in Nat /\ b \in Nat /\ lo \in Nat /\ lo >= 1
  <2>1. q \in Nat
    BY <1>0, ChunkCount
  <2>. HIDE DEF q
  <2>2. b >= size /\ b \in Nat /\ (c - 1) * size = b - size
    BY <2>1, ChunkStart
  <2>. HIDE DEF b
  <2>. QED  BY <2>1, <2>2
<1>6. hi = IF b <= l THEN b ELSE l
  <2>. HIDE DEF b, l
  <2>. QED  BY <1>0, <1>5, MinOfTwo
<1>. HIDE DEF l, lo, b, hi, q
<1>7. lo <= n /\ n <= b
  BY <1>2 DEF lo, b
<1>8. hi \in Int /\ n <= hi /\ hi <= l /\ \A i \in lo..hi : s[i] \in T
  BY <1>0, <1>5, <1>6, <1>7
<1>9. /\ r \in Seq(T) /\ Len(r) = hi - lo + 1
      /\ \A i \in 1..(hi - lo + 1) : r[i] = s[lo + i - 1]
  <2>1. lo <= hi /\ lo \in Int
    BY <1>5, <1>7, <1>8
  <2>. QED  BY <1>8, <2>1, SubSeqProperties
<1>. HIDE DEF r
<1>10. n - lo + 1 \in 1..(hi - lo + 1) /\ lo + (n - lo + 1) - 1 = n
  BY <1>5, <1>7, <1>8
<1>11. r[n - lo + 1] = x
  BY <1>1, <1>9, <1>10
<1>12. DOMAIN r = 1..(hi - lo + 1)
  BY <1>9, LenProperties
<1>13. x \in ToSet(r)
  BY <1>10, <1>11, <1>12 DEF ToSet
<1>14. c \in DOMAIN Chunked(s, size)
  BY <1>2, <1>3
<1>. QED  BY <1>4, <1>13, <1>14

LEMMA RequestBatchAsks ==
  ASSUME NEW endpoint \in Several, NEW ids \in Seq(KindOf(endpoint)), NEW depth
  PROVE  /\ Asks(ToSet(RequestBatch(endpoint, ids, depth)), endpoint, ToSet(ids), depth)
         /\ Only(ToSet(RequestBatch(endpoint, ids, depth)), {endpoint})
<1>. DEFINE T == KindOf(endpoint)
            u == Unique(ids)
            size == BatchIdLimits[endpoint]
            chunks == Chunked(u, size)
            L == RequestBatch(endpoint, ids, depth)
<1>1. u \in Seq(T) /\ ToSet(u) = ToSet(ids) /\ size \in Nat \ {0}
  <2>. DEFINE none == {}
  <2>1. ToSet(ids) \ none = ToSet(ids)
    OBVIOUS
  <2>2. u = FirstsOutside(ids, none)
    BY DEF Unique
  <2>. HIDE DEF none, u, T
  <2>. QED  BY <2>1, <2>2, FirstsOutsideIs, Catalogue DEF T
<1>2. /\ DOMAIN L = DOMAIN chunks
      /\ \A c \in DOMAIN chunks : L[c] = Request(Url(endpoint, chunks[c], 1), depth)
  BY DEF RequestBatch
<1>. HIDE DEF u, size, L, T
<1>3. \A c \in DOMAIN chunks : ToSet(chunks[c]) \subseteq ToSet(ids)
  <2>1. ASSUME NEW c \in DOMAIN chunks PROVE ToSet(chunks[c]) \subseteq ToSet(ids)
    <3>1. u \in Seq(ToSet(ids))
      BY <1>1, ToSetType
    <3>2. chunks[c] \in Seq(ToSet(ids))
      BY <1>1, <3>1, ChunkIs
    <3>. QED  BY <3>2, ToSetType
  <2>. QED  BY <2>1
<1>4. \A x \in ToSet(ids) : \E c \in DOMAIN chunks : x \in ToSet(chunks[c])
  BY <1>1, ChunksCover
<1>. HIDE DEF chunks
<1>5. ToSet(L) = {L[c] : c \in DOMAIN chunks}
  BY <1>2 DEF ToSet
<1>6. \A c \in DOMAIN chunks :
        L[c].url.endpoint = endpoint /\ L[c].url.ids = chunks[c] /\ L[c].depth = depth
  BY <1>2 DEF Request, Url
<1>7. Asks(ToSet(L), endpoint, ToSet(ids), depth) /\ Only(ToSet(L), {endpoint})
  BY <1>3, <1>4, <1>5, <1>6 DEF Asks, Only
<1>. QED  BY <1>7 DEF L

LEMMA EachAsks ==
  ASSUME NEW T, NEW endpoint, NEW ids \in Seq(T), NEW depth
  PROVE  /\ Asks(ToSet(Each(endpoint, ids, depth)), endpoint, ToSet(ids), depth)
         /\ Only(ToSet(Each(endpoint, ids, depth)), {endpoint})
<1>. DEFINE L == Each(endpoint, ids, depth)
<1>1. /\ DOMAIN L = DOMAIN ids
      /\ \A i \in DOMAIN ids : L[i] = Request(Url(endpoint, <<ids[i]>>, 1), depth)
  BY DEF Each
<1>2. ASSUME NEW i \in DOMAIN ids
      PROVE  L[i].url.endpoint = endpoint /\ ToSet(L[i].url.ids) = {ids[i]} /\ L[i].depth = depth
  <2>. DEFINE one == <<ids[i]>>
  <2>1. ToSet(one) = {ids[i]}
    BY ListMembers, OneOfList
  <2>. HIDE DEF one
  <2>2. L[i] = Request(Url(endpoint, one, 1), depth)
    BY <1>1 DEF one
  <2>. HIDE DEF L
  <2>. QED  BY <2>1, <2>2 DEF Request, Url
<1>. HIDE DEF L
<1>3. ToSet(L) = {L[i] : i \in DOMAIN ids} /\ ToSet(ids) = {ids[i] : i \in DOMAIN ids}
  BY <1>1 DEF ToSet
<1>4. Asks(ToSet(L), endpoint, ToSet(ids), depth) /\ Only(ToSet(L), {endpoint})
  <2>1. \A q \in ToSet(L) : q.url.endpoint = endpoint /\ q.depth = depth /\ ToSet(q.url.ids) \subseteq ToSet(ids)
    BY <1>2, <1>3
  <2>2. ASSUME NEW x \in ToSet(ids) 
        PROVE  \E q \in ToSet(L) : q.url.endpoint = endpoint /\ q.depth = depth /\ x \in ToSet(q.url.ids)
    <3>1. PICK i \in DOMAIN ids : x = ids[i]
      BY <1>3
    <3>2. L[i] \in ToSet(L) /\ x \in ToSet(L[i].url.ids)
      BY <1>2, <1>3, <3>1
    <3>. QED  BY <1>2, <3>1, <3>2
  <2>. QED  BY <2>1, <2>2 DEF Asks, Only
<1>. QED  BY <1>4 DEF L

-----------------------------------------------------------------------------
(* What each handler asks for.                                              *)

AlbumsBy == IF config.batch THEN "albums?ids" ELSE "albums/{id}"
ArtistsBy == IF config.batch THEN "artists?ids" ELSE "artists/{id}"

AlbumsOf(tracks) == {AlbumOf[t] : t \in tracks}

LEMMA ListsName ==
  /\ \A tracks \in Seq(Tracks) : /\ ToSet(CreditSeq(tracks)) = CreditsOf(ToSet(tracks))
                                 /\ ToSet(AlbumSeq(tracks)) = AlbumsOf(ToSet(tracks))
  /\ \A albums \in Seq(Albums) : ToSet(CreatorSeq(albums)) = CreatorsOf(ToSet(albums))
<1>1. ASSUME NEW tracks \in Seq(Tracks) PROVE ToSet(CreditSeq(tracks)) = CreditsOf(ToSet(tracks))
  <2>. DEFINE f == [i \in DOMAIN tracks |-> Credits[tracks[i]]]
  <2>1. \A i \in DOMAIN tracks : f[i] = Credits[tracks[i]] /\ f[i] \in Seq(Artists)
    BY ListMembers, Catalogue
  <2>2. f = [i \in DOMAIN tracks |-> f[i]] /\ CreditSeq(tracks) = FlattenSeq(f)
    BY DEF CreditSeq
  <2>. HIDE DEF f
  <2>3. f \in Seq(Seq(Artists)) /\ DOMAIN f = DOMAIN tracks
    BY <2>1, <2>2, ListMap
  <2>4. ToSet(CreditSeq(tracks)) = UNION {ToSet(f[i]) : i \in DOMAIN tracks}
    BY <2>2, <2>3, FlattenIs
  <2>5. ASSUME NEW x \in ToSet(CreditSeq(tracks)) PROVE x \in CreditsOf(ToSet(tracks))
    <3>1. PICK i \in DOMAIN tracks : x \in ToSet(f[i])
      BY <2>4
    <3>2. tracks[i] \in ToSet(tracks) /\ x \in ToSet(Credits[tracks[i]])
      BY <2>1, <3>1, ListMembers
    <3>. QED  BY <3>2 DEF CreditsOf
  <2>6. ASSUME NEW x \in CreditsOf(ToSet(tracks)) PROVE x \in ToSet(CreditSeq(tracks))
    <3>1. PICK t \in ToSet(tracks) : x \in ToSet(Credits[t])
      BY DEF CreditsOf
    <3>2. PICK i \in DOMAIN tracks : tracks[i] = t
      BY DEF ToSet
    <3>3. x \in ToSet(f[i])
      BY <2>1, <3>1, <3>2
    <3>. QED  BY <2>4, <3>3
  <2>. QED  BY <2>5, <2>6
<1>2. ASSUME NEW tracks \in Seq(Tracks) PROVE ToSet(AlbumSeq(tracks)) = AlbumsOf(ToSet(tracks))
  BY DEF AlbumSeq, AlbumsOf, ToSet
<1>3. ASSUME NEW albums \in Seq(Albums) PROVE ToSet(CreatorSeq(albums)) = CreatorsOf(ToSet(albums))
  <2>. DEFINE f == [i \in DOMAIN albums |-> Creators[albums[i]]]
  <2>1. \A i \in DOMAIN albums : f[i] = Creators[albums[i]] /\ f[i] \in Seq(Artists)
    BY ListMembers, Catalogue
  <2>2. f = [i \in DOMAIN albums |-> f[i]] /\ CreatorSeq(albums) = FlattenSeq(f)
    BY DEF CreatorSeq
  <2>. HIDE DEF f
  <2>3. f \in Seq(Seq(Artists)) /\ DOMAIN f = DOMAIN albums
    BY <2>1, <2>2, ListMap
  <2>4. ToSet(CreatorSeq(albums)) = UNION {ToSet(f[i]) : i \in DOMAIN albums}
    BY <2>2, <2>3, FlattenIs
  <2>5. ASSUME NEW x \in ToSet(CreatorSeq(albums)) PROVE x \in CreatorsOf(ToSet(albums))
    <3>1. PICK i \in DOMAIN albums : x \in ToSet(f[i])
      BY <2>4
    <3>2. albums[i] \in ToSet(albums) /\ x \in ToSet(Creators[albums[i]])
      BY <2>1, <3>1, ListMembers
    <3>. QED  BY <3>2 DEF CreatorsOf
  <2>6. ASSUME NEW x \in CreatorsOf(ToSet(albums)) PROVE x \in ToSet(CreatorSeq(albums))
    <3>1. PICK t \in ToSet(albums) : x \in ToSet(Creators[t])
      BY DEF CreatorsOf
    <3>2. PICK i \in DOMAIN albums : albums[i] = t
      BY DEF ToSet
    <3>3. x \in ToSet(f[i])
      BY <2>1, <3>1, <3>2
    <3>. QED  BY <2>4, <3>3
  <2>. QED  BY <2>5, <2>6
<1>. QED  BY <1>1, <1>2, <1>3

(* Of an album and its credits, from one track or several.                  *)
AskNeighbours(Q, tracks, depth, byAlbum, byArtist) ==
  /\ Only(Q, {byAlbum, byArtist})
  /\ Asks(Q, byAlbum, AlbumsOf(tracks), depth)
  /\ Asks(Q, byArtist, CreditsOf(tracks), depth)

LEMMA NeighboursMeet ==
  ASSUME NEW Q, NEW R, NEW tracks, NEW depth, NEW byAlbum, NEW byArtist, byAlbum # byArtist,
         Only(Q, {byAlbum}), Asks(Q, byAlbum, AlbumsOf(tracks), depth),
         Only(R, {byArtist}), Asks(R, byArtist, CreditsOf(tracks), depth)
  PROVE  AskNeighbours(Q \cup R, tracks, depth, byAlbum, byArtist)
<1>1. byAlbum \notin {byArtist} /\ byArtist \notin {byAlbum} /\ {byAlbum} \cup {byArtist} = {byAlbum, byArtist}
  OBVIOUS
<1>. QED  BY <1>1, AsksBeside, OnlyBeside DEF AskNeighbours

LEMMA SeveralTracksAsk ==
  ASSUME NEW tracks \in Seq(Tracks), NEW depth \in Depths
  PROVE  AskNeighbours(ToSet(SeveralTracks_Neighbours(tracks, depth)), ToSet(tracks), depth,
                       "albums?ids", "artists?ids")
<1>. DEFINE L == RequestBatch("albums?ids", AlbumSeq(tracks), depth)
            M == RequestBatch("artists?ids", CreditSeq(tracks), depth)
<1>1. "albums?ids" \in Several /\ "artists?ids" \in Several
      /\ KindOf("albums?ids") = Albums /\ KindOf("artists?ids") = Artists
  BY DEF Several, KindOf
<1>2. AlbumSeq(tracks) \in Seq(Albums) /\ CreditSeq(tracks) \in Seq(Artists)
  BY Lists
<1>3. L \in Seq(Messages) /\ M \in Seq(Messages)
  BY <1>1, <1>2, RequestBatchIs
<1>4. /\ Asks(ToSet(L), "albums?ids", AlbumsOf(ToSet(tracks)), depth) /\ Only(ToSet(L), {"albums?ids"})
      /\ Asks(ToSet(M), "artists?ids", CreditsOf(ToSet(tracks)), depth) /\ Only(ToSet(M), {"artists?ids"})
  BY <1>1, <1>2, RequestBatchAsks, ListsName
<1>. HIDE DEF L, M
<1>5. ToSet(L \o M) = ToSet(L) \cup ToSet(M)
  BY <1>3, ToSetConcat
<1>6. AskNeighbours(ToSet(L) \cup ToSet(M), ToSet(tracks), depth, "albums?ids", "artists?ids")
  BY <1>4, NeighboursMeet
<1>. QED  BY <1>5, <1>6 DEF SeveralTracks_Neighbours, L, M

LEMMA SingleTrackAsks ==
  ASSUME NEW tracks \in Seq(Tracks), NEW depth \in Depths
  PROVE  AskNeighbours(ToSet(SingleTrack_Neighbours(tracks, depth)), ToSet(tracks), depth, AlbumsBy, ArtistsBy)
<1>1. CASE config.batch
  BY <1>1, SeveralTracksAsk DEF SingleTrack_Neighbours, AlbumsBy, ArtistsBy
<1>2. CASE ~config.batch
  <2>. DEFINE f == [i \in DOMAIN tracks |->
                      Each("albums/{id}", <<AlbumOf[tracks[i]]>>, depth)
                        \o Each("artists/{id}", Credits[tracks[i]], depth)]
              Q == [i \in DOMAIN tracks |-> ToSet(f[i])]
              A == [i \in DOMAIN tracks |-> AlbumsOf({tracks[i]})]
              C == [i \in DOMAIN tracks |-> CreditsOf({tracks[i]})]
  <2>1. ASSUME NEW i \in DOMAIN tracks
        PROVE  /\ f[i] \in Seq(Messages)
               /\ AskNeighbours(ToSet(f[i]), {tracks[i]}, depth, "albums/{id}", "artists/{id}")
    <3>. DEFINE t == tracks[i]
                one == <<AlbumOf[t]>>
                L == Each("albums/{id}", one, depth)
                M == Each("artists/{id}", Credits[t], depth)
    <3>1. t \in Tracks /\ AlbumOf[t] \in Albums /\ Credits[t] \in Seq(Artists)
      BY ListMembers, Catalogue
    <3>2. f[i] = L \o M
      OBVIOUS
    <3>. HIDE DEF f, t
    <3>3. one \in Seq(Albums) /\ ToSet(one) = {AlbumOf[t]}
      BY <3>1, OneOfList
    <3>. HIDE DEF one
    <3>4. "albums/{id}" \in Single /\ "artists/{id}" \in Single
          /\ KindOf("albums/{id}") = Albums /\ KindOf("artists/{id}") = Artists
      BY DEF Single, KindOf
    <3>5. L \in Seq(Messages) /\ M \in Seq(Messages)
      BY <3>1, <3>3, <3>4, EachIs
    <3>6. ToSet(one) = AlbumsOf({t}) /\ ToSet(Credits[t]) = CreditsOf({t})
      BY <3>3 DEF AlbumsOf, CreditsOf
    <3>7. /\ Asks(ToSet(L), "albums/{id}", AlbumsOf({t}), depth) /\ Only(ToSet(L), {"albums/{id}"})
          /\ Asks(ToSet(M), "artists/{id}", CreditsOf({t}), depth) /\ Only(ToSet(M), {"artists/{id}"})
      <4>. DEFINE B == ToSet(one)
                  Z == ToSet(Credits[t])
      <4>2. Asks(ToSet(L), "albums/{id}", B, depth) /\ Only(ToSet(L), {"albums/{id}"})
        BY <3>3, EachAsks
      <4>3. Asks(ToSet(M), "artists/{id}", Z, depth) /\ Only(ToSet(M), {"artists/{id}"})
        BY <3>1, EachAsks
      <4>4. B = AlbumsOf({t}) /\ Z = CreditsOf({t})
        BY <3>6
      <4>. HIDE DEF Z, B, L, M
      <4>. QED  BY <4>2, <4>3, <4>4
    <3>. HIDE DEF L, M
    <3>8. f[i] \in Seq(Messages) /\ ToSet(f[i]) = ToSet(L) \cup ToSet(M)
      BY <3>2, <3>5, ConcatProperties, ToSetConcat
    <3>9. AskNeighbours(ToSet(L) \cup ToSet(M), {t}, depth, "albums/{id}", "artists/{id}")
      BY <3>7, NeighboursMeet
    <3>. QED  BY <3>8, <3>9 DEF t
  <2>2. SingleTrack_Neighbours(tracks, depth) = FlattenSeq(f) /\ f = [i \in DOMAIN tracks |-> f[i]]
    BY <1>2 DEF SingleTrack_Neighbours
  <2>. HIDE DEF f
  <2>3. f \in Seq(Seq(Messages)) /\ DOMAIN f = DOMAIN tracks
    BY <2>1, <2>2, ListMap
  <2>. DEFINE D == DOMAIN tracks
              R == ToSet(SingleTrack_Neighbours(tracks, depth))
              V == AlbumsOf(ToSet(tracks))
              W == CreditsOf(ToSet(tracks))
  <2>4. /\ \A i \in D : Q[i] \subseteq R
        /\ \A q \in R : \E i \in D : q \in Q[i]
    <3>1. R = UNION {ToSet(f[i]) : i \in DOMAIN f}
      BY <2>2, <2>3, FlattenIs
    <3>2. \A i \in D : Q[i] = ToSet(f[i])
      OBVIOUS
    <3>3. D = DOMAIN f
      BY <2>3
    <3>. HIDE DEF R, Q, D
    <3>. QED  BY <3>1, <3>2, <3>3
  <2>5. /\ \A i \in D : Only(Q[i], {"albums/{id}", "artists/{id}"})
        /\ \A i \in D : Asks(Q[i], "albums/{id}", A[i], depth)
        /\ \A i \in D : Asks(Q[i], "artists/{id}", C[i], depth)
    BY <2>1 DEF AskNeighbours
  <2>6. /\ \A i \in D : A[i] \subseteq V
        /\ \A x \in V : \E i \in D : x \in A[i]
    BY DEF AlbumsOf, ToSet
  <2>7. /\ \A i \in D : C[i] \subseteq W
        /\ \A x \in W : \E i \in D : x \in C[i]
    BY DEF CreditsOf, ToSet
  <2>. HIDE DEF Q, A, C, D, R, V, W
  <2>8. /\ Asks(R, "albums/{id}", V, depth) /\ Asks(R, "artists/{id}", W, depth)
        /\ Only(R, {"albums/{id}", "artists/{id}"})
    <3>1. Asks(R, "albums/{id}", V, depth)
      BY <2>4, <2>5, <2>6, AsksUnion
    <3>2. Asks(R, "artists/{id}", W, depth)
      BY <2>4, <2>5, <2>7, AsksUnion
    <3>3. Only(R, {"albums/{id}", "artists/{id}"})
      BY <2>4, <2>5 DEF Only
    <3>. QED  BY <3>1, <3>2, <3>3
  <2>9. AlbumsBy = "albums/{id}" /\ ArtistsBy = "artists/{id}"
    BY <1>2 DEF AlbumsBy, ArtistsBy
  <2>. QED  BY <2>8, <2>9 DEF AskNeighbours, R, V, W
<1>. QED  BY <1>1, <1>2

-----------------------------------------------------------------------------

(* The tracks of a page of liked songs, one by one, unless in batches.       *)
AskTracks(Q, tracks, depth) ==
  /\ config.batch => \A q \in Q : q.url.endpoint # "tracks/{id}"
  /\ ~config.batch => Asks(Q, "tracks/{id}", tracks, depth)

AskLikedSongs(Q, tracks, depth) ==
  /\ Only(Q, {"tracks/{id}", AlbumsBy, ArtistsBy})
  /\ AskTracks(Q, tracks, depth)
  /\ Asks(Q, AlbumsBy, AlbumsOf(tracks), depth)
  /\ Asks(Q, ArtistsBy, CreditsOf(tracks), depth)

LEMMA LikedSongsAsk ==
  ASSUME NEW tracks \in Seq(Tracks), NEW depth \in Depths
  PROVE  AskLikedSongs(ToSet(LikedSongs_Neighbours(tracks, depth)), ToSet(tracks), depth)
<1>1. CASE config.batch
  <2>. DEFINE Q == ToSet(LikedSongs_Neighbours(tracks, depth))
              N == ToSet(tracks)
  <2>1. AlbumsBy = "albums?ids" /\ ArtistsBy = "artists?ids"
    BY <1>1 DEF AlbumsBy, ArtistsBy
  <2>2. AskNeighbours(Q, N, depth, "albums?ids", "artists?ids")
    BY <1>1, SeveralTracksAsk DEF LikedSongs_Neighbours
  <2>. HIDE DEF Q, N
  <2>3. AskLikedSongs(Q, N, depth)
    BY <1>1, <2>1, <2>2 DEF AskNeighbours, AskLikedSongs, Only, AskTracks
  <2>. QED  BY <2>3 DEF Q, N
<1>2. CASE ~config.batch
  <2>. DEFINE f == [i \in DOMAIN tracks |->
                      Each("tracks/{id}", <<tracks[i]>>, depth) \o SingleTrack_Neighbours(<<tracks[i]>>, depth)]
              Q == [i \in DOMAIN tracks |-> ToSet(f[i])]
              A == [i \in DOMAIN tracks |-> AlbumsOf({tracks[i]})]
              C == [i \in DOMAIN tracks |-> CreditsOf({tracks[i]})]
              T == [i \in DOMAIN tracks |-> {tracks[i]}]
              D == DOMAIN tracks
              N == ToSet(tracks)
              R == ToSet(LikedSongs_Neighbours(tracks, depth))
              V == AlbumsOf(ToSet(tracks))
              W == CreditsOf(ToSet(tracks))
  <2>0. AlbumsBy = "albums/{id}" /\ ArtistsBy = "artists/{id}"
    BY <1>2 DEF AlbumsBy, ArtistsBy
  <2>1. ASSUME NEW i \in DOMAIN tracks
        PROVE  /\ f[i] \in Seq(Messages)
               /\ AskLikedSongs(ToSet(f[i]), {tracks[i]}, depth)
    <3>. DEFINE t == tracks[i]
                one == <<t>>
                L == Each("tracks/{id}", one, depth)
                M == SingleTrack_Neighbours(one, depth)
    <3>1. t \in Tracks
      BY ListMembers
    <3>2. f[i] = L \o M
      OBVIOUS
    <3>. HIDE DEF f, t
    <3>3. one \in Seq(Tracks) /\ ToSet(one) = {t}
      BY <3>1, OneOfList
    <3>. HIDE DEF one
    <3>4. "tracks/{id}" \in Single /\ KindOf("tracks/{id}") = Tracks
      BY DEF Single, KindOf
    <3>5. L \in Seq(Messages) /\ M \in Seq(Messages)
      BY <3>3, <3>4, EachIs, SingleTrackNext
    <3>. DEFINE B == ToSet(one)
    <3>6. Asks(ToSet(L), "tracks/{id}", B, depth) /\ Only(ToSet(L), {"tracks/{id}"})
      BY <3>3, EachAsks
    <3>7. AskNeighbours(ToSet(M), B, depth, "albums/{id}", "artists/{id}")
      BY <2>0, <3>3, SingleTrackAsks
    <3>8. ToSet(L \o M) = ToSet(L) \cup ToSet(M) /\ L \o M \in Seq(Messages)
      BY <3>5, ToSetConcat, ConcatProperties
    <3>. HIDE DEF L, M, B
    <3>9. /\ Asks(ToSet(M) \cup ToSet(L), "albums/{id}", AlbumsOf(B), depth)
          /\ Asks(ToSet(M) \cup ToSet(L), "artists/{id}", CreditsOf(B), depth)
      BY <3>6, <3>7, AsksBeside DEF AskNeighbours
    <3>10. /\ Only(ToSet(M) \cup ToSet(L), {"tracks/{id}", "albums/{id}", "artists/{id}"})
           /\ Asks(ToSet(M) \cup ToSet(L), "tracks/{id}", B, depth)
      BY <3>6, <3>7 DEF AskNeighbours, Only, Asks
    <3>11. ToSet(f[i]) = ToSet(M) \cup ToSet(L) /\ B = {t}
      BY <3>2, <3>3, <3>8 DEF B
    <3>12. AskLikedSongs(ToSet(f[i]), {t}, depth)
      BY <1>2, <2>0, <3>9, <3>10, <3>11 DEF AskLikedSongs, AskTracks
    <3>. QED  BY <3>2, <3>8, <3>12 DEF t
  <2>2. LikedSongs_Neighbours(tracks, depth) = FlattenSeq(f) /\ f = [i \in DOMAIN tracks |-> f[i]]
    BY <1>2 DEF LikedSongs_Neighbours
  <2>. HIDE DEF f
  <2>3. f \in Seq(Seq(Messages)) /\ DOMAIN f = DOMAIN tracks
    BY <2>1, <2>2, ListMap
  <2>4. /\ \A i \in D : Q[i] \subseteq R
        /\ \A q \in R : \E i \in D : q \in Q[i]
    <3>1. R = UNION {ToSet(f[i]) : i \in DOMAIN f}
      BY <2>2, <2>3, FlattenIs
    <3>2. \A i \in D : Q[i] = ToSet(f[i])
      OBVIOUS
    <3>3. D = DOMAIN f
      BY <2>3
    <3>. HIDE DEF R, Q, D
    <3>. QED  BY <3>1, <3>2, <3>3
  <2>5. /\ \A i \in D : Only(Q[i], {"tracks/{id}", "albums/{id}", "artists/{id}"})
        /\ \A i \in D : Asks(Q[i], "tracks/{id}", T[i], depth)
        /\ \A i \in D : Asks(Q[i], "albums/{id}", A[i], depth)
        /\ \A i \in D : Asks(Q[i], "artists/{id}", C[i], depth)
    BY <1>2, <2>0, <2>1 DEF AskLikedSongs, AskTracks
  <2>6. /\ \A i \in D : A[i] \subseteq V
        /\ \A x \in V : \E i \in D : x \in A[i]
    BY DEF AlbumsOf, ToSet
  <2>7. /\ \A i \in D : C[i] \subseteq W
        /\ \A x \in W : \E i \in D : x \in C[i]
    BY DEF CreditsOf, ToSet
  <2>8. /\ \A i \in D : T[i] \subseteq N
        /\ \A x \in N : \E i \in D : x \in T[i]
    BY DEF ToSet
  <2>. HIDE DEF Q, A, C, D, T, N, R, V, W
  <2>9. Asks(R, "albums/{id}", V, depth)
    BY <2>4, <2>5, <2>6, AsksUnion
  <2>10. Asks(R, "artists/{id}", W, depth)
    BY <2>4, <2>5, <2>7, AsksUnion
  <2>11. Only(R, {"tracks/{id}", "albums/{id}", "artists/{id}"})
    BY <2>4, <2>5 DEF Only
  <2>12. Asks(R, "tracks/{id}", N, depth)
    BY <2>4, <2>5, <2>8, AsksUnion
  <2>13. AskLikedSongs(R, ToSet(tracks), depth)
    BY <1>2, <2>0, <2>9, <2>10, <2>11, <2>12 DEF AskLikedSongs, AskTracks, N, V, W
  <2>. QED  BY <2>13 DEF R
<1>. QED  BY <1>1, <1>2

(* An album and the tracks on its first page.                               *)
EmbeddedCredits(albums) ==
  IF config.discographies THEN CreditsOf(TracksIn(EmbeddedTracks(albums))) ELSE {}

LEMMA EmbeddedIn ==
  ASSUME NEW albums
  PROVE  TracksIn(EmbeddedTracks(albums)) = UNION {ToSet(AlbumPages[a][1]) : a \in albums}
<1>1. ASSUME NEW t \in TracksIn(EmbeddedTracks(albums)) PROVE \E a \in albums : t \in ToSet(AlbumPages[a][1])
  <2>1. PICK e \in EmbeddedTracks(albums) : t = e[2]
    BY DEF TracksIn
  <2>2. PICK a \in albums : \E x \in ToSet(AlbumPages[a][1]) : e = <<a, x>>
    BY <2>1 DEF EmbeddedTracks
  <2>. QED  BY <2>1, <2>2
<1>2. ASSUME NEW a \in albums, NEW t \in ToSet(AlbumPages[a][1]) PROVE t \in TracksIn(EmbeddedTracks(albums))
  <2>1. <<a, t>> \in EmbeddedTracks(albums) /\ <<a, t>>[2] = t
    BY DEF EmbeddedTracks
  <2>. QED  BY <2>1 DEF TracksIn
<1>. QED  BY <1>1, <1>2

LEMMA EmbeddedListIs ==
  ASSUME NEW albums \in Seq(Albums)
  PROVE  LET pages == FlattenSeq([i \in DOMAIN albums |-> AlbumPages[albums[i]][1]])
         IN /\ pages \in Seq(Tracks)
            /\ ToSet(pages) = TracksIn(EmbeddedTracks(ToSet(albums)))
<1>. DEFINE f == [i \in DOMAIN albums |-> AlbumPages[albums[i]][1]]
<1>1. \A i \in DOMAIN albums : /\ albums[i] \in Albums /\ albums[i] \in ToSet(albums)
                               /\ f[i] = AlbumPages[albums[i]][1] /\ f[i] \in Seq(Tracks)
  <2>1. ASSUME NEW a \in Albums PROVE AlbumPages[a][1] \in Seq(Tracks)
    BY FirstPage, ListMembers
  <2>. QED  BY <2>1, ListMembers
<1>2. f = [i \in DOMAIN albums |-> f[i]]
  OBVIOUS
<1>. HIDE DEF f
<1>3. f \in Seq(Seq(Tracks)) /\ DOMAIN f = DOMAIN albums
  BY <1>1, <1>2, ListMap
<1>4. FlattenSeq(f) \in Seq(Tracks) /\ ToSet(FlattenSeq(f)) = UNION {ToSet(f[i]) : i \in DOMAIN f}
  BY <1>3, FlattenIs
<1>5. \A a \in ToSet(albums) : \E i \in DOMAIN albums : albums[i] = a
  BY DEF ToSet
<1>6. UNION {ToSet(f[i]) : i \in DOMAIN f} = UNION {ToSet(AlbumPages[a][1]) : a \in ToSet(albums)}
  <2>1. ASSUME NEW i \in DOMAIN f, NEW t \in ToSet(f[i])
        PROVE  \E a \in ToSet(albums) : t \in ToSet(AlbumPages[a][1])
    BY <1>1, <1>3
  <2>2. ASSUME NEW a \in ToSet(albums), NEW t \in ToSet(AlbumPages[a][1])
        PROVE  \E i \in DOMAIN f : t \in ToSet(f[i])
    BY <1>1, <1>3, <1>5
  <2>. DEFINE V == UNION {ToSet(f[i]) : i \in DOMAIN f}
              W == UNION {ToSet(AlbumPages[a][1]) : a \in ToSet(albums)}
  <2>3. V \subseteq W
    BY <2>1
  <2>4. W \subseteq V
    BY <2>2
  <2>. HIDE DEF V, W
  <2>5. V = W
    BY <2>3, <2>4
  <2>. QED  BY <2>5 DEF V, W
<1>. QED  BY <1>4, <1>6, EmbeddedIn DEF f

LEMMA SeveralAlbumsAsk ==
  ASSUME NEW albums \in Seq(Albums), NEW depth \in Depths
  PROVE  LET Q == ToSet(SeveralAlbums_Neighbours(albums, depth))
         IN /\ Only(Q, {"artists?ids"})
            /\ Asks(Q, "artists?ids", CreatorsOf(ToSet(albums)) \cup EmbeddedCredits(ToSet(albums)), depth)
<1>. DEFINE pages == FlattenSeq([i \in DOMAIN albums |-> AlbumPages[albums[i]][1]])
            first == CreatorSeq(albums)
            second == IF config.discographies THEN CreditSeq(pages) ELSE <<>>
<1>1. SeveralAlbums_Neighbours(albums, depth) = RequestBatch("artists?ids", first \o second, depth)
  BY DEF SeveralAlbums_Neighbours
<1>2. pages \in Seq(Tracks) /\ ToSet(pages) = TracksIn(EmbeddedTracks(ToSet(albums)))
  BY EmbeddedListIs
<1>. HIDE DEF pages
<1>3. first \in Seq(Artists) /\ ToSet(first) = CreatorsOf(ToSet(albums))
  BY Lists, ListsName
<1>4. second \in Seq(Artists) /\ ToSet(second) = EmbeddedCredits(ToSet(albums))
  <2>1. CASE config.discographies
    <3>1. CreditSeq(pages) \in Seq(Artists) /\ ToSet(CreditSeq(pages)) = CreditsOf(ToSet(pages))
      BY <1>2, Lists, ListsName
    <3>. QED  BY <1>2, <2>1, <3>1 DEF EmbeddedCredits
  <2>2. CASE ~config.discographies
    BY <2>2, ToSetEmpty, EmptySeq DEF EmbeddedCredits
  <2>. QED  BY <2>1, <2>2
<1>. HIDE DEF first, second
<1>5. /\ first \o second \in Seq(Artists)
      /\ ToSet(first \o second) = CreatorsOf(ToSet(albums)) \cup EmbeddedCredits(ToSet(albums))
  BY <1>3, <1>4, ConcatProperties, ToSetConcat
<1>6. "artists?ids" \in Several /\ KindOf("artists?ids") = Artists
  BY DEF Several, KindOf
<1>. DEFINE ids == first \o second
<1>. HIDE DEF ids
<1>7. ids \in Seq(KindOf("artists?ids"))
  BY <1>5, <1>6 DEF ids
<1>8. /\ Asks(ToSet(RequestBatch("artists?ids", ids, depth)), "artists?ids", ToSet(ids), depth)
      /\ Only(ToSet(RequestBatch("artists?ids", ids, depth)), {"artists?ids"})
  BY <1>6, <1>7, RequestBatchAsks
<1>. QED  BY <1>1, <1>5, <1>8 DEF ids

LEMMA SingleAlbumAsk ==
  ASSUME NEW a \in Albums, NEW depth \in Depths
  PROVE  LET Q == ToSet(SingleAlbum_Neighbours(a, depth))
         IN Only(Q, {ArtistsBy}) /\ Asks(Q, ArtistsBy, CreatorsOf({a}), depth)
<1>1. Creators[a] \in Seq(Artists) /\ ToSet(Creators[a]) = CreatorsOf({a})
  BY Catalogue DEF CreatorsOf
<1>2. "artists?ids" \in Several /\ KindOf("artists?ids") = Artists
  BY DEF Several, KindOf
<1>. DEFINE ids == Creators[a]
<1>. HIDE DEF ids
<1>3. ids \in Seq(Artists) /\ ids \in Seq(KindOf("artists?ids"))
  BY <1>1, <1>2 DEF ids
<1>4. CASE config.batch
  <2>1. /\ Asks(ToSet(RequestBatch("artists?ids", ids, depth)), "artists?ids", ToSet(ids), depth)
        /\ Only(ToSet(RequestBatch("artists?ids", ids, depth)), {"artists?ids"})
    BY <1>2, <1>3, RequestBatchAsks
  <2>2. SingleAlbum_Neighbours(a, depth) = RequestBatch("artists?ids", ids, depth) /\ ArtistsBy = "artists?ids"
    BY <1>4 DEF SingleAlbum_Neighbours, ArtistsBy, ids
  <2>. QED  BY <1>1, <2>1, <2>2 DEF ids
<1>5. CASE ~config.batch
  <2>1. /\ Asks(ToSet(Each("artists/{id}", ids, depth)), "artists/{id}", ToSet(ids), depth)
        /\ Only(ToSet(Each("artists/{id}", ids, depth)), {"artists/{id}"})
    BY <1>3, EachAsks
  <2>2. SingleAlbum_Neighbours(a, depth) = Each("artists/{id}", ids, depth) /\ ArtistsBy = "artists/{id}"
    BY <1>5 DEF SingleAlbum_Neighbours, ArtistsBy, ids
  <2>. QED  BY <1>1, <2>1, <2>2 DEF ids
<1>. QED  BY <1>4, <1>5

LEMMA PagesAsk ==
  ASSUME NEW depth \in Depths
  PROVE  /\ \A page \in Seq(Tracks) :
              LET Q == ToSet(TracksOfAlbum_Neighbours(page, depth))
              IN Only(Q, {"artists?ids"}) /\ Asks(Q, "artists?ids", CreditsOf(ToSet(page)), depth)
         /\ \A page \in Seq(Albums) :
              LET Q == ToSet(Harvest_Neighbours(page, depth))
              IN Only(Q, {"albums?ids"}) /\ Asks(Q, "albums?ids", ToSet(page), depth)
<1>1. "albums?ids" \in Several /\ "artists?ids" \in Several
      /\ KindOf("albums?ids") = Albums /\ KindOf("artists?ids") = Artists
  BY DEF Several, KindOf
<1>2. ASSUME NEW page \in Seq(Tracks)
      PROVE  LET Q == ToSet(TracksOfAlbum_Neighbours(page, depth))
             IN Only(Q, {"artists?ids"}) /\ Asks(Q, "artists?ids", CreditsOf(ToSet(page)), depth)
  <2>. DEFINE ids == CreditSeq(page)
  <2>1. ids \in Seq(KindOf("artists?ids")) /\ ToSet(ids) = CreditsOf(ToSet(page))
    BY <1>1, Lists, ListsName
  <2>. HIDE DEF ids
  <2>2. /\ Asks(ToSet(RequestBatch("artists?ids", ids, depth)), "artists?ids", ToSet(ids), depth)
        /\ Only(ToSet(RequestBatch("artists?ids", ids, depth)), {"artists?ids"})
    BY <1>1, <2>1, RequestBatchAsks
  <2>. QED  BY <2>1, <2>2 DEF ids, TracksOfAlbum_Neighbours
<1>3. ASSUME NEW page \in Seq(Albums)
      PROVE  LET Q == ToSet(Harvest_Neighbours(page, depth))
             IN Only(Q, {"albums?ids"}) /\ Asks(Q, "albums?ids", ToSet(page), depth)
  <2>1. page \in Seq(KindOf("albums?ids"))
    BY <1>1
  <2>2. /\ Asks(ToSet(RequestBatch("albums?ids", page, depth)), "albums?ids", ToSet(page), depth)
        /\ Only(ToSet(RequestBatch("albums?ids", page, depth)), {"albums?ids"})
    BY <1>1, <2>1, RequestBatchAsks
  <2>. QED  BY <2>2 DEF Harvest_Neighbours
<1>. QED  BY <1>2, <1>3

-----------------------------------------------------------------------------
(* The links of a message, endpoint by endpoint.                            *)

Resolved(u) == ToSet(u.ids) \ Unknown

TracksPage(a, p, depth) == Request(Url("albums/{id}/tracks", <<a>>, p), depth)

LEMMA ItemsName ==
  ASSUME NEW T, NEW u, u.ids \in Seq(T)
  PROVE  /\ ToSet(Items(u)) = Resolved(u)
         /\ ToSet(LongAlbums(u)) = {a \in Resolved(u) : Len(AlbumPages[a]) > 1}
<1>1. ToSet(Items(u)) = Resolved(u)
  <2>. DEFINE P == {n \in DOMAIN u.ids : u.ids[n] \notin Unknown}
  <2>1. Items(u) = At(u.ids, P)
    BY DEF Items
  <2>2. {u.ids[n] : n \in P \cap DOMAIN u.ids} = Resolved(u)
    BY DEF ToSet, Resolved
  <2>. HIDE DEF P
  <2>. QED  BY <2>1, <2>2, AtType
<1>2. ToSet(LongAlbums(u)) = {a \in ToSet(Items(u)) : Len(AlbumPages[a]) > 1}
  <2>. DEFINE items == Items(u)
              P == {n \in DOMAIN items : Len(AlbumPages[items[n]]) > 1}
  <2>1. LongAlbums(u) = At(items, P)
    BY DEF LongAlbums
  <2>2. {items[n] : n \in P \cap DOMAIN items} = {a \in ToSet(items) : Len(AlbumPages[a]) > 1}
    <3>. HIDE DEF items
    <3>. QED  BY DEF ToSet
  <2>. HIDE DEF P, items
  <2>3. items \in Seq(T)
    BY ItemsAre DEF items
  <2>4. ToSet(At(items, P)) = {items[n] : n \in P \cap DOMAIN items}
    BY <2>3, AtType
  <2>. QED  BY <2>1, <2>2, <2>4 DEF items
<1>. QED  BY <1>1, <1>2

LEMMA NextPagesName ==
  ASSUME NEW u \in Resources, NEW depth
  PROVE  ToSet(SeveralAlbums_NextPages(u, depth)) =
           IF u.endpoint = "albums?ids" /\ config.discographies
           THEN {TracksPage(a, 2, depth) : a \in {b \in Resolved(u) : Len(AlbumPages[b]) > 1}} ELSE {}
<1>1. CASE ~(u.endpoint = "albums?ids" /\ config.discographies)
  BY <1>1, ToSetEmpty DEF SeveralAlbums_NextPages
<1>2. CASE u.endpoint = "albums?ids" /\ config.discographies
  <2>. DEFINE long == LongAlbums(u)
              f == SeveralAlbums_NextPages(u, depth)
  <2>1. DOMAIN f = DOMAIN long /\ \A i \in DOMAIN long : f[i] = TracksPage(long[i], 2, depth)
    BY <1>2 DEF SeveralAlbums_NextPages, TracksPage
  <2>2. u.ids \in Seq(Albums)
    BY <1>2, Url_Is DEF KindOf
  <2>3. ToSet(long) = {b \in Resolved(u) : Len(AlbumPages[b]) > 1}
    BY <2>2, ItemsName
  <2>. HIDE DEF f, long
  <2>4. ToSet(f) = {f[i] : i \in DOMAIN long} /\ ToSet(long) = {long[i] : i \in DOMAIN long}
    BY <2>1 DEF ToSet
  <2>5. ToSet(f) = {TracksPage(a, 2, depth) : a \in ToSet(long)}
    BY <2>1, <2>4
  <2>. QED  BY <1>2, <2>3, <2>5 DEF f
<1>. QED  BY <1>1, <1>2

LEMMA FollowLinksName ==
  ASSUME config \in Configurations, NEW r \in Messages
  PROVE  ToSet(FollowLinks(r)) =
           ToSet(SeveralAlbums_NextPages(r.url, r.depth))
             \cup (IF r.depth > 0 THEN ToSet(Neighbours(r.url, r.depth - 1)) ELSE {})
<1>. DEFINE L == SeveralAlbums_NextPages(r.url, r.depth)
            M == IF r.depth > 0 THEN Neighbours(r.url, r.depth - 1) ELSE <<>>
<1>1. r.url \in Resources /\ r.depth \in Depths
  BY DEF Messages
<1>2. L \in Seq(Messages)
  BY <1>1, NextPagesAre
<1>3. M \in Seq(Messages)
  <2>1. CASE r.depth > 0
    <3>1. r.depth - 1 \in Depths
      BY <1>1, <2>1, DepthsAre
    <3>. QED  BY <1>1, <2>1, <3>1, NeighboursAre
  <2>2. CASE ~(r.depth > 0)
    BY <2>2, EmptySeq
  <2>. QED  BY <2>1, <2>2
<1>4. ToSet(M) = IF r.depth > 0 THEN ToSet(Neighbours(r.url, r.depth - 1)) ELSE {}
  BY ToSetEmpty
<1>5. FollowLinks(r) = L \o M
  BY DEF FollowLinks
<1>. HIDE DEF L, M
<1>6. ToSet(L \o M) = ToSet(L) \cup ToSet(M)
  BY <1>2, <1>3, ToSetConcat
<1>. QED  BY <1>4, <1>5, <1>6 DEF L

LEMMA LinksAre ==
  ASSUME config \in Configurations, NEW r \in Messages, r.url.endpoint # "albums?ids"
  PROVE  LET L == ToSet(FollowLinks(r))
             u == r.url
             S == ToSet(u.ids)
             d == r.depth - 1
         IN /\ ~(r.depth > 0) => L = {}
            /\ r.depth > 0 =>
                 /\ u.endpoint = "me/tracks" => AskLikedSongs(L, ToSet(Page(u)), d)
                 /\ u.endpoint = "tracks/{id}" => AskNeighbours(L, S, d, AlbumsBy, ArtistsBy)
                 /\ u.endpoint = "albums/{id}" => Only(L, {ArtistsBy}) /\ Asks(L, ArtistsBy, CreatorsOf(S), d)
                 /\ u.endpoint = "albums/{id}/tracks" =>
                      Only(L, {"artists?ids"}) /\ Asks(L, "artists?ids", CreditsOf(ToSet(Page(u))), d)
                 /\ u.endpoint = "artists/{id}/albums" =>
                      Only(L, {"albums?ids"}) /\ Asks(L, "albums?ids", ToSet(Page(u)), d)
                 /\ u.endpoint \in {"artists/{id}", "artists?ids", "me/playlists"} => L = {}
<1>1. r.url \in Resources /\ r.depth \in Depths /\ r.url.endpoint # "albums?ids"
  BY DEF Messages
<1>2. PICK u \in Resources : u = r.url
  BY <1>1
<1>. DEFINE L == ToSet(FollowLinks(r))
            d == r.depth - 1
<1>3. L = IF r.depth > 0 THEN ToSet(Neighbours(u, d)) ELSE {}
  BY <1>1, <1>2, FollowLinksName, NextPagesName
<1>. SUFFICES ASSUME r.depth > 0
     PROVE  /\ u.endpoint = "me/tracks" => AskLikedSongs(L, ToSet(Page(u)), d)
            /\ u.endpoint = "tracks/{id}" => AskNeighbours(L, ToSet(u.ids), d, AlbumsBy, ArtistsBy)
            /\ u.endpoint = "albums/{id}" => Only(L, {ArtistsBy}) /\ Asks(L, ArtistsBy, CreatorsOf(ToSet(u.ids)), d)
            /\ u.endpoint = "albums/{id}/tracks" =>
                 Only(L, {"artists?ids"}) /\ Asks(L, "artists?ids", CreditsOf(ToSet(Page(u))), d)
            /\ u.endpoint = "artists/{id}/albums" =>
                 Only(L, {"albums?ids"}) /\ Asks(L, "albums?ids", ToSet(Page(u)), d)
            /\ u.endpoint \in {"artists/{id}", "artists?ids", "me/playlists"} => L = {}
  BY <1>2, <1>3
<1>4. d \in Depths
  BY <1>1, DepthsAre
<1>5. L = ToSet(Neighbours(u, d))
  BY <1>3
<1>. HIDE DEF L, d
<1>6. CASE u.endpoint = "me/tracks"
  <2>1. Neighbours(u, d) = LikedSongs_Neighbours(Page(u), d)
    BY <1>6 DEF Neighbours
  <2>2. Page(u) \in Seq(Tracks)
    BY <1>6, PageIs, LikedTracks
  <2>. QED  BY <1>4, <1>5, <1>6, <2>1, <2>2, LikedSongsAsk
<1>7. CASE u.endpoint = "tracks/{id}"
  <2>1. Neighbours(u, d) = SingleTrack_Neighbours(u.ids, d)
    BY <1>7 DEF Neighbours
  <2>2. u.ids \in Seq(Tracks)
    BY <1>7, Url_Is DEF KindOf
  <2>. QED  BY <1>4, <1>5, <1>7, <2>1, <2>2, SingleTrackAsks
<1>8. CASE u.endpoint = "albums/{id}"
  <2>1. Neighbours(u, d) = SingleAlbum_Neighbours(u.ids[1], d)
    BY <1>8 DEF Neighbours
  <2>2. u.ids[1] \in Albums /\ u.ids = <<u.ids[1]>>
    BY <1>8, Url_Is DEF KindOf, One, Single
  <2>3. PICK a \in Albums : a = u.ids[1]
    BY <2>2
  <2>4. ToSet(u.ids) = {a}
    BY <2>2, <2>3, OneOfList
  <2>. QED  BY <1>4, <1>5, <1>8, <2>1, <2>3, <2>4, SingleAlbumAsk
<1>9. CASE u.endpoint = "albums/{id}/tracks"
  <2>1. Neighbours(u, d) = TracksOfAlbum_Neighbours(Page(u), d)
    BY <1>9 DEF Neighbours
  <2>2. Page(u) \in Seq(Tracks)
    BY <1>9, PageIs
  <2>. QED  BY <1>4, <1>5, <1>9, <2>1, <2>2, PagesAsk
<1>10. CASE u.endpoint = "artists/{id}/albums"
  <2>1. Neighbours(u, d) = Harvest_Neighbours(Page(u), d)
    BY <1>10 DEF Neighbours
  <2>2. Page(u) \in Seq(Albums)
    BY <1>10, PageIs
  <2>. QED  BY <1>4, <1>5, <1>10, <2>1, <2>2, PagesAsk
<1>11. CASE u.endpoint \in {"artists/{id}", "artists?ids", "me/playlists"}
  <2>1. Neighbours(u, d) = <<>>
    BY <1>11 DEF Neighbours
  <2>. QED  BY <1>5, <1>11, <2>1, ToSetEmpty
<1>. QED  BY <1>6, <1>7, <1>8, <1>9, <1>10, <1>11

LEMMA AlbumLinksAre ==
  ASSUME config \in Configurations, NEW r \in Messages, r.url.endpoint = "albums?ids"
  PROVE  LET L == ToSet(FollowLinks(r))
             albums == Resolved(r.url)
         IN /\ Only(L, {"artists?ids", "albums/{id}/tracks"})
            /\ \A q \in L : q.url.endpoint = "artists?ids" => r.depth > 0
            /\ r.depth > 0 =>
                 Asks(L, "artists?ids", CreatorsOf(albums) \cup EmbeddedCredits(albums), r.depth - 1)
            /\ \A q \in L : q.url.endpoint = "albums/{id}/tracks" =>
                 config.discographies /\ \E a \in albums : q = TracksPage(a, 2, r.depth)
            /\ config.discographies => \A a \in albums :
                 Len(AlbumPages[a]) > 1 => TracksPage(a, 2, r.depth) \in L
<1>1. r.url \in Resources /\ r.depth \in Depths
  BY DEF Messages
<1>2. PICK u \in Resources : u = r.url
  BY <1>1
<1>. DEFINE L == ToSet(FollowLinks(r))
            d == r.depth - 1
            albums == Resolved(u)
            P == ToSet(SeveralAlbums_NextPages(u, r.depth))
            N == IF r.depth > 0 THEN ToSet(Neighbours(u, d)) ELSE {}
            S == CreatorsOf(albums) \cup EmbeddedCredits(albums)
            long == {b \in albums : Len(AlbumPages[b]) > 1}
<1>3. L = P \cup N
  BY <1>2, FollowLinksName
<1>4. P = IF config.discographies THEN {TracksPage(a, 2, r.depth) : a \in long} ELSE {}
  BY <1>2, NextPagesName
<1>5. Only(N, {"artists?ids"}) /\ (r.depth > 0 => Asks(N, "artists?ids", S, d))
  <2>1. CASE ~(r.depth > 0)
    BY <2>1 DEF Only
  <2>2. CASE r.depth > 0
    <3>1. d \in Depths
      BY <1>1, <2>2, DepthsAre
    <3>2. Neighbours(u, d) = SeveralAlbums_Neighbours(Items(u), d)
      BY <1>2 DEF Neighbours
    <3>3. u.ids \in Seq(Albums)
      BY <1>2, Url_Is DEF KindOf
    <3>4. Items(u) \in Seq(Albums) /\ ToSet(Items(u)) = albums
      BY <3>3, ItemsAre, ItemsName
    <3>5. N = ToSet(SeveralAlbums_Neighbours(Items(u), d))
      BY <2>2, <3>2
    <3>. HIDE DEF N, albums, d
    <3>. QED  BY <3>1, <3>4, <3>5, SeveralAlbumsAsk
  <2>. QED  BY <2>1, <2>2
<1>6. N # {} => r.depth > 0
  OBVIOUS
<1>7. \A a \in albums : TracksPage(a, 2, r.depth).url.endpoint = "albums/{id}/tracks"
  BY DEF TracksPage, Request, Url
<1>. HIDE DEF L, P, N, S, d, albums
<1>8. Only(P, {"albums/{id}/tracks"})
  BY <1>4, <1>7 DEF Only
<1>9. r.depth > 0 => Asks(L, "artists?ids", S, d)
  BY <1>3, <1>5, <1>8, AsksBeside
<1>10. /\ Only(L, {"artists?ids", "albums/{id}/tracks"})
       /\ \A q \in L : q.url.endpoint = "artists?ids" => q \in N
       /\ \A q \in L : q.url.endpoint = "albums/{id}/tracks" => q \in P
  BY <1>3, <1>5, <1>8 DEF Only
<1>11. \A q \in L : q.url.endpoint = "artists?ids" => r.depth > 0
  BY <1>6, <1>10
<1>12. \A q \in L : q.url.endpoint = "albums/{id}/tracks" =>
         config.discographies /\ \E a \in albums : q = TracksPage(a, 2, r.depth)
  BY <1>4, <1>10
<1>13. config.discographies => \A a \in albums : Len(AlbumPages[a]) > 1 => TracksPage(a, 2, r.depth) \in L
  BY <1>3, <1>4
<1>. QED  BY <1>2, <1>9, <1>10, <1>11, <1>12, <1>13 DEF L, S, albums, d

-----------------------------------------------------------------------------
(* Where a request is.  Once marked it is in the request queue, given up    *)
(* with a 404, or on its way: its writes in the graph, in a queue or lost,  *)
(* its links and its next page marked or about to be.                       *)

LikedSongs == Request(Url("me/tracks", <<>>, 1), config.depth)

Stored(g, u) == \A w \in ToSet(Writes(u)) : Holds(g, w)

Gone(r)  == r.url.endpoint \in Single /\ r.url.ids[1] \in Unknown
Asked(r) == r \in crawled \/ Gone(r)

Through(r) ==
  /\ r \in ToSet(stores) \cup lost \/ Stored(graph, r.url)
  /\ r \in ToSet(follows) \/ \A q \in ToSet(FollowLinks(r)) : Asked(q)
  /\ HasNext(r.url) => Asked(Request(NextPage(r.url), r.depth))

CoverInv ==
  /\ runs > 0 => LikedSongs \in crawled
  /\ \A r \in crawled : Gone(r) \/ r \in ToSet(requests) \/ Through(r)
  /\ \A r \in ToSet(requests) : Asked(r)
  /\ \A r \in ToSet(stores) \cup ToSet(follows) \cup lost : r \in crawled /\ ~Gone(r)
  /\ \A u \in enriched : Stored(graph, u)

LEMMA CoverInit == Init => CoverInv
<1>. SUFFICES ASSUME Init PROVE CoverInv
  OBVIOUS
<1>1. ToSet(requests) = {} /\ ToSet(stores) = {} /\ ToSet(follows) = {}
  BY ToSetEmpty DEF Init
<1>2. crawled = {} /\ lost = {} /\ enriched = {} /\ runs = 0
  BY DEF Init
<1>. QED  BY <1>1, <1>2 DEF CoverInv

LEMMA SameHandlers ==
  ASSUME config' = config
  PROVE  /\ \A u : Writes(u)' = Writes(u)
         /\ \A r : FollowLinks(r)' = FollowLinks(r)
<1>1. ASSUME NEW u PROVE Writes(u)' = Writes(u)
  BY DEF Writes, LikedSongs_Write, SeveralAlbums_Write
<1>2. ASSUME NEW r PROVE FollowLinks(r)' = FollowLinks(r)
  BY DEF FollowLinks, SeveralAlbums_NextPages, Neighbours, LikedSongs_Neighbours,
     SingleTrack_Neighbours, SeveralAlbums_Neighbours, SingleAlbum_Neighbours
<1>. QED  BY <1>1, <1>2

LEMMA StoredStays ==
  ASSUME NEW g, NEW h \in Above(g), NEW u, Stored(g, u)
  PROVE  Stored(h, u)
BY DEF Stored, Holds, Above

(* What a step may do to requests: not lose a mark but of one given up, not *)
(* take one from a queue but for the next or for the graph, and not unwrite *)
(* anything.                                                                *)
LEMMA CoverKept ==
  ASSUME CoverInv, config' = config, lost \subseteq lost', graph' \in Above(graph),
         runs' > 0 => runs > 0 \/ LikedSongs \in crawled',
         \A r \in crawled : r \in crawled' \/ Gone(r),
         \A r \in crawled' : r \in crawled \/ r \in ToSet(requests'),
         \A r \in ToSet(requests') : Asked(r)',
         \A r \in ToSet(requests) :
           \/ Gone(r) \/ r \in ToSet(requests')
           \/ /\ r \in ToSet(stores') /\ r \in ToSet(follows')
              /\ HasNext(r.url) => Request(NextPage(r.url), r.depth) \in crawled',
         \A r \in ToSet(stores) : r \in ToSet(stores') \cup lost' \/ Stored(graph', r.url),
         \A r \in ToSet(follows) : r \in ToSet(follows') \/ \A q \in ToSet(FollowLinks(r)) : q \in crawled',
         \A r \in ToSet(stores') \cup ToSet(follows') \cup lost' : r \in crawled' /\ ~Gone(r),
         \A u \in enriched' : u \in enriched \/ Stored(graph', u)
  PROVE  CoverInv'
<1>1. LikedSongs' = LikedSongs /\ ~Gone(LikedSongs)
  BY DEF LikedSongs, Gone, Request, Url, Single
<1>2. runs' > 0 => LikedSongs' \in crawled'
  BY <1>1 DEF CoverInv
<1>3. \A r : Asked(r) => Asked(r)'
  BY DEF Asked
<1>4. \A u : Stored(graph', u) <=> Stored(graph, u)'
  BY SameHandlers DEF Stored
<1>5. \A u : Stored(graph, u) => Stored(graph, u)'
  BY <1>4, StoredStays
<1>6. ASSUME NEW r \in crawled', ~Gone(r), r \notin ToSet(requests')
      PROVE  Through(r)'
  <2>1. CASE r \in ToSet(requests)
    BY <1>6, <2>1 DEF Through, Asked
  <2>2. CASE Through(r)
    <3>1. r \in ToSet(stores') \cup lost' \/ Stored(graph, r.url)'
      BY <1>4, <1>5, <2>2 DEF Through
    <3>2. r \in ToSet(follows') \/ \A q \in ToSet(FollowLinks(r)) : Asked(q)'
      BY <1>3, <2>2 DEF Through, Asked
    <3>3. HasNext(r.url) => Asked(Request(NextPage(r.url), r.depth))'
      BY <1>3, <2>2 DEF Through
    <3>. QED  BY <3>1, <3>2, <3>3, SameHandlers DEF Through
  <2>. QED  BY <1>6, <2>1, <2>2 DEF CoverInv
<1>7. \A u \in enriched' : Stored(graph, u)'
  BY <1>4, <1>5 DEF CoverInv
<1>. QED  BY <1>2, <1>6, <1>7 DEF CoverInv, Gone

LEMMA StillAbove ==
  ASSUME TypeInv, UNCHANGED graph
  PROVE  graph' \in Above(graph)
BY DEF TypeInv, Above

LEMMA CoverByPublish ==
  ASSUME TypeInv, CoverInv, config' = config, UNCHANGED <<stores, graph, lost, enriched>>,
         NEW reqs \in Seq(Messages), Publish(requests, reqs),
         runs' > 0 => runs > 0 \/ LikedSongs \in ToSet(reqs),
         ToSet(follows') \subseteq ToSet(follows),
         \A r \in ToSet(follows) : r \in ToSet(follows') \/ ToSet(FollowLinks(r)) \subseteq ToSet(reqs)
  PROVE  CoverInv'
<1>1. ToSet(requests') = ToSet(requests) \cup (ToSet(reqs) \ crawled) /\ crawled' = crawled \cup ToSet(reqs)
  BY PublishIs DEF TypeInv
<1>2. graph' \in Above(graph)
  BY StillAbove
<1>3. \A r \in ToSet(requests') : Asked(r)'
  BY <1>1 DEF CoverInv, Asked
<1>4. \A r \in ToSet(stores') \cup ToSet(follows') \cup lost' : r \in crawled' /\ ~Gone(r)
  BY <1>1 DEF CoverInv
<1>. QED  BY <1>1, <1>2, <1>3, <1>4, CoverKept

LEMMA CoverBySeed ==
  ASSUME TypeInv, CoverInv, Seed
  PROVE  CoverInv'
<1>. DEFINE a == LikedSongs
            b == Request(Url("me/playlists", <<>>, 1), config.depth)
<1>1. PICK seeds \in DiscographySeeds : Publish(requests, <<a, b>> \o seeds)
  BY DEF Seed, LikedSongs
<1>2. a \in Messages /\ b \in Messages
  BY LikedSongsAre DEF TypeInv, LikedSongs
<1>3. seeds \in Seq(Messages)
  BY SeedsAre
<1>. DEFINE ab == <<a, b>>
<1>. HIDE DEF a, b
<1>4. ab \in Seq(Messages) /\ a \in ToSet(ab)
  <2>1. ab \in Seq(Messages) /\ Len(ab) = 2 /\ ab[1] = a
    BY <1>2
  <2>. HIDE DEF ab
  <2>. QED  BY <2>1, ListMembers
<1>5. Publish(requests, ab \o seeds)
  BY <1>1
<1>. HIDE DEF ab
<1>6. ab \o seeds \in Seq(Messages) /\ a \in ToSet(ab \o seeds)
  BY <1>3, <1>4, ConcatProperties, ToSetConcat
<1>7. config' = config /\ UNCHANGED <<stores, graph, lost, enriched, follows>>
  BY DEF Seed, backfilling
<1>. QED  BY <1>5, <1>6, <1>7, CoverByPublish DEF a

LEMMA CoverByFollow ==
  ASSUME TypeInv, CoverInv, Worker_FollowLinks
  PROVE  CoverInv'
<1>1. /\ Head(follows) \in Messages
      /\ ToSet(follows) = {Head(follows)} \cup ToSet(Tail(follows)) /\ follows' = Tail(follows)
  BY HeadAndTail DEF TypeInv, Worker_FollowLinks
<1>2. FollowLinks(Head(follows)) \in Seq(Messages)
  BY <1>1, FollowLinksAre DEF TypeInv
<1>3. /\ Publish(requests, FollowLinks(Head(follows)))
      /\ config' = config /\ UNCHANGED <<stores, graph, lost, enriched, runs>>
  BY DEF Worker_FollowLinks, backfilling
<1>. QED  BY <1>1, <1>2, <1>3, CoverByPublish

LEMMA CoverByEngine ==
  ASSUME TypeInv, CoverInv, Engine_Fetch
  PROVE  CoverInv'
<1>. DEFINE req == Head(requests)
            rest == Tail(requests)
            next == IF HasNext(req.url) THEN <<Request(NextPage(req.url), req.depth)>> ELSE <<>>
<1>1. req \in Messages /\ rest \in Seq(Messages) /\ ToSet(requests) = {req} \cup ToSet(rest)
  BY HeadAndTail DEF TypeInv, Engine_Fetch
<1>2. UNCHANGED <<config, graph, runs, lost, enriched>> /\ graph' \in Above(graph)
  BY StillAbove DEF Engine_Fetch, backfilling
<1>3. CASE Gone(req) /\ requests' = rest /\ crawled' = crawled \ {req} /\ UNCHANGED <<stores, follows>>
  <2>. HIDE DEF req, rest
  <2>1. \A r \in ToSet(requests') : Asked(r)'
    BY <1>1, <1>3 DEF CoverInv, Asked, Gone
  <2>2. \A r \in ToSet(stores') \cup ToSet(follows') \cup lost' : r \in crawled' /\ ~Gone(r)
    BY <1>2, <1>3 DEF CoverInv
  <2>3. ~Gone(LikedSongs)
    BY DEF LikedSongs, Gone, Request, Url, Single
  <2>4. \A r \in crawled : r \in crawled' \/ Gone(r)
    BY <1>3
  <2>. QED  BY <1>1, <1>2, <1>3, <2>1, <2>2, <2>3, <2>4, CoverKept DEF CoverInv
<1>4. CASE ~Gone(req) /\ Publish(rest, next) /\ stores' = Append(stores, req) /\ follows' = Append(follows, req)
  <2>. HIDE DEF req, rest
  <2>1. next \in Seq(Messages) /\ (HasNext(req.url) => Request(NextPage(req.url), req.depth) \in ToSet(next))
    BY <1>1, NextPageIs, OneOfList, EmptySeq
  <2>. HIDE DEF next
  <2>2. ToSet(requests') = ToSet(rest) \cup (ToSet(next) \ crawled) /\ crawled' = crawled \cup ToSet(next)
    BY <1>1, <1>4, <2>1, PublishIs DEF TypeInv
  <2>3. ToSet(stores') = ToSet(stores) \cup {req} /\ ToSet(follows') = ToSet(follows) \cup {req}
    BY <1>1, <1>4, ToSetAppend DEF TypeInv
  <2>4. req \in crawled
    BY <1>1, <1>4 DEF CoverInv, Asked
  <2>5. \A r \in ToSet(requests') : Asked(r)'
    BY <1>1, <2>2 DEF CoverInv, Asked
  <2>6. \A r \in ToSet(stores') \cup ToSet(follows') \cup lost' : r \in crawled' /\ ~Gone(r)
    BY <1>2, <1>4, <2>2, <2>3, <2>4 DEF CoverInv
  <2>. QED  BY <1>1, <1>2, <2>1, <2>2, <2>3, <2>5, <2>6, CoverKept
<1>. QED  BY <1>3, <1>4 DEF Engine_Fetch, Gone

(* A write that succeeds leaves what the handler writes.                    *)
LEMMA WriteStores ==
  ASSUME NEW g \in Graphs, NEW u \in Resources
  PROVE  Stored(Written(g, Writes(u)), u)
BY WritesAre, WrittenHolds DEF Stored

LEMMA CoverByStore ==
  ASSUME TypeInv, CoverInv, Worker_Store \/ Worker_StoreFails
  PROVE  CoverInv'
<1>0. PICK msg : msg = Head(stores)
  OBVIOUS
<1>1. /\ msg \in Messages /\ ToSet(stores) = {msg} \cup ToSet(stores')
      /\ config' = config /\ UNCHANGED <<crawled, requests, follows, runs, enriched>>
      /\ lost \subseteq lost' /\ lost' \subseteq lost \cup {msg}
  BY <1>0, HeadAndTail DEF TypeInv, Worker_Store, Worker_StoreFails, backfilling
<1>2. graph \in Graphs /\ msg.url \in Resources
  BY <1>1 DEF TypeInv, Messages
<1>3. graph' \in Above(graph)
  BY <1>0, <1>2, WrittenIs DEF Worker_Store, Worker_StoreFails
<1>4. msg \in lost' \/ Stored(graph', msg.url)
  <2>1. CASE Worker_Store
    BY <1>0, <1>2, <2>1, WriteStores DEF Worker_Store
  <2>2. CASE Worker_StoreFails
    BY <1>0, <2>2 DEF Worker_StoreFails
  <2>. QED  BY <2>1, <2>2
<1>5. \A r \in ToSet(requests') : Asked(r)'
  BY <1>1 DEF CoverInv, Asked
<1>6. \A r \in ToSet(stores') \cup ToSet(follows') \cup lost' : r \in crawled' /\ ~Gone(r)
  BY <1>1 DEF CoverInv
<1>. QED  BY <1>1, <1>3, <1>4, <1>5, <1>6, CoverKept

LEMMA BatchUrl ==
  ASSUME TypeInv, backfill # NoBackfill
  PROVE  /\ Url(backfill.endpoint, Head(backfill.todo), 1) \in Resources
         /\ backfill.endpoint \in {"tracks?ids", "artists?ids"}
<1>. DEFINE e == backfill.endpoint
            ids == Head(backfill.todo)
<1>1. e \in {"tracks?ids", "artists?ids"} /\ ids \in Batches(KindOf(e))
  <2>. DEFINE todo == backfill.todo
              T == Batches(KindOf(e))
  <2>1. e \in {"tracks?ids", "artists?ids"} /\ todo # <<>> /\ todo \in Seq(T)
    BY BackfillIs
  <2>. HIDE DEF T, todo
  <2>2. Head(todo) \in T
    BY <2>1, HeadAndTail
  <2>. QED  BY <2>1, <2>2 DEF T, todo
<1>2. e \in Endpoints /\ e \notin One
  BY <1>1 DEF Endpoints, One, Single, Several
<1>. HIDE DEF e, ids
<1>3. Url(e, ids, 1) \in Resources
  BY <1>1, <1>2, FirstUrl DEF Batches
<1>. QED  BY <1>1, <1>3 DEF e, ids

LEMMA CoverByBatch ==
  ASSUME TypeInv, CoverInv, Backfill_Batch
  PROVE  CoverInv'
<1>. DEFINE u == Url(backfill.endpoint, Head(backfill.todo), 1)
<1>1. graph' = Written(graph, Writes(u)) /\ enriched' = enriched \cup {u} /\ config' = config
      /\ UNCHANGED <<crawled, requests, stores, follows, runs, lost>>
  BY DEF Backfill_Batch, crawl
<1>2. u \in Resources /\ graph \in Graphs
  BY BatchUrl DEF Backfill_Batch, TypeInv
<1>. HIDE DEF u
<1>3. graph' \in Above(graph) /\ Stored(graph', u)
  BY <1>1, <1>2, WrittenIs, WriteStores
<1>4. \A r \in ToSet(requests') : Asked(r)'
  BY <1>1 DEF CoverInv, Asked
<1>5. \A r \in ToSet(stores') \cup ToSet(follows') \cup lost' : r \in crawled' /\ ~Gone(r)
  BY <1>1 DEF CoverInv
<1>. QED  BY <1>1, <1>3, <1>4, <1>5, CoverKept

LEMMA CoverStep == TypeInv /\ CoverInv /\ [Next]_vars => CoverInv'
<1>. SUFFICES ASSUME TypeInv, CoverInv, [Next]_vars PROVE CoverInv'
  OBVIOUS
<1>1. CASE Seed
  BY <1>1, CoverBySeed
<1>2. CASE Engine_Fetch
  BY <1>2, CoverByEngine
<1>3. CASE Worker_Store \/ Worker_StoreFails
  BY <1>3, CoverByStore
<1>4. CASE Worker_FollowLinks
  BY <1>4, CoverByFollow
<1>5. CASE Backfill_Batch
  BY <1>5, CoverByBatch
<1>6. CASE UNCHANGED <<crawl, graph, enriched>>
  <2>1. /\ config' = config /\ UNCHANGED <<crawled, requests, stores, follows, runs, lost, enriched>>
        /\ graph' \in Above(graph)
    BY <1>6, StillAbove DEF crawl
  <2>2. \A r \in ToSet(requests') : Asked(r)'
    BY <2>1 DEF CoverInv, Asked
  <2>3. \A r \in ToSet(stores') \cup ToSet(follows') \cup lost' : r \in crawled' /\ ~Gone(r)
    BY <2>1 DEF CoverInv
  <2>. QED  BY <2>1, <2>2, <2>3, CoverKept
<1>. QED  BY <1>1, <1>2, <1>3, <1>4, <1>5, <1>6
          DEF Next, Backfill, Backfill_Read, Backfill_Retry, Backfill_Abort, vars, backfilling

LEMMA CoverAlways == Spec => []CoverInv
BY TypeAlways, CoverInit, CoverStep, PTL DEF Spec

-----------------------------------------------------------------------------
(* What an insert of several things writes, it writes of each.              *)

LEMMA CreditsWithin ==
  ASSUME NEW tracks, NEW nodes, NEW edges,
         \A t \in tracks : \A ar \in ToSet(Credits[t]) : ar \in nodes /\ <<ar, t>> \in edges
  PROVE  CreditsOf(tracks) \subseteq nodes /\ CreditEdges(tracks) \subseteq edges
<1>1. ASSUME NEW x \in CreditsOf(tracks) PROVE x \in nodes
  BY DEF CreditsOf
<1>2. ASSUME NEW e \in CreditEdges(tracks) PROVE e \in edges
  <2>1. PICK t \in tracks : \E ar \in ToSet(Credits[t]) : e = <<ar, t>>
    BY DEF CreditEdges
  <2>. QED  BY <2>1
<1>. QED  BY <1>1, <1>2

LEMMA CreatorsWithin ==
  ASSUME NEW albums, NEW nodes, NEW edges,
         \A a \in albums : \A ar \in ToSet(Creators[a]) : ar \in nodes /\ <<ar, a>> \in edges
  PROVE  CreatorsOf(albums) \subseteq nodes /\ CreatorEdges(albums) \subseteq edges
<1>1. ASSUME NEW x \in CreatorsOf(albums) PROVE x \in nodes
  BY DEF CreatorsOf
<1>2. ASSUME NEW e \in CreatorEdges(albums) PROVE e \in edges
  <2>1. PICK a \in albums : \E ar \in ToSet(Creators[a]) : e = <<ar, a>>
    BY DEF CreatorEdges
  <2>. QED  BY <2>1
<1>. QED  BY <1>1, <1>2

LEMMA TracksInserted ==
  ASSUME NEW g, NEW tracks, NEW credited, NEW liked, credited \cup liked \subseteq tracks
  PROVE  /\ Holds(g, InsertCredited(tracks, credited, liked)) =>
              \A part, creds, some : part \subseteq tracks /\ creds \subseteq credited /\ some \subseteq liked =>
                Holds(g, InsertCredited(part, creds, some))
         /\ (\A t \in tracks : Holds(g, InsertCredited({t}, {t} \cap credited, {t} \cap liked))) =>
              Holds(g, InsertCredited(tracks, credited, liked))
<1>1. ASSUME Holds(g, InsertCredited(tracks, credited, liked)), NEW part, NEW creds, NEW some,
             part \subseteq tracks, creds \subseteq credited, some \subseteq liked
      PROVE  Holds(g, InsertCredited(part, creds, some))
  <2>1. /\ CreditsOf(creds) \subseteq CreditsOf(credited) /\ CreditEdges(creds) \subseteq CreditEdges(credited)
        /\ AlbumArtistEdges(part) \subseteq AlbumArtistEdges(tracks)
        /\ {AlbumOf[t] : t \in part} \subseteq {AlbumOf[t] : t \in tracks}
        /\ {<<AlbumOf[t], t>> : t \in part} \subseteq {<<AlbumOf[t], t>> : t \in tracks}
    BY <1>1 DEF CreditsOf, CreditEdges, AlbumArtistEdges
  <2>2. /\ CreatorsOf({AlbumOf[t] : t \in part}) \subseteq CreatorsOf({AlbumOf[t] : t \in tracks})
        /\ CreatorEdges({AlbumOf[t] : t \in part}) \subseteq CreatorEdges({AlbumOf[t] : t \in tracks})
    <3>. DEFINE A == {AlbumOf[t] : t \in part}
                B == {AlbumOf[t] : t \in tracks}
    <3>1. A \subseteq B
      BY <2>1
    <3>. HIDE DEF A, B
    <3>2. CreatorsOf(A) \subseteq CreatorsOf(B) /\ CreatorEdges(A) \subseteq CreatorEdges(B)
      BY <3>1 DEF CreatorsOf, CreatorEdges
    <3>. QED  BY <3>2 DEF A, B
  <2>. QED  BY <1>1, <2>1, <2>2 DEF Holds, InsertCredited, Insert
<1>2. ASSUME \A t \in tracks : Holds(g, InsertCredited({t}, {t} \cap credited, {t} \cap liked))
      PROVE  Holds(g, InsertCredited(tracks, credited, liked))
  <2>1. ASSUME NEW t \in tracks
        PROVE  /\ t \in g.nodes /\ t \in g.complete /\ AlbumOf[t] \in g.nodes /\ (t \in liked => t \in g.liked)
               /\ <<AlbumOf[t], t>> \in g.contains
               /\ t \in credited => \A ar \in ToSet(Credits[t]) : ar \in g.nodes /\ <<ar, t>> \in g.created
               /\ \A ar \in ToSet(Creators[AlbumOf[t]]) :
                    ar \in g.nodes /\ <<ar, t>> \in g.created /\ <<ar, AlbumOf[t]>> \in g.created
    <3>. DEFINE w == InsertCredited({t}, {t} \cap credited, {t} \cap liked)
    <3>1. Holds(g, w)
      BY <1>2
    <3>2. /\ t \in w.nodes /\ t \in w.always /\ AlbumOf[t] \in w.nodes /\ (t \in liked => t \in w.liked)
          /\ <<AlbumOf[t], t>> \in w.contains
          /\ t \in credited => \A ar \in ToSet(Credits[t]) : ar \in w.nodes /\ <<ar, t>> \in w.created
          /\ \A ar \in ToSet(Creators[AlbumOf[t]]) :
               ar \in w.nodes /\ <<ar, t>> \in w.created /\ <<ar, AlbumOf[t]>> \in w.created
      BY DEF InsertCredited, Insert, CreditsOf, CreatorsOf, CreditEdges, CreatorEdges, AlbumArtistEdges
    <3>. HIDE DEF w
    <3>. QED  BY <3>1, <3>2 DEF Holds
  <2>. DEFINE albums == {AlbumOf[t] : t \in tracks}
              w == InsertCredited(tracks, credited, liked)
  <2>2. /\ w.nodes = tracks \cup albums \cup CreditsOf(credited) \cup CreatorsOf(albums)
        /\ w.created = CreditEdges(credited) \cup CreatorEdges(albums) \cup AlbumArtistEdges(tracks)
        /\ w.always = tracks /\ w.liked = liked /\ w.contains = {<<AlbumOf[t], t>> : t \in tracks}
    BY DEF InsertCredited, Insert
  <2>3. CreditsOf(credited) \subseteq g.nodes /\ CreditEdges(credited) \subseteq g.created
        /\ AlbumArtistEdges(tracks) \subseteq g.created
    <3>1. ASSUME NEW e \in AlbumArtistEdges(tracks) PROVE e \in g.created
      <4>1. PICK t \in tracks : \E ar \in ToSet(Creators[AlbumOf[t]]) : e = <<ar, t>>
        BY DEF AlbumArtistEdges
      <4>. QED  BY <2>1, <4>1
    <3>2. \A t \in credited : \A ar \in ToSet(Credits[t]) : ar \in g.nodes /\ <<ar, t>> \in g.created
      BY <2>1
    <3>3. CreditsOf(credited) \subseteq g.nodes /\ CreditEdges(credited) \subseteq g.created
      <4>1. PICK N, E : N = g.nodes /\ E = g.created
        OBVIOUS
      <4>2. \A t \in credited : \A ar \in ToSet(Credits[t]) : ar \in N /\ <<ar, t>> \in E
        BY <3>2, <4>1
      <4>3. CreditsOf(credited) \subseteq N /\ CreditEdges(credited) \subseteq E
        BY <4>2, CreditsWithin
      <4>. QED  BY <4>1, <4>3
    <3>. QED  BY <3>1, <3>3
  <2>4. \A a \in albums : \E t \in tracks : a = AlbumOf[t]
    OBVIOUS
  <2>5. w.contains \subseteq g.contains /\ albums \subseteq g.nodes
    BY <2>1, <2>2
  <2>. HIDE DEF w, albums
  <2>6. CreatorsOf(albums) \subseteq g.nodes /\ CreatorEdges(albums) \subseteq g.created
    <3>1. ASSUME NEW a \in albums, NEW ar \in ToSet(Creators[a]) PROVE ar \in g.nodes /\ <<ar, a>> \in g.created
      BY <2>1, <2>4
    <3>. QED  BY <3>1, CreatorsWithin
  <2>7. w.nodes \subseteq g.nodes /\ w.created \subseteq g.created
    BY <2>1, <2>2, <2>3, <2>5, <2>6
  <2>8. w.always \subseteq g.complete /\ w.liked \subseteq g.liked
    BY <2>1, <2>2
  <2>. QED  BY <2>5, <2>7, <2>8 DEF Holds, w
<1>. QED  BY <1>1, <1>2

LEMMA AlbumsInserted ==
  ASSUME NEW g, NEW albums
  PROVE  /\ Holds(g, InsertAlbums(albums)) =>
              \A part : part \subseteq albums => Holds(g, InsertAlbums(part))
         /\ (\A a \in albums : Holds(g, InsertAlbums({a}))) => Holds(g, InsertAlbums(albums))
<1>. DEFINE w == InsertAlbums(albums)
<1>1. ASSUME NEW S
      PROVE  LET v == InsertAlbums(S)
             IN /\ v.nodes = S \cup CreatorsOf(S) /\ v.always = S /\ v.created = CreatorEdges(S)
                /\ v.contains = {} /\ v.liked = {}
  BY DEF InsertAlbums, Insert
<1>2. ASSUME Holds(g, InsertAlbums(albums)), NEW part, part \subseteq albums PROVE Holds(g, InsertAlbums(part))
  <2>1. CreatorsOf(part) \subseteq CreatorsOf(albums) /\ CreatorEdges(part) \subseteq CreatorEdges(albums)
    BY <1>2 DEF CreatorsOf, CreatorEdges
  <2>. QED  BY <1>1, <1>2, <2>1 DEF Holds
<1>3. ASSUME \A a \in albums : Holds(g, InsertAlbums({a})) PROVE Holds(g, InsertAlbums(albums))
  <2>1. ASSUME NEW a \in albums
        PROVE  /\ a \in g.nodes /\ a \in g.complete
               /\ \A ar \in ToSet(Creators[a]) : ar \in g.nodes /\ <<ar, a>> \in g.created
    <3>0. PICK one : one = {a}
      OBVIOUS
    <3>1. one \cup CreatorsOf(one) \subseteq g.nodes /\ one \subseteq g.complete /\ CreatorEdges(one) \subseteq g.created
      <4>1. Holds(g, InsertAlbums(one))
        BY <1>3, <3>0
      <4>. QED  BY <1>1, <4>1 DEF Holds
    <3>2. /\ a \in one
          /\ \A ar \in ToSet(Creators[a]) : ar \in CreatorsOf(one) /\ <<ar, a>> \in CreatorEdges(one)
      BY <3>0 DEF CreatorsOf, CreatorEdges
    <3>. QED  BY <3>1, <3>2
  <2>2. CreatorsOf(albums) \subseteq g.nodes /\ CreatorEdges(albums) \subseteq g.created
    BY <2>1, CreatorsWithin
  <2>. QED  BY <1>1, <2>1, <2>2 DEF Holds
<1>. QED  BY <1>2, <1>3

LEMMA TrackListsInserted ==
  ASSUME NEW g, NEW albums, NEW contains
  PROVE  /\ Holds(g, InsertAlbumTracks(albums, contains)) =>
              \A part, some : part \subseteq albums /\ some \subseteq contains =>
                Holds(g, InsertAlbumTracks(part, some))
         /\ albums \subseteq g.nodes /\ (\A e \in contains : Holds(g, InsertAlbumTracks({}, {e}))) =>
              Holds(g, InsertAlbumTracks(albums, contains))
<1>1. ASSUME NEW S, NEW C
      PROVE  LET v == InsertAlbumTracks(S, C)
             IN /\ v.nodes = S \cup TracksIn(C) \cup CreditsOf(TracksIn(C)) /\ v.always = {}
                /\ v.created = CreditEdges(TracksIn(C)) /\ v.contains = C /\ v.liked = {}
  BY DEF InsertAlbumTracks, Insert, TracksIn
<1>2. ASSUME Holds(g, InsertAlbumTracks(albums, contains)),
             NEW part, NEW some, part \subseteq albums, some \subseteq contains
      PROVE  Holds(g, InsertAlbumTracks(part, some))
  <2>1. TracksIn(some) \subseteq TracksIn(contains)
    BY <1>2 DEF TracksIn
  <2>2. /\ CreditsOf(TracksIn(some)) \subseteq CreditsOf(TracksIn(contains))
        /\ CreditEdges(TracksIn(some)) \subseteq CreditEdges(TracksIn(contains))
    BY <2>1 DEF CreditsOf, CreditEdges
  <2>. QED  BY <1>1, <1>2, <2>1, <2>2 DEF Holds
<1>3. ASSUME albums \subseteq g.nodes, \A e \in contains : Holds(g, InsertAlbumTracks({}, {e}))
      PROVE  Holds(g, InsertAlbumTracks(albums, contains))
  <2>1. ASSUME NEW e \in contains
        PROVE  /\ e \in g.contains /\ e[2] \in g.nodes
               /\ \A ar \in ToSet(Credits[e[2]]) : ar \in g.nodes /\ <<ar, e[2]>> \in g.created
    <3>0. PICK C : C = {e}
      OBVIOUS
    <3>1. /\ TracksIn(C) \cup CreditsOf(TracksIn(C)) \subseteq g.nodes
          /\ CreditEdges(TracksIn(C)) \subseteq g.created /\ C \subseteq g.contains
      <4>1. Holds(g, InsertAlbumTracks({}, C))
        BY <1>3, <3>0
      <4>. QED  BY <1>1, <4>1 DEF Holds
    <3>2. e \in C /\ e[2] \in TracksIn(C)
      BY <3>0 DEF TracksIn
    <3>3. \A ar \in ToSet(Credits[e[2]]) :
            ar \in CreditsOf(TracksIn(C)) /\ <<ar, e[2]>> \in CreditEdges(TracksIn(C))
      BY <3>2 DEF CreditsOf, CreditEdges
    <3>. QED  BY <3>1, <3>2, <3>3
  <2>2. TracksIn(contains) \subseteq g.nodes
    BY <2>1 DEF TracksIn
  <2>3. ASSUME NEW t \in TracksIn(contains), NEW ar \in ToSet(Credits[t]) PROVE ar \in g.nodes /\ <<ar, t>> \in g.created
    BY <2>1 DEF TracksIn
  <2>4. CreditsOf(TracksIn(contains)) \subseteq g.nodes /\ CreditEdges(TracksIn(contains)) \subseteq g.created
    BY <2>3, CreditsWithin
  <2>5. contains \subseteq g.contains
    BY <2>1
  <2>. QED  BY <1>1, <1>3, <2>2, <2>4, <2>5 DEF Holds
<1>. QED  BY <1>2, <1>3

-----------------------------------------------------------------------------
(* A drained crawl: every request that was not given up is written or lost, *)
(* and whatever it leads to was requested.                                  *)

Delivered(g) == \A r \in crawled : Gone(r) \/ Stored(g, r.url)

LEMMA DrainedIs ==
  ASSUME CoverInv, Drained
  PROVE  /\ LikedSongs \in crawled
         /\ \A r \in crawled : ~Gone(r) =>
              /\ r \in lost \/ Stored(graph, r.url)
              /\ \A q \in ToSet(FollowLinks(r)) : q \in crawled \/ Gone(q)
              /\ HasNext(r.url) =>
                   Request(NextPage(r.url), r.depth) \in crawled \/ Gone(Request(NextPage(r.url), r.depth))
<1>1. ToSet(requests) = {} /\ ToSet(stores) = {} /\ ToSet(follows) = {} /\ runs > 0
  BY ToSetEmpty DEF Drained
<1>. QED  BY <1>1 DEF CoverInv, Through, Asked

LEMMA AllPages ==
  ASSUME CoverInv, Drained, NEW endpoint, endpoint \notin Single, NEW ids, NEW depth,
         NEW first \in Nat, NEW last \in Nat, Len(Pages(Url(endpoint, ids, first))) = last,
         Request(Url(endpoint, ids, first), depth) \in crawled
  PROVE  \A p \in first..last : Request(Url(endpoint, ids, p), depth) \in crawled
<1>. DEFINE r(p) == Request(Url(endpoint, ids, p), depth)
            B == {p \in Nat : first + p <= last => r(first + p) \in crawled}
<1>1. ASSUME NEW p \in Nat
      PROVE  /\ ~Gone(r(p)) /\ (p < last => HasNext(r(p).url))
             /\ Request(NextPage(r(p).url), r(p).depth) = r(p + 1)
  <2>. DEFINE u == Url(endpoint, ids, p)
  <2>1. u.endpoint = endpoint /\ u.page = p /\ NextPage(u) = Url(endpoint, ids, p + 1)
    BY DEF Url, NextPage
  <2>2. Pages(u) = Pages(Url(endpoint, ids, first))
    BY DEF Url, Pages
  <2>3. r(p).url = u /\ r(p).depth = depth
    BY DEF Request
  <2>. HIDE DEF u, r
  <2>4. Request(NextPage(u), depth) = r(p + 1)
    BY <2>1 DEF r
  <2>. QED  BY <2>1, <2>2, <2>3, <2>4 DEF Gone, HasNext
<1>. HIDE DEF r
<1>2. 0 \in B
  BY DEF r
<1>3. ASSUME NEW p \in B, first + (p + 1) <= last PROVE r(first + (p + 1)) \in crawled
  <2>1. PICK n \in Nat : n = first + p
    OBVIOUS
  <2>2. n < last /\ n <= last /\ first + (p + 1) = n + 1
    BY <1>3, <2>1
  <2>3. r(n) \in crawled
    BY <2>1, <2>2
  <2>4. ~Gone(r(n)) /\ HasNext(r(n).url) /\ Request(NextPage(r(n).url), r(n).depth) = r(n + 1)
    BY <1>1, <2>2
  <2>5. ~Gone(r(n + 1))
    BY <1>1
  <2>. QED  BY <2>2, <2>3, <2>4, <2>5, DrainedIs
<1>4. B \in SUBSET Nat /\ \A p \in B : p + 1 \in B
  BY <1>3
<1>. HIDE DEF B
<1>5. B = Nat
  BY <1>2, <1>4, AllNaturals
<1>6. ASSUME NEW p \in first..last PROVE r(p) \in crawled
  <2>1. p - first \in Nat /\ first + (p - first) = p /\ p <= last
    OBVIOUS
  <2>. QED  BY <1>5, <2>1 DEF B
<1>. QED  BY <1>6 DEF r

LEMMA LikedDelivered ==
  ASSUME CoverInv, Drained, NEW g, Delivered(g)
  PROVE  Holds(g, InsertLikedSongs(Liked, LikedBy))
<1>. DEFINE empty == <<>>
            N == Len(LikedPages)
            r(p) == Request(Url("me/tracks", empty, p), config.depth)
<1>1. N \in Nat /\ DOMAIN LikedPages = 1..N
  BY FirstPage, LenProperties
<1>2. r(1) \in crawled
  BY DrainedIs DEF LikedSongs
<1>3. Len(Pages(Url("me/tracks", empty, 1))) = N /\ "me/tracks" \notin Single
  BY DEF Pages, Url, Single
<1>. HIDE DEF empty, N
<1>4. \A p \in 1..N : r(p) \in crawled
  BY <1>1, <1>2, <1>3, AllPages
<1>5. ASSUME NEW p \in 1..N
      PROVE  Holds(g, InsertLikedSongs(ToSet(LikedPages[p]), ToSet(LikedPages[p]) \cap LikedBy))
  <2>. DEFINE u == Url("me/tracks", empty, p)
              page == ToSet(LikedPages[p])
              w == InsertLikedSongs(page, IF config.user THEN page ELSE {})
  <2>1. u.endpoint = "me/tracks" /\ u.page = p /\ r(p).url = u
    BY DEF Url, Request
  <2>2. Page(u) = LikedPages[p]
    BY <2>1 DEF Page, Pages
  <2>3. ~Gone(r(p))
    BY <1>3, <2>1 DEF Gone
  <2>4. Stored(g, u)
    BY <1>4, <2>1, <2>3 DEF Delivered
  <2>. HIDE DEF u
  <2>5. Writes(u) = <<w>>
    BY <2>1, <2>2 DEF Writes, LikedSongs_Write
  <2>. HIDE DEF w
  <2>6. ToSet(Writes(u)) = {w}
    BY <2>5, OneOfList
  <2>7. Holds(g, w)
    BY <2>4, <2>6 DEF Stored
  <2>8. (IF config.user THEN page ELSE {}) = page \cap LikedBy
    BY <1>1, LikedTracks DEF LikedBy
  <2>. QED  BY <2>7, <2>8 DEF w
<1>. DEFINE kept == CreditKept(Liked)
<1>6. ASSUME NEW t \in Liked PROVE Holds(g, InsertCredited({t}, {t} \cap kept, {t} \cap LikedBy))
  <2>1. PICK p \in 1..N : t \in ToSet(LikedPages[p])
    BY <1>1, LikedTracks
  <2>. DEFINE page == ToSet(LikedPages[p])
              part == CreditKept(page)
  <2>2. /\ Holds(g, InsertCredited(page, part, page \cap LikedBy)) /\ {t} \subseteq page
        /\ {t} \cap LikedBy \subseteq page \cap LikedBy /\ part \cup (page \cap LikedBy) \subseteq page
        /\ {t} \cap kept \subseteq part
    BY <1>5, <2>1 DEF InsertLikedSongs, CreditKept
  <2>. HIDE DEF page, part
  <2>. QED  BY <2>2, TracksInserted
<1>7. kept \cup LikedBy \subseteq Liked
  BY DEF LikedBy, CreditKept
<1>. HIDE DEF kept
<1>8. Holds(g, InsertCredited(Liked, kept, LikedBy))
  BY <1>6, <1>7, TracksInserted
<1>. QED  BY <1>8 DEF InsertLikedSongs, kept

-----------------------------------------------------------------------------
(* What a request may ask for.  A request for albums, or for a page of one's *)
(* tracks, is of a discography or, in batches and below the depth of the     *)
(* liked songs, of their albums; one for artists is of artists to be ranked. *)

Sources(depth) ==
  DiscographyAlbums \cup (IF config.batch /\ depth < config.depth THEN LikedAlbums \ Unknown ELSE {})

(* The response that opened an album: its track lists are followed.         *)
Opener(a) == \E q \in crawled : q.url.endpoint = "albums?ids" /\ a \in Resolved(q.url)

Expected(r) ==
  LET e == r.url.endpoint
      S == ToSet(r.url.ids)
  IN /\ e = "me/tracks" => r.depth <= config.depth
     /\ e = "tracks/{id}" => S \subseteq Liked /\ r.depth < config.depth /\ ~config.batch
     /\ e = "albums/{id}" => S \subseteq LikedAlbums /\ r.depth < config.depth
     /\ e \in {"artists/{id}", "artists?ids"} => S \subseteq Ranked \cup Unknown
     /\ e = "albums?ids" => S \subseteq Sources(r.depth) \cup Unknown
     /\ e = "albums/{id}/tracks" =>
          config.discographies /\ S \subseteq Sources(r.depth) /\ \A a \in S : Opener(a)
     /\ e = "artists/{id}/albums" =>
          r.depth = SeedDepth /\ Request(Url(e, r.url.ids, 1), SeedDepth) \in crawled
     /\ e # "tracks?ids"

ExpectInv == \A r \in crawled : Expected(r)

LEMMA PagesOn ==
  ASSUME NEW T, NEW pages \in Seq(Seq(T))
  PROVE  /\ TracksOn(pages) \subseteq T
         /\ \A p \in DOMAIN pages : pages[p] \in Seq(T) /\ ToSet(pages[p]) \subseteq TracksOn(pages)
         /\ \A x \in TracksOn(pages) : \E p \in DOMAIN pages : x \in ToSet(pages[p])
<1>1. FlattenSeq(pages) \in Seq(T) /\ TracksOn(pages) = UNION {ToSet(pages[p]) : p \in DOMAIN pages}
  BY FlattenIs DEF TracksOn
<1>2. \A p \in DOMAIN pages : pages[p] \in Seq(T)
  BY ListMembers
<1>3. TracksOn(pages) \subseteq T
  BY <1>1, ToSetType DEF TracksOn
<1>. QED  BY <1>1, <1>2, <1>3

LEMMA ListedTracks ==
  /\ \A albums, a, t : a \in albums /\ t \in TracksOn(AlbumPages[a]) =>
       <<a, t>> \in Listed(albums) /\ t \in TracksIn(Listed(albums))
  /\ \A albums : \A e \in Listed(albums) : \E a \in albums : \E t \in TracksOn(AlbumPages[a]) : e = <<a, t>>
  /\ \A albums : \A t \in TracksIn(Listed(albums)) : \E a \in albums : t \in TracksOn(AlbumPages[a])
<1>1. ASSUME NEW albums, NEW a \in albums, NEW t \in TracksOn(AlbumPages[a])
      PROVE  <<a, t>> \in Listed(albums) /\ t \in TracksIn(Listed(albums))
  <2>1. <<a, t>> \in Listed(albums) /\ <<a, t>>[2] = t
    BY DEF Listed
  <2>. QED  BY <2>1 DEF TracksIn
<1>2. ASSUME NEW albums, NEW e \in Listed(albums)
      PROVE  \E a \in albums : \E t \in TracksOn(AlbumPages[a]) : e = <<a, t>>
  BY DEF Listed
<1>3. ASSUME NEW albums, NEW t \in TracksIn(Listed(albums)) PROVE \E a \in albums : t \in TracksOn(AlbumPages[a])
  <2>1. PICK e \in Listed(albums) : t = e[2]
    BY DEF TracksIn
  <2>2. PICK a \in albums : \E x \in TracksOn(AlbumPages[a]) : e = <<a, x>>
    BY <1>2
  <2>. QED  BY <2>1, <2>2
<1>. QED  BY <1>1, <1>2, <1>3

LEMMA CreditsGrow ==
  ASSUME NEW S, NEW R, S \subseteq R
  PROVE  /\ CreditsOf(S) \subseteq CreditsOf(R) /\ CreatorsOf(S) \subseteq CreatorsOf(R)
         /\ CreditEdges(S) \subseteq CreditEdges(R) /\ CreatorEdges(S) \subseteq CreatorEdges(R)
         /\ AlbumArtistEdges(S) \subseteq AlbumArtistEdges(R)
         /\ Listed(S) \subseteq Listed(R) /\ TracksIn(S) \subseteq TracksIn(R)
         /\ EmbeddedTracks(S) \subseteq EmbeddedTracks(R)
BY DEF CreditsOf, CreatorsOf, CreditEdges, CreatorEdges, AlbumArtistEdges, Listed, TracksIn, EmbeddedTracks

LEMMA EmbeddedListed ==
  ASSUME NEW albums \in SUBSET Albums
  PROVE  EmbeddedTracks(albums) \subseteq Listed(albums)
<1>. SUFFICES ASSUME NEW e \in EmbeddedTracks(albums) PROVE e \in Listed(albums)
  OBVIOUS
<1>1. PICK a \in albums : \E t \in ToSet(AlbumPages[a][1]) : e = <<a, t>>
  BY DEF EmbeddedTracks
<1>2. ToSet(AlbumPages[a][1]) \subseteq TracksOn(AlbumPages[a])
  BY FirstPage, PagesOn
<1>. QED  BY <1>1, <1>2, ListedTracks

-----------------------------------------------------------------------------
(* The albums of these requests are opened, their artists and those of      *)
(* their tracks are ranked.                                                 *)

LEMMA LikedAlbumsAre == LikedAlbums \subseteq Albums /\ LikedAlbums = AlbumsOf(Liked)
BY LikedTracks, Catalogue DEF LikedAlbums, AlbumsOf

LEMMA DiscographyIs ==
  ASSUME crawled \subseteq Messages
  PROVE  /\ DiscographyAlbums \subseteq Albums \ Unknown
         /\ DiscographyAlbums # {} => config.discographies
         /\ \A r \in crawled : r.url.endpoint = "artists/{id}/albums" =>
              ToSet(Page(r.url)) \subseteq DiscographyAlbums \cup Unknown
<1>1. ASSUME NEW r \in crawled, r.url.endpoint = "artists/{id}/albums"
      PROVE  /\ r.url.ids[1] \in Artists /\ r.url.ids[1] \in Seeded /\ config.discographies
             /\ ToSet(Page(r.url)) \subseteq TracksOn(Discography[r.url.ids[1]])
  <2>1. r.url \in Resources /\ Proper(r.url)
    BY DEF Messages
  <2>2. PICK u \in Resources : u = r.url
    BY <2>1
  <2>3. u.ids[1] \in Artists /\ Pages(u) = Discography[u.ids[1]]
    BY <1>1, <2>2, Url_Is DEF KindOf, One, Pages
  <2>4. u.page \in DOMAIN Discography[u.ids[1]] /\ Page(u) = Discography[u.ids[1]][u.page]
    BY <2>3, FirstPage DEF Resources, Page
  <2>5. ToSet(Page(u)) \subseteq TracksOn(Discography[u.ids[1]])
    BY <2>3, <2>4, FirstPage, PagesOn
  <2>6. r.url.ids[1] \in Seeded
    BY <1>1 DEF Seeded
  <2>7. config.discographies
    BY <1>1, <2>1 DEF Proper
  <2>. QED  BY <2>2, <2>3, <2>5, <2>6, <2>7
<1>2. ASSUME NEW ar \in Seeded
      PROVE  config.discographies /\ TracksOn(Discography[ar]) \subseteq Albums
  <2>1. PICK r \in crawled : r.url.endpoint = "artists/{id}/albums" /\ ar = r.url.ids[1]
    BY DEF Seeded
  <2>2. ar \in Artists /\ config.discographies
    BY <1>1, <2>1
  <2>. QED  BY <2>2, FirstPage, PagesOn
<1>3. ASSUME NEW r \in crawled, r.url.endpoint = "artists/{id}/albums"
      PROVE  ToSet(Page(r.url)) \subseteq DiscographyAlbums \cup Unknown
  BY <1>1, <1>3 DEF DiscographyAlbums
<1>4. DiscographyAlbums \subseteq Albums \ Unknown /\ (DiscographyAlbums # {} => config.discographies)
  BY <1>2 DEF DiscographyAlbums
<1>. QED  BY <1>3, <1>4

LEMMA RankedHas ==
  /\ config.depth >= 1 => CreditsOf(Liked) \subseteq Ranked \cup Unknown
  /\ config.depth >= 2 => CreatorsOf(LikedAlbums \ Unknown) \subseteq Ranked \cup Unknown
  /\ CreatorsOf(DiscographyAlbums) \subseteq Ranked \cup Unknown
  /\ CreditsOf(TracksIn(Listed(OpenedDeep))) \subseteq Ranked \cup Unknown
BY DEF Ranked

LEMMA SourcesOpened ==
  ASSUME TypeInv, NEW depth \in Nat
  PROVE  /\ Sources(depth) \subseteq Albums \ Unknown
         /\ Sources(depth) \subseteq DiscographyAlbums \cup LikedAlbums
         /\ config.discographies => Sources(depth) \subseteq Opened
         /\ depth > 0 => CreatorsOf(Sources(depth)) \subseteq Ranked \cup Unknown
         /\ depth > 0 /\ config.discographies =>
              CreditsOf(TracksIn(Listed(Sources(depth)))) \subseteq Ranked \cup Unknown
<1>1. config.depth \in Nat /\ crawled \subseteq Messages
  BY DepthsAre DEF TypeInv
<1>2. DiscographyAlbums \subseteq Albums \ Unknown /\ LikedAlbums \subseteq Albums
  BY <1>1, DiscographyIs, LikedAlbumsAre
<1>3. Sources(depth) \subseteq Albums \ Unknown /\ Sources(depth) \subseteq DiscographyAlbums \cup LikedAlbums
  BY <1>2 DEF Sources
<1>4. config.discographies => Sources(depth) \subseteq Opened
  BY <1>1 DEF Sources, Opened
<1>5. ASSUME depth > 0 PROVE CreatorsOf(Sources(depth)) \subseteq Ranked \cup Unknown
  <2>1. depth < config.depth => config.depth >= 2
    BY <1>1, <1>5
  <2>2. ASSUME NEW x \in CreatorsOf(Sources(depth))
        PROVE  x \in CreatorsOf(DiscographyAlbums) \/ (config.depth >= 2 /\ x \in CreatorsOf(LikedAlbums \ Unknown))
    BY <2>1 DEF Sources, CreatorsOf
  <2>. QED  BY <2>2, RankedHas
<1>6. ASSUME depth > 0, config.discographies
      PROVE  CreditsOf(TracksIn(Listed(Sources(depth)))) \subseteq Ranked \cup Unknown
  <2>1. Sources(depth) \subseteq OpenedDeep
    <3>1. depth < config.depth => config.depth >= 2
      BY <1>1, <1>6
    <3>. QED  BY <1>4, <1>6, <3>1 DEF Sources, OpenedDeep
  <2>2. Listed(Sources(depth)) \subseteq Listed(OpenedDeep)
    BY <2>1, CreditsGrow
  <2>3. TracksIn(Listed(Sources(depth))) \subseteq TracksIn(Listed(OpenedDeep))
    BY <2>2, CreditsGrow
  <2>4. CreditsOf(TracksIn(Listed(Sources(depth)))) \subseteq CreditsOf(TracksIn(Listed(OpenedDeep)))
    BY <2>3, CreditsGrow
  <2>. QED  BY <2>4, RankedHas
<1>. QED  BY <1>3, <1>4, <1>5, <1>6

-----------------------------------------------------------------------------
(* Every request expected leads to requests expected: the links of its      *)
(* response and its next page.                                              *)

LEMMA ExpectedIs ==
  ASSUME NEW q, NEW S, ToSet(q.url.ids) \subseteq S
  PROVE  /\ q.url.endpoint \in {"artists/{id}", "artists?ids"} /\ S \subseteq Ranked \cup Unknown => Expected(q)
         /\ q.url.endpoint = "albums?ids" /\ S \subseteq Sources(q.depth) \cup Unknown => Expected(q)
         /\ q.url.endpoint = "albums/{id}" /\ S \subseteq LikedAlbums /\ q.depth < config.depth => Expected(q)
         /\ /\ q.url.endpoint = "tracks/{id}" /\ S \subseteq Liked
            /\ q.depth < config.depth /\ ~config.batch
            => Expected(q)
         /\ /\ q.url.endpoint = "albums/{id}/tracks" /\ config.discographies
            /\ S \subseteq Sources(q.depth) /\ \A a \in S : Opener(a)
            => Expected(q)
         /\ q.url.endpoint = "me/tracks" /\ q.depth <= config.depth => Expected(q)
         /\ q.url.endpoint = "me/playlists" => Expected(q)
BY DEF Expected

LEMMA ExpectedOfTracks ==
  ASSUME TypeInv, NEW tracks, tracks \subseteq Liked, NEW depth \in Nat, depth < config.depth,
         NEW Q, NEW q \in Q, q.url.endpoint \in {AlbumsBy, ArtistsBy},
         Asks(Q, AlbumsBy, AlbumsOf(tracks), depth), Asks(Q, ArtistsBy, CreditsOf(tracks), depth)
  PROVE  Expected(q)
<1>1. config.depth \in Nat
  BY DepthsAre DEF TypeInv
<1>2. CASE q.url.endpoint = ArtistsBy
  <2>1. ToSet(q.url.ids) \subseteq CreditsOf(tracks)
    BY <1>2 DEF Asks
  <2>2. CreditsOf(tracks) \subseteq CreditsOf(Liked)
    BY CreditsGrow
  <2>3. CreditsOf(Liked) \subseteq Ranked \cup Unknown
    BY <1>1, RankedHas
  <2>4. q.url.endpoint \in {"artists/{id}", "artists?ids"}
    BY <1>2 DEF ArtistsBy
  <2>. QED  BY <2>1, <2>2, <2>3, <2>4, ExpectedIs
<1>3. CASE q.url.endpoint = AlbumsBy
  <2>1. ToSet(q.url.ids) \subseteq AlbumsOf(tracks) /\ q.depth = depth
    BY <1>3 DEF Asks
  <2>2. AlbumsOf(tracks) \subseteq LikedAlbums
    BY DEF AlbumsOf, LikedAlbums
  <2>3. CASE config.batch
    <3>1. ToSet(q.url.ids) \subseteq Sources(q.depth) \cup Unknown
      BY <2>1, <2>2, <2>3 DEF Sources
    <3>. QED  BY <1>3, <2>3, <3>1, ExpectedIs DEF AlbumsBy
  <2>4. CASE ~config.batch
    BY <1>3, <2>1, <2>2, <2>4, ExpectedIs DEF AlbumsBy
  <2>. QED  BY <2>3, <2>4
<1>. QED  BY <1>2, <1>3

LEMMA ExpectedLinks ==
  ASSUME TypeInv, NEW r \in crawled, Expected(r), ~Gone(r), NEW q \in ToSet(FollowLinks(r))
  PROVE  Expected(q)
<1>. DEFINE L == ToSet(FollowLinks(r))
            e == r.url.endpoint
            S == ToSet(r.url.ids)
<1>0. config \in Configurations /\ config.depth \in Nat /\ SeedDepth \in Nat /\ Depths \subseteq Nat
  BY DepthsAre, Catalogue DEF TypeInv
<1>1. r \in Messages /\ r.url \in Resources /\ r.depth \in Depths /\ crawled \subseteq Messages
  BY DEF TypeInv, Messages
<1>2. PICK u \in Resources : u = r.url
  BY <1>1
<1>3. u.endpoint \in Endpoints /\ u.ids \in Seq(KindOf(u.endpoint))
      /\ (u.endpoint \in One => u.ids[1] \in KindOf(u.endpoint) /\ u.ids = <<u.ids[1]>>)
  BY Url_Is
<1>4. e \in One => S = {r.url.ids[1]}
  <2>1. ASSUME NEW x, u.ids = <<x>> PROVE ToSet(u.ids) = {x}
    BY <2>1, OneOfList
  <2>. QED  BY <1>2, <1>3, <2>1
<1>5. CASE e = "albums?ids"
  <2>. DEFINE albums == Resolved(r.url)
  <2>1. r.depth \in Nat
    BY <1>0, <1>1
  <2>2. albums \subseteq Sources(r.depth)
    BY <1>5 DEF Expected, Resolved
  <2>3. q.url.endpoint \in {"artists?ids", "albums/{id}/tracks"}
    BY <1>0, <1>1, <1>5, AlbumLinksAre DEF Only
  <2>4. CASE q.url.endpoint = "artists?ids"
    <3>1. r.depth > 0 /\ Asks(L, "artists?ids", CreatorsOf(albums) \cup EmbeddedCredits(albums), r.depth - 1)
      BY <1>0, <1>1, <1>5, <2>4, AlbumLinksAre
    <3>2. ToSet(q.url.ids) \subseteq CreatorsOf(albums) \cup EmbeddedCredits(albums)
      BY <2>4, <3>1 DEF Asks
    <3>3. CreatorsOf(albums) \subseteq CreatorsOf(Sources(r.depth))
      BY <2>2, CreditsGrow
    <3>4. CreatorsOf(Sources(r.depth)) \subseteq Ranked \cup Unknown
          /\ (config.discographies => CreditsOf(TracksIn(Listed(Sources(r.depth)))) \subseteq Ranked \cup Unknown)
          /\ Sources(r.depth) \subseteq Albums
      BY <2>1, <3>1, SourcesOpened
    <3>5. EmbeddedCredits(albums) \subseteq Ranked \cup Unknown
      <4>1. CASE config.discographies
        <5>1. EmbeddedTracks(albums) \subseteq Listed(albums) /\ Listed(albums) \subseteq Listed(Sources(r.depth))
          BY <2>2, <3>4, EmbeddedListed, CreditsGrow
        <5>2. TracksIn(EmbeddedTracks(albums)) \subseteq TracksIn(Listed(Sources(r.depth)))
          BY <5>1, CreditsGrow
        <5>3. CreditsOf(TracksIn(EmbeddedTracks(albums))) \subseteq CreditsOf(TracksIn(Listed(Sources(r.depth))))
          BY <5>2, CreditsGrow
        <5>. QED  BY <3>4, <4>1, <5>3 DEF EmbeddedCredits
      <4>2. CASE ~config.discographies
        BY <4>2 DEF EmbeddedCredits
      <4>. QED  BY <4>1, <4>2
    <3>. HIDE DEF albums
    <3>6. ToSet(q.url.ids) \subseteq Ranked \cup Unknown
      BY <3>2, <3>3, <3>4, <3>5
    <3>. QED  BY <2>4, <3>6, ExpectedIs
  <2>5. CASE q.url.endpoint = "albums/{id}/tracks"
    <3>1. config.discographies
      BY <1>0, <1>1, <1>5, <2>5, AlbumLinksAre
    <3>2. PICK a \in albums : q = TracksPage(a, 2, r.depth)
      BY <1>0, <1>1, <1>5, <2>5, AlbumLinksAre
    <3>. DEFINE one == <<a>>
    <3>3. ToSet(one) = {a}
      BY OneOfList
    <3>4. q = Request(Url("albums/{id}/tracks", one, 2), r.depth)
      BY <3>2 DEF TracksPage
    <3>. HIDE DEF one
    <3>5. q.url.ids = one /\ q.depth = r.depth
      BY <3>4 DEF Request, Url
    <3>6. Opener(a)
      BY <1>5 DEF Opener
    <3>7. a \in Sources(q.depth)
      BY <2>2, <3>5
    <3>8. ToSet(q.url.ids) = {a}
      BY <3>3, <3>5
    <3>. QED  BY <2>5, <3>1, <3>6, <3>7, <3>8, ExpectedIs
  <2>. QED  BY <2>3, <2>4, <2>5
<1>6. CASE e # "albums?ids"
  <2>. DEFINE d == r.depth - 1
  <2>1. r.depth > 0
    BY <1>0, <1>1, <1>6, LinksAre
  <2>2. d \in Nat /\ d < r.depth /\ r.depth \in Nat
    <3>1. r.depth \in Nat
      BY <1>0, <1>1
    <3>. QED  BY <2>1, <3>1
  <2>3. CASE e = "me/tracks"
    <3>1. AskLikedSongs(L, ToSet(Page(r.url)), d)
      BY <1>0, <1>1, <1>6, <2>1, <2>3, LinksAre
    <3>2. ToSet(Page(r.url)) \subseteq Liked
      BY <1>2, <2>3, PageIs, LikedTracks
    <3>3. r.depth <= config.depth
      BY <2>3 DEF Expected
    <3>. HIDE DEF d
    <3>4. d < config.depth
      BY <1>0, <2>2, <3>3
    <3>5. CASE q.url.endpoint = "tracks/{id}"
      <4>1. ~config.batch /\ Asks(L, "tracks/{id}", ToSet(Page(r.url)), d)
        BY <3>1, <3>5 DEF AskLikedSongs, AskTracks
      <4>2. ToSet(q.url.ids) \subseteq Liked /\ q.depth < config.depth
        BY <3>2, <3>4, <3>5, <4>1 DEF Asks
      <4>. QED  BY <3>5, <4>1, <4>2, ExpectedIs
    <3>6. CASE q.url.endpoint \in {AlbumsBy, ArtistsBy}
      BY <2>2, <3>1, <3>2, <3>4, <3>6, ExpectedOfTracks DEF AskLikedSongs
    <3>. QED  BY <3>1, <3>5, <3>6 DEF AskLikedSongs, Only
  <2>4. CASE e = "tracks/{id}"
    <3>1. AskNeighbours(L, S, d, AlbumsBy, ArtistsBy)
      BY <1>0, <1>1, <1>6, <2>1, <2>4, LinksAre
    <3>2. S \subseteq Liked /\ r.depth < config.depth
      BY <2>4 DEF Expected
    <3>. HIDE DEF d
    <3>3. d < config.depth
      BY <1>0, <2>2, <3>2
    <3>4. q.url.endpoint \in {AlbumsBy, ArtistsBy}
      BY <3>1 DEF AskNeighbours, Only
    <3>. QED  BY <2>2, <3>1, <3>2, <3>3, <3>4, ExpectedOfTracks DEF AskNeighbours
  <2>5. CASE e = "albums/{id}"
    <3>1. Only(L, {ArtistsBy}) /\ Asks(L, ArtistsBy, CreatorsOf(S), d)
      BY <1>0, <1>1, <1>6, <2>1, <2>5, LinksAre
    <3>2. S \subseteq LikedAlbums \ Unknown /\ config.depth >= 2
      <4>1. r.url.ids[1] \notin Unknown /\ e \in One
        BY <2>5 DEF Gone, One, Single
      <4>2. S \subseteq LikedAlbums /\ r.depth < config.depth
        BY <2>5 DEF Expected
      <4>3. config.depth >= 2
        BY <1>0, <2>1, <2>2, <4>2
      <4>. QED  BY <1>4, <4>1, <4>2, <4>3
    <3>3. CreatorsOf(S) \subseteq CreatorsOf(LikedAlbums \ Unknown)
      BY <3>2, CreditsGrow
    <3>4. q.url.endpoint \in {"artists/{id}", "artists?ids"} /\ ToSet(q.url.ids) \subseteq CreatorsOf(S)
      BY <3>1 DEF Only, Asks, ArtistsBy
    <3>. QED  BY <3>2, <3>3, <3>4, RankedHas, ExpectedIs
  <2>6. CASE e = "albums/{id}/tracks"
    <3>1. Only(L, {"artists?ids"}) /\ Asks(L, "artists?ids", CreditsOf(ToSet(Page(r.url))), d)
      BY <1>0, <1>1, <1>6, <2>1, <2>6, LinksAre
    <3>. DEFINE a == r.url.ids[1]
    <3>2. a \in Sources(r.depth) /\ config.discographies /\ a \in Albums
      BY <1>2, <1>3, <1>4, <2>6 DEF Expected, One, KindOf
    <3>3. ToSet(Page(r.url)) \subseteq TracksOn(AlbumPages[a])
      <4>1. Pages(u) = AlbumPages[a] /\ u.page \in DOMAIN AlbumPages[a]
        BY <1>2, <2>6, <3>2, FirstPage DEF Pages, Resources
      <4>. QED  BY <1>2, <3>2, <4>1, FirstPage, PagesOn DEF Page
    <3>4. ToSet(Page(r.url)) \subseteq TracksIn(Listed(Sources(r.depth)))
      BY <3>2, <3>3, ListedTracks
    <3>5. CreditsOf(ToSet(Page(r.url))) \subseteq CreditsOf(TracksIn(Listed(Sources(r.depth))))
      BY <3>4, CreditsGrow
    <3>6. CreditsOf(TracksIn(Listed(Sources(r.depth)))) \subseteq Ranked \cup Unknown
      BY <2>1, <2>2, <3>2, SourcesOpened
    <3>7. q.url.endpoint = "artists?ids" /\ ToSet(q.url.ids) \subseteq CreditsOf(ToSet(Page(r.url)))
      BY <3>1 DEF Only, Asks
    <3>. QED  BY <3>5, <3>6, <3>7, ExpectedIs
  <2>7. CASE e = "artists/{id}/albums"
    <3>1. Only(L, {"albums?ids"}) /\ Asks(L, "albums?ids", ToSet(Page(r.url)), d)
      BY <1>0, <1>1, <1>6, <2>1, <2>7, LinksAre
    <3>2. ToSet(Page(r.url)) \subseteq DiscographyAlbums \cup Unknown
      BY <1>1, <2>7, DiscographyIs
    <3>3. q.url.endpoint = "albums?ids" /\ ToSet(q.url.ids) \subseteq ToSet(Page(r.url))
      BY <3>1 DEF Only, Asks
    <3>4. DiscographyAlbums \subseteq Sources(q.depth)
      BY DEF Sources
    <3>. QED  BY <3>2, <3>3, <3>4, ExpectedIs
  <2>8. e \notin {"artists/{id}", "artists?ids", "me/playlists"}
    BY <1>0, <1>1, <1>6, <2>1, LinksAre
  <2>9. e # "tracks?ids"
    BY DEF Expected
  <2>. QED  BY <1>2, <1>3, <1>6, <2>3, <2>4, <2>5, <2>6, <2>7, <2>8, <2>9
            DEF Endpoints, Single, Several, Unmapped
<1>. QED  BY <1>5, <1>6

-----------------------------------------------------------------------------

LEMMA ExpectedNext ==
  ASSUME NEW r, r.url \in Resources, Expected(r)
  PROVE  Expected(Request(NextPage(r.url), r.depth))
<1>. DEFINE q == Request(NextPage(r.url), r.depth)
<1>1. q.depth = r.depth /\ q.url = NextPage(r.url)
  BY DEF Request
<1>2. q.url.endpoint = r.url.endpoint /\ q.url.ids = r.url.ids
  <2>1. PICK u \in Resources : u = r.url
    OBVIOUS
  <2>2. NextPage(u).endpoint = u.endpoint /\ NextPage(u).ids = u.ids
    BY Url_Is DEF NextPage
  <2>. QED  BY <1>1, <2>1, <2>2
<1>. HIDE DEF q
<1>3. Expected(q)
  BY <1>1, <1>2 DEF Expected
<1>. QED  BY <1>3 DEF q

(* No page of a discography and no batch loses its mark, so what may be     *)
(* asked for only grows.                                                    *)
LEMMA ExpectedGrows ==
  ASSUME config' = config, \A r \in crawled : r \in crawled' \/ r.url.endpoint \in Single
  PROVE  /\ Opened \subseteq Opened' /\ Ranked \subseteq Ranked'
         /\ \A a : Opener(a) => Opener(a)'
         /\ \A r : Expected(r) => Expected(r)'
<1>0. Liked' = Liked /\ LikedAlbums' = LikedAlbums
  BY DEF Liked, LikedAlbums
<1>1. DiscographyAlbums \subseteq DiscographyAlbums'
  <2>1. Seeded \subseteq Seeded'
    BY DEF Seeded, Single
  <2>. QED  BY <2>1 DEF DiscographyAlbums
<1>2. Opened \subseteq Opened'
  BY <1>0, <1>1 DEF Opened
<1>3. OpenedDeep \subseteq OpenedDeep'
  BY <1>1, <1>2 DEF OpenedDeep
<1>4. Ranked \subseteq Ranked'
  <2>1. CreatorsOf(DiscographyAlbums) \subseteq CreatorsOf(DiscographyAlbums)'
    <3>1. PICK D : D = DiscographyAlbums'
      OBVIOUS
    <3>2. CreatorsOf(D) = CreatorsOf(DiscographyAlbums)'
      BY <3>1 DEF CreatorsOf
    <3>. QED  BY <1>1, <3>1, <3>2, CreditsGrow
  <2>2. CreditsOf(TracksIn(Listed(OpenedDeep))) \subseteq CreditsOf(TracksIn(Listed(OpenedDeep)))'
    <3>1. PICK D : D = OpenedDeep'
      OBVIOUS
    <3>2. CreditsOf(TracksIn(Listed(D))) = CreditsOf(TracksIn(Listed(OpenedDeep)))'
      BY <3>1 DEF CreditsOf, TracksIn, Listed
    <3>3. Listed(OpenedDeep) \subseteq Listed(D)
      BY <1>3, <3>1, CreditsGrow
    <3>4. TracksIn(Listed(OpenedDeep)) \subseteq TracksIn(Listed(D))
      BY <3>3, CreditsGrow
    <3>. QED  BY <3>2, <3>4, CreditsGrow
  <2>3. CreditsOf(Liked)' = CreditsOf(Liked) /\ CreatorsOf(LikedAlbums \ Unknown)' = CreatorsOf(LikedAlbums \ Unknown)
    BY <1>0 DEF CreditsOf, CreatorsOf
  <2>. QED  BY <2>1, <2>2, <2>3 DEF Ranked
<1>5. ASSUME NEW a, Opener(a) PROVE Opener(a)'
  BY <1>5 DEF Opener, Single
<1>6. ASSUME NEW d PROVE Sources(d) \subseteq Sources(d)'
  BY <1>0, <1>1 DEF Sources
<1>7. ASSUME NEW r, Expected(r) PROVE Expected(r)'
  <2>1. ASSUME r.url.endpoint = "artists/{id}/albums"
        PROVE  r.depth = SeedDepth /\ Request(Url(r.url.endpoint, r.url.ids, 1), SeedDepth) \in crawled'
    <3>1. PICK q : q = Request(Url(r.url.endpoint, r.url.ids, 1), SeedDepth)
      OBVIOUS
    <3>2. q.url.endpoint = "artists/{id}/albums"
      BY <2>1, <3>1 DEF Request, Url
    <3>. QED  BY <1>7, <2>1, <3>1, <3>2 DEF Expected, Single
  <2>. QED  BY <1>0, <1>4, <1>5, <1>6, <1>7, <2>1 DEF Expected
<1>. QED  BY <1>2, <1>4, <1>5, <1>7

LEMMA ExpectKept ==
  ASSUME ExpectInv, config' = config,
         \A r \in crawled : r \in crawled' \/ r.url.endpoint \in Single,
         \A r \in crawled' : r \in crawled \/ Expected(r) \/ Expected(r)'
  PROVE  ExpectInv'
<1>1. \A r : Expected(r) => Expected(r)'
  BY ExpectedGrows
<1>. QED  BY <1>1 DEF ExpectInv

LEMMA SeedsName ==
  ASSUME TypeInv, NEW seeds \in DiscographySeeds, NEW r \in ToSet(seeds)
  PROVE  /\ r.depth = SeedDepth /\ r.url.endpoint = "artists/{id}/albums"
         /\ r = Request(Url(r.url.endpoint, r.url.ids, 1), SeedDepth)
<1>1. CASE ~config.discographies
  BY <1>1, ToSetEmpty DEF DiscographySeeds
<1>2. CASE config.discographies
  <2>1. PICK s \in SetToSeqs(Seedable) : seeds = Each("artists/{id}/albums", s, SeedDepth)
    BY <1>2 DEF DiscographySeeds
  <2>2. PICK i \in DOMAIN seeds : r = seeds[i]
    BY DEF ToSet
  <2>. DEFINE one == <<s[i]>>
  <2>3. r = Request(Url("artists/{id}/albums", one, 1), SeedDepth)
    BY <2>1, <2>2 DEF Each
  <2>. HIDE DEF one
  <2>4. r.depth = SeedDepth /\ r.url.endpoint = "artists/{id}/albums" /\ r.url.ids = one
    BY <2>3 DEF Request, Url
  <2>. QED  BY <2>3, <2>4
<1>. QED  BY <1>1, <1>2

LEMMA ExpectBySeed ==
  ASSUME TypeInv, ExpectInv, Seed
  PROVE  ExpectInv'
<1>. DEFINE a == Request(Url("me/tracks", <<>>, 1), config.depth)
            b == Request(Url("me/playlists", <<>>, 1), config.depth)
<1>1. PICK seeds \in DiscographySeeds : Publish(requests, <<a, b>> \o seeds)
  BY DEF Seed
<1>2. a \in Messages /\ b \in Messages /\ config.depth \in Nat
  BY LikedSongsAre, DepthsAre DEF TypeInv
<1>3. seeds \in Seq(Messages)
  BY SeedsAre
<1>4. Expected(a) /\ Expected(b)
  <2>1. a.url.endpoint = "me/tracks" /\ a.depth = config.depth /\ b.url.endpoint = "me/playlists"
    BY DEF Request, Url
  <2>. HIDE DEF a, b
  <2>. QED  BY <1>2, <2>1 DEF Expected
<1>. DEFINE ab == <<a, b>>
<1>. HIDE DEF a, b
<1>5. ab \in Seq(Messages) /\ ToSet(ab) = {a, b}
  <2>1. ab \in Seq(Messages) /\ Len(ab) = 2 /\ ab[1] = a /\ ab[2] = b /\ DOMAIN ab = 1..2
    BY <1>2
  <2>. HIDE DEF ab
  <2>. QED  BY <2>1 DEF ToSet
<1>6. Publish(requests, ab \o seeds)
  BY <1>1
<1>. HIDE DEF ab
<1>7. crawled' = crawled \cup {a, b} \cup ToSet(seeds)
  BY <1>3, <1>5, <1>6, ToSetConcat DEF Publish
<1>8. config' = config
  BY DEF Seed
<1>9. ASSUME NEW r \in ToSet(seeds) PROVE Expected(r)'
  BY <1>7, <1>9, SeedsName DEF Expected
<1>. QED  BY <1>4, <1>7, <1>8, <1>9, ExpectKept

LEMMA ExpectByEngine ==
  ASSUME TypeInv, CoverInv, ExpectInv, Engine_Fetch
  PROVE  ExpectInv'
<1>. DEFINE req == Head(requests)
            rest == Tail(requests)
            next == IF HasNext(req.url) THEN <<Request(NextPage(req.url), req.depth)>> ELSE <<>>
<1>1. req \in Messages /\ req \in ToSet(requests)
  BY HeadAndTail DEF TypeInv, Engine_Fetch
<1>2. config' = config
  BY DEF Engine_Fetch
<1>3. CASE Gone(req) /\ crawled' = crawled \ {req}
  <2>. HIDE DEF req
  <2>. QED  BY <1>2, <1>3, ExpectKept DEF Gone
<1>4. CASE ~Gone(req) /\ Publish(rest, next)
  <2>. HIDE DEF req, rest
  <2>1. req \in crawled
    BY <1>1, <1>4 DEF CoverInv, Asked
  <2>2. ASSUME NEW r \in ToSet(next) PROVE Expected(r)
    <3>1. CASE HasNext(req.url)
      <4>1. r = Request(NextPage(req.url), req.depth)
        BY <2>2, <3>1, OneOfList
      <4>. QED  BY <1>1, <2>1, <4>1, ExpectedNext DEF ExpectInv, Messages
    <3>2. CASE ~HasNext(req.url)
      BY <2>2, <3>2, ToSetEmpty
    <3>. QED  BY <3>1, <3>2
  <2>. HIDE DEF next
  <2>3. crawled' = crawled \cup ToSet(next)
    BY <1>4 DEF Publish
  <2>. QED  BY <1>2, <2>2, <2>3, ExpectKept
<1>. QED  BY <1>3, <1>4 DEF Engine_Fetch, Gone

LEMMA ExpectByFollow ==
  ASSUME TypeInv, CoverInv, ExpectInv, Worker_FollowLinks
  PROVE  ExpectInv'
<1>0. PICK msg : msg = Head(follows)
  OBVIOUS
<1>1. msg \in ToSet(follows) /\ config' = config
  BY <1>0, HeadAndTail DEF TypeInv, Worker_FollowLinks
<1>2. crawled' = crawled \cup ToSet(FollowLinks(msg))
  BY <1>0 DEF Worker_FollowLinks, Publish
<1>3. msg \in crawled /\ ~Gone(msg)
  BY <1>1 DEF CoverInv
<1>4. \A q \in ToSet(FollowLinks(msg)) : Expected(q)
  BY <1>3, ExpectedLinks DEF ExpectInv
<1>. QED  BY <1>1, <1>2, <1>4, ExpectKept

LEMMA ExpectStep == TypeInv /\ CoverInv /\ ExpectInv /\ [Next]_vars => ExpectInv'
<1>. SUFFICES ASSUME TypeInv, CoverInv, ExpectInv, [Next]_vars PROVE ExpectInv'
  OBVIOUS
<1>1. CASE Seed
  BY <1>1, ExpectBySeed
<1>2. CASE Engine_Fetch
  BY <1>2, ExpectByEngine
<1>3. CASE Worker_FollowLinks
  BY <1>3, ExpectByFollow
<1>4. CASE UNCHANGED <<config, crawled>>
  BY <1>4, ExpectKept
<1>. QED  BY <1>1, <1>2, <1>3, <1>4
          DEF Next, Backfill, Backfill_Read, Backfill_Batch, Backfill_Retry, Backfill_Abort,
              Worker_Store, Worker_StoreFails, vars, crawl

LEMMA ExpectAlways == Spec => []ExpectInv
<1>1. Init => ExpectInv
  BY DEF Init, ExpectInv
<1>. QED  BY <1>1, TypeAlways, CoverAlways, ExpectStep, PTL DEF Spec

-----------------------------------------------------------------------------
(* The writes of a handler, as a set.                                       *)

LEMMA WritesName ==
  ASSUME NEW u \in Resources
  PROVE  LET W == ToSet(Writes(u))
             R == Resolved(u)
             a == u.ids[1]
         IN /\ u.endpoint = "me/tracks" => W = {InsertLikedSongs(ToSet(Page(u)), ToSet(Page(u)) \cap LikedBy)}
            /\ u.endpoint = "tracks/{id}" => W = {InsertTracks({a})}
            /\ u.endpoint = "albums/{id}" => W = {InsertSingleAlbum(a)}
            /\ u.endpoint = "artists/{id}" => W = {InsertArtists({a})}
            /\ u.endpoint = "tracks?ids" => W = {InsertTracks(R)}
            /\ u.endpoint = "artists?ids" => W = {InsertArtists(R)}
            /\ u.endpoint = "albums?ids" =>
                 W = {InsertAlbums(R)} \cup
                       (IF config.discographies THEN {InsertAlbumTracks(R, EmbeddedTracks(R))} ELSE {})
            /\ u.endpoint = "albums/{id}/tracks" =>
                 W = {InsertAlbumTracks({a}, {<<a, t>> : t \in ToSet(Page(u))})}
            /\ u.endpoint \in {"artists/{id}/albums", "me/playlists"} => W = {}
<1>. DEFINE W == ToSet(Writes(u))
            a == u.ids[1]
<1>0. ASSUME NEW w PROVE ToSet(<<w>>) = {w}
  BY OneOfList
<1>1. PICK R : R = Resolved(u) /\ R = ToSet(Items(u))
  BY Url_Is, ItemsName
<1>2. CASE u.endpoint = "me/tracks"
  <2>. DEFINE page == ToSet(Page(u))
              w == InsertLikedSongs(page, IF config.user THEN page ELSE {})
  <2>1. Writes(u) = <<w>>
    BY <1>2 DEF Writes, LikedSongs_Write
  <2>2. page \subseteq Liked
    BY <1>2, PageIs, LikedTracks
  <2>3. (IF config.user THEN page ELSE {}) = page \cap LikedBy
    BY <2>2 DEF LikedBy
  <2>. HIDE DEF page
  <2>4. w = InsertLikedSongs(page, page \cap LikedBy)
    BY <2>3
  <2>. HIDE DEF w
  <2>5. W = {w}
    BY <1>0, <2>1
  <2>. QED  BY <1>2, <2>4, <2>5 DEF page
<1>3. CASE u.endpoint = "tracks/{id}"
  <2>1. Writes(u) = <<InsertTracks({a})>>
    BY <1>3 DEF Writes, SingleTrack_Write
  <2>. QED  BY <1>0, <1>3, <2>1
<1>4. CASE u.endpoint = "albums/{id}"
  <2>1. Writes(u) = <<InsertSingleAlbum(a)>>
    BY <1>4 DEF Writes, SingleAlbum_Write
  <2>. QED  BY <1>0, <1>4, <2>1
<1>5. CASE u.endpoint = "artists/{id}"
  <2>1. Writes(u) = <<InsertArtists({a})>>
    BY <1>5 DEF Writes, SingleArtist_Write
  <2>. QED  BY <1>0, <1>5, <2>1
<1>6. CASE u.endpoint = "tracks?ids"
  <2>1. Writes(u) = <<InsertTracks(R)>>
    BY <1>1, <1>6 DEF Writes
  <2>. QED  BY <1>0, <1>1, <1>6, <2>1
<1>7. CASE u.endpoint = "artists?ids"
  <2>1. Writes(u) = <<InsertArtists(R)>>
    BY <1>1, <1>7 DEF Writes
  <2>. QED  BY <1>0, <1>1, <1>7, <2>1
<1>8. CASE u.endpoint = "albums?ids"
  <2>. DEFINE v == InsertAlbums(R)
              w == InsertAlbumTracks(R, EmbeddedTracks(R))
              one == <<v>>
              rest == IF config.discographies THEN <<w>> ELSE <<>>
  <2>1. Writes(u) = one \o rest
    BY <1>1, <1>8 DEF Writes, SeveralAlbums_Write
  <2>2. one \in Seq({v, w}) /\ rest \in Seq({v, w})
    <3>. HIDE DEF v, w
    <3>1. <<v>> \in Seq({v, w}) /\ <<w>> \in Seq({v, w}) /\ <<>> \in Seq({v, w})
      BY OneOfList, EmptySeq
    <3>. QED  BY <3>1
  <2>3. ToSet(one) = {v} /\ ToSet(rest) = IF config.discographies THEN {w} ELSE {}
    BY <1>0, ToSetEmpty
  <2>. HIDE DEF v, w, one, rest
  <2>4. W = ToSet(one) \cup ToSet(rest)
    BY <2>1, <2>2, ToSetConcat
  <2>. QED  BY <1>1, <1>8, <2>3, <2>4 DEF v, w
<1>9. CASE u.endpoint = "albums/{id}/tracks"
  <2>1. Writes(u) = <<InsertAlbumTracks({a}, {<<a, t>> : t \in ToSet(Page(u))})>>
    BY <1>9 DEF Writes, TracksOfAlbum_Write
  <2>. QED  BY <1>0, <1>9, <2>1
<1>10. CASE u.endpoint \in {"artists/{id}/albums", "me/playlists"}
  <2>1. Writes(u) = <<>>
    BY <1>10 DEF Writes, Harvest_Write
  <2>. QED  BY <1>10, <2>1, ToSetEmpty
<1>11. u.endpoint \in Endpoints
  BY Url_Is
<1>. QED  BY <1>2, <1>3, <1>4, <1>5, <1>6, <1>7, <1>8, <1>9, <1>10, <1>11
          DEF Endpoints, Single, Several, Unmapped

-----------------------------------------------------------------------------
(* The closure is a graph that has what four inserts write, and every graph *)
(* that has it is above the closure.                                        *)

LEMMA OpenedAre ==
  ASSUME TypeInv
  PROVE  /\ Opened \subseteq Albums /\ OpenedDeep \subseteq Opened
         /\ Opened \subseteq DiscographyAlbums \cup LikedAlbums /\ DiscographyAlbums \subseteq Opened
         /\ Listed(Opened) \subseteq Opened \X Tracks /\ TracksIn(Listed(Opened)) \subseteq Tracks
<1>1. DiscographyAlbums \subseteq Albums /\ LikedAlbums \subseteq Albums
  BY DiscographyIs, LikedAlbumsAre DEF TypeInv
<1>2. /\ Opened \subseteq Albums /\ OpenedDeep \subseteq Opened
      /\ Opened \subseteq DiscographyAlbums \cup LikedAlbums /\ DiscographyAlbums \subseteq Opened
  BY <1>1 DEF Opened, OpenedDeep
<1>3. \A a \in Opened : TracksOn(AlbumPages[a]) \subseteq Tracks
  BY <1>2, FirstPage, PagesOn
<1>4. ASSUME NEW e \in Listed(Opened) PROVE e \in Opened \X Tracks
  BY <1>3, ListedTracks
<1>5. ASSUME NEW t \in TracksIn(Listed(Opened)) PROVE t \in Tracks
  BY <1>3, ListedTracks
<1>. QED  BY <1>2, <1>4, <1>5

LEMMA ClosureIs ==
  ASSUME TypeInv
  PROVE  /\ Closure \in Graphs /\ NoStubs(Closure, {})
         /\ Holds(Closure, InsertCredited(Liked, CreditedLikes, LikedBy))
         /\ Holds(Closure, InsertAlbums(LikedAlbums \cup Opened))
         /\ Holds(Closure, InsertAlbumTracks(Opened, Listed(Opened)))
         /\ Holds(Closure, InsertArtists(Ranked))
         /\ \A g : /\ Holds(g, InsertCredited(Liked, CreditedLikes, LikedBy)) /\ Holds(g, InsertAlbums(Opened))
                   /\ Holds(g, InsertAlbumTracks(Opened, Listed(Opened))) /\ Holds(g, InsertArtists(Ranked))
                   => Under(Closure, g)
<1>. DEFINE listed == TracksIn(Listed(Opened))
            tracks == Liked \cup listed
            credited == CreditedLikes \cup listed
            albums == LikedAlbums \cup Opened
            c == Closure
<1>1. /\ Liked \subseteq Tracks /\ LikedAlbums = AlbumsOf(Liked) /\ LikedAlbums \subseteq Albums
      /\ Opened \subseteq Albums /\ listed \subseteq Tracks /\ Listed(Opened) \subseteq Opened \X Tracks
      /\ CreditedLikes \subseteq Liked
  BY OpenedAre, LikedTracks, LikedAlbumsAre DEF CreditedLikes, CreditKept, FetchedAlone
<1>2. /\ c.nodes = tracks \cup albums \cup CreditsOf(credited) \cup CreatorsOf(albums) \cup Ranked
      /\ c.complete = Liked \cup albums \cup Ranked
      /\ c.liked = LikedBy
      /\ c.created = CreditEdges(credited) \cup CreatorEdges(albums) \cup AlbumArtistEdges(Liked)
      /\ c.contains = {<<AlbumOf[t], t>> : t \in Liked} \cup Listed(Opened)
      /\ c = [nodes |-> c.nodes, complete |-> c.complete, liked |-> c.liked,
              created |-> c.created, contains |-> c.contains]
  BY DEF Closure, LikedBy, Credited
<1>. DEFINE v == InsertCredited(Liked, CreditedLikes, LikedBy)
            w == InsertAlbums(albums)
            z == InsertAlbums(Opened)
            x == InsertAlbumTracks(Opened, Listed(Opened))
            y == InsertArtists(Ranked)
<1>3. /\ v.nodes = Liked \cup LikedAlbums \cup CreditsOf(CreditedLikes) \cup CreatorsOf(LikedAlbums)
      /\ v.always = Liked /\ v.liked = LikedBy
      /\ v.created = CreditEdges(CreditedLikes) \cup CreatorEdges(LikedAlbums) \cup AlbumArtistEdges(Liked)
      /\ v.contains = {<<AlbumOf[t], t>> : t \in Liked}
  BY DEF InsertCredited, Insert, LikedAlbums
<1>4. ASSUME NEW S
      PROVE  LET i == InsertAlbums(S)
             IN /\ i.nodes = S \cup CreatorsOf(S) /\ i.always = S /\ i.liked = {}
                /\ i.created = CreatorEdges(S) /\ i.contains = {}
  BY DEF InsertAlbums, Insert
<1>5. /\ x.nodes = Opened \cup listed \cup CreditsOf(listed)
      /\ x.always = {} /\ x.liked = {}
      /\ x.created = CreditEdges(listed) /\ x.contains = Listed(Opened)
  BY DEF InsertAlbumTracks, Insert, TracksIn
<1>6. /\ y.nodes = Ranked /\ y.always = Ranked /\ y.liked = {} /\ y.created = {} /\ y.contains = {}
  BY DEF InsertArtists, Insert
<1>7. /\ w.nodes = albums \cup CreatorsOf(albums) /\ w.always = albums /\ w.liked = {}
      /\ w.created = CreatorEdges(albums) /\ w.contains = {}
  BY <1>4
<1>8. /\ z.nodes = Opened \cup CreatorsOf(Opened) /\ z.always = Opened /\ z.liked = {}
      /\ z.created = CreatorEdges(Opened) /\ z.contains = {}
  BY <1>4
<1>9. /\ CreditsOf(credited) = CreditsOf(CreditedLikes) \cup CreditsOf(listed)
      /\ CreditEdges(credited) = CreditEdges(CreditedLikes) \cup CreditEdges(listed)
      /\ CreatorsOf(albums) = CreatorsOf(LikedAlbums) \cup CreatorsOf(Opened)
      /\ CreatorEdges(albums) = CreatorEdges(LikedAlbums) \cup CreatorEdges(Opened)
  <2>. HIDE DEF listed
  <2>. QED  BY DEF CreditsOf, CreditEdges, CreatorsOf, CreatorEdges
<1>. HIDE DEF v, w, x, y, z
<1>. HIDE DEF listed, tracks, credited, albums, c
<1>10. Ranked \subseteq Artists
  <2>1. LikedAlbums \ Unknown \subseteq Albums /\ DiscographyAlbums \subseteq Albums
    BY <1>1, OpenedAre
  <2>2. Listed(OpenedDeep) \subseteq Listed(Opened)
    BY OpenedAre, CreditsGrow
  <2>3. TracksIn(Listed(OpenedDeep)) \subseteq TracksIn(Listed(Opened))
    BY <2>2, CreditsGrow
  <2>4. TracksIn(Listed(OpenedDeep)) \subseteq Tracks /\ Liked \subseteq Tracks
    BY <1>1, <2>3, OpenedAre
  <2>. QED  BY <2>1, <2>4, CreditsAre DEF Ranked
<1>11. c \in Graphs
  <2>1. tracks \subseteq Tracks /\ albums \subseteq Albums /\ credited \subseteq tracks
    BY <1>1 DEF tracks, credited, albums
  <2>2. CreditsOf(credited) \subseteq Artists /\ CreatorsOf(albums) \subseteq Artists
    BY <2>1, CreditsAre
  <2>3. c.nodes \subseteq Ids /\ c.complete \subseteq c.nodes
    BY <1>2, <1>10, <2>1, <2>2 DEF Ids, tracks
  <2>4. c.liked \subseteq c.nodes \cap LikedBy
    BY <1>2 DEF LikedBy, tracks
  <2>5. c.created \subseteq Edges \cap (c.nodes \X c.nodes)
    <3>1. /\ CreditEdges(credited) \subseteq Edges \cap (CreditsOf(credited) \X credited)
          /\ CreatorEdges(albums) \subseteq Edges \cap (CreatorsOf(albums) \X albums)
      BY <2>1, CreditEdgesAre, CreatorEdgesAre
    <3>2. AlbumArtistEdges(Liked) \subseteq Edges \cap (CreatorsOf(LikedAlbums) \X Liked)
      BY <1>1, CreditEdgesAre DEF AlbumsOf
    <3>3. /\ CreditsOf(credited) \subseteq c.nodes /\ credited \subseteq c.nodes /\ Liked \subseteq c.nodes
          /\ CreatorsOf(albums) \subseteq c.nodes /\ albums \subseteq c.nodes /\ CreatorsOf(LikedAlbums) \subseteq c.nodes
      BY <1>2, <1>9, <2>1 DEF tracks
    <3>. QED  BY <1>2, <3>1, <3>2, <3>3
  <2>6. c.contains \subseteq (Albums \X Tracks) \cap (c.nodes \X c.nodes)
    <3>1. ASSUME NEW t \in Liked PROVE <<AlbumOf[t], t>> \in (Albums \X Tracks) \cap (c.nodes \X c.nodes)
      <4>1. AlbumOf[t] \in LikedAlbums
        BY DEF LikedAlbums
      <4>. QED  BY <1>1, <1>2, <4>1 DEF tracks, albums
    <3>2. ASSUME NEW e \in Listed(Opened) PROVE e \in (Albums \X Tracks) \cap (c.nodes \X c.nodes)
      <4>1. PICK a \in Opened : \E t \in TracksOn(AlbumPages[a]) : e = <<a, t>>
        BY ListedTracks
      <4>2. PICK t \in TracksOn(AlbumPages[a]) : e = <<a, t>>
        BY <4>1
      <4>3. t \in listed
        BY <4>1, ListedTracks DEF listed
      <4>. QED  BY <1>1, <1>2, <4>2, <4>3 DEF tracks, albums
    <3>. QED  BY <1>2, <3>1, <3>2
  <2>7. c.created \subseteq Ids \X Ids /\ c.contains \subseteq Ids \X Ids
    BY <2>3, <2>5, <2>6
  <2>8. Sound(c)
    BY <2>4, <2>5, <2>6 DEF Sound
  <2>9. c \in [nodes : SUBSET Ids, complete : SUBSET Ids, liked : SUBSET Ids,
               created : SUBSET (Ids \X Ids), contains : SUBSET (Ids \X Ids)]
    BY <1>2, <2>3, <2>4, <2>7
  <2>. QED  BY <2>3, <2>8, <2>9 DEF Graphs
<1>12. NoStubs(c, {})
  <2>1. tracks \subseteq Tracks /\ CreditsOf(credited) \subseteq Artists /\ CreatorsOf(albums) \subseteq Artists
    BY <1>1, CreditsAre DEF tracks, credited, albums
  <2>2. Tracks \cap Albums = {} /\ Albums \cap Artists = {}
    BY CatalogAssumption
  <2>. QED  BY <1>2, <1>10, <2>1, <2>2 DEF NoStubs
<1>13. Holds(c, v) /\ Holds(c, w) /\ Holds(c, x) /\ Holds(c, y)
  BY <1>2, <1>3, <1>5, <1>6, <1>7, <1>9, <1>10 DEF Holds, tracks, albums
<1>14. ASSUME NEW g, Holds(g, v), Holds(g, z), Holds(g, x), Holds(g, y) PROVE Under(c, g)
  <2>1. LikedAlbums \subseteq Albums /\ Opened \subseteq Albums
    BY <1>1
  <2>2. c.nodes \subseteq g.nodes
    BY <1>2, <1>3, <1>5, <1>6, <1>8, <1>9, <1>14 DEF Holds, tracks, albums
  <2>3. c.complete \subseteq g.complete \cup Albums
    BY <1>2, <1>3, <1>6, <1>14, <2>1 DEF Holds, albums
  <2>4. c.liked \subseteq g.liked /\ c.created \subseteq g.created /\ c.contains \subseteq g.contains
    BY <1>2, <1>3, <1>5, <1>8, <1>9, <1>14 DEF Holds
  <2>. QED  BY <2>2, <2>3, <2>4 DEF Under
<1>. QED  BY <1>11, <1>12, <1>13, <1>14 DEF v, w, x, y, z, c, albums

-----------------------------------------------------------------------------
(* What the handlers of the requests expected write is in the closure; the  *)
(* only albums they leave without a payload are those whose tracks a page   *)
(* lists, and these were opened by a batch.                                 *)

Openers == {a \in Albums : Opener(a)}

Tied(w) ==
  /\ w.ifNew \subseteq Albums
  /\ w.nodes \cap Albums \subseteq w.always \cup w.ifNew \cup Openers

Whole(w) == w.ifNew \subseteq Albums /\ w.nodes \cap Albums \subseteq w.always \cup w.ifNew

LEMMA InsertsWhole ==
  /\ \A tracks \in SUBSET Tracks : \A credited \in SUBSET tracks : \A liked :
       Whole(InsertCredited(tracks, credited, liked))
  /\ \A artists \in SUBSET Artists : Whole(InsertArtists(artists))
<1>0. Tracks \cap Albums = {} /\ Albums \cap Artists = {}
  BY CatalogAssumption
<1>1. ASSUME NEW tracks \in SUBSET Tracks, NEW credited \in SUBSET tracks, NEW liked
      PROVE  Whole(InsertCredited(tracks, credited, liked))
  <2>. DEFINE albums == {AlbumOf[t] : t \in tracks}
              w == InsertCredited(tracks, credited, liked)
  <2>1. w.nodes = tracks \cup albums \cup CreditsOf(credited) \cup CreatorsOf(albums) /\ w.ifNew = albums
    BY DEF InsertCredited, Insert
  <2>2. albums \subseteq Albums
    BY Catalogue
  <2>. HIDE DEF albums, w
  <2>3. CreditsOf(credited) \subseteq Artists /\ CreatorsOf(albums) \subseteq Artists
    BY <2>2, CreditsAre
  <2>4. Whole(w)
    BY <1>0, <2>1, <2>2, <2>3 DEF Whole
  <2>. QED  BY <2>4 DEF w
<1>2. ASSUME NEW artists \in SUBSET Artists PROVE Whole(InsertArtists(artists))
  BY <1>0 DEF Whole, InsertArtists, Insert
<1>. QED  BY <1>1, <1>2

LEMMA InsertsTied ==
  /\ \A tracks \in SUBSET Tracks : \A credited \in SUBSET tracks : \A liked :
       Tied(InsertCredited(tracks, credited, liked))
  /\ \A albums \in SUBSET Albums : Tied(InsertAlbums(albums))
  /\ \A a \in Albums : Tied(InsertSingleAlbum(a))
  /\ \A artists \in SUBSET Artists : Tied(InsertArtists(artists))
  /\ \A albums \in SUBSET Openers : \A contains \in SUBSET (albums \X Tracks) :
       Tied(InsertAlbumTracks(albums, contains))
<1>0. Tracks \cap Albums = {} /\ Albums \cap Artists = {}
  BY CatalogAssumption
<1>1. ASSUME NEW tracks \in SUBSET Tracks, NEW credited \in SUBSET tracks, NEW liked
      PROVE  Tied(InsertCredited(tracks, credited, liked))
  <2>1. PICK w : w = InsertCredited(tracks, credited, liked)
    OBVIOUS
  <2>2. Whole(w)
    BY <2>1, InsertsWhole
  <2>. QED  BY <2>1, <2>2 DEF Whole, Tied
<1>2. ASSUME NEW albums \in SUBSET Albums PROVE Tied(InsertAlbums(albums))
  <2>1. CreatorsOf(albums) \subseteq Artists
    BY CreditsAre
  <2>. QED  BY <1>0, <2>1 DEF Tied, InsertAlbums, Insert
<1>3. ASSUME NEW a \in Albums PROVE Tied(InsertSingleAlbum(a))
  <2>1. ToSet(Creators[a]) \subseteq Artists
    BY Catalogue, ToSetType
  <2>. QED  BY <1>0, <2>1 DEF Tied, InsertSingleAlbum, Insert
<1>4. ASSUME NEW artists \in SUBSET Artists PROVE Tied(InsertArtists(artists))
  BY <1>0 DEF Tied, InsertArtists, Insert
<1>5. ASSUME NEW albums \in SUBSET Openers, NEW contains \in SUBSET (albums \X Tracks)
      PROVE  Tied(InsertAlbumTracks(albums, contains))
  <2>. DEFINE w == InsertAlbumTracks(albums, contains)
  <2>1. w.nodes = albums \cup TracksIn(contains) \cup CreditsOf(TracksIn(contains)) /\ w.ifNew = {}
    BY DEF InsertAlbumTracks, Insert, TracksIn
  <2>2. TracksIn(contains) \subseteq Tracks
    BY DEF TracksIn
  <2>3. CreditsOf(TracksIn(contains)) \subseteq Artists
    BY <2>2, CreditsAre
  <2>. HIDE DEF w
  <2>4. Tied(w)
    BY <1>0, <2>1, <2>2, <2>3 DEF Tied
  <2>. QED  BY <2>4 DEF w
<1>. QED  BY <1>1, <1>2, <1>3, <1>4, <1>5

LEMMA SingleInserted ==
  ASSUME NEW g, NEW albums, Holds(g, InsertAlbums(albums)), NEW a \in albums
  PROVE  Holds(g, InsertSingleAlbum(a))
<1>0. PICK one : one = {a}
  OBVIOUS
<1>1. Holds(g, InsertAlbums(one))
  BY <1>0, AlbumsInserted
<1>2. ToSet(Creators[a]) = CreatorsOf(one)
  BY <1>0 DEF CreatorsOf
<1>. QED  BY <1>0, <1>1, <1>2 DEF Holds, InsertAlbums, InsertSingleAlbum, Insert

LEMMA ExpectedWrites ==
  ASSUME TypeInv, NEW r \in crawled, Expected(r), ~Gone(r), NEW w \in ToSet(Writes(r.url))
  PROVE  Holds(Closure, w) /\ Tied(w)
<1>. DEFINE c == Closure
            albums == LikedAlbums \cup Opened
<1>0. /\ Holds(c, InsertCredited(Liked, CreditedLikes, LikedBy)) /\ Holds(c, InsertAlbums(albums))
      /\ Holds(c, InsertAlbumTracks(Opened, Listed(Opened))) /\ Holds(c, InsertArtists(Ranked))
  BY ClosureIs
<1>. HIDE DEF c
<1>1. PICK u \in Resources : u = r.url
  BY DEF TypeInv, Messages
<1>2. r.depth \in Nat /\ crawled \subseteq Messages
  BY DepthsAre DEF TypeInv, Messages
<1>3. /\ Sources(r.depth) \subseteq Albums \ Unknown
      /\ Sources(r.depth) \subseteq albums
      /\ config.discographies => Sources(r.depth) \subseteq Opened
  BY <1>2, SourcesOpened, OpenedAre
<1>4. Liked \subseteq Tracks /\ CreditedLikes \cup LikedBy \subseteq Liked /\ LikedAlbums \subseteq Albums /\ Opened \subseteq Albums
  BY LikedTracks, LikedAlbumsAre, OpenedAre DEF LikedBy, CreditedLikes, CreditKept, FetchedAlone
<1>5. u.ids \in Seq(KindOf(u.endpoint)) /\ u.endpoint \in Endpoints
      /\ (u.endpoint \in One => u.ids = <<u.ids[1]>> /\ u.ids[1] \in KindOf(u.endpoint))
  BY Url_Is
<1>6. u.endpoint \in One => ToSet(u.ids) = {u.ids[1]}
  <2>1. ASSUME NEW x, u.ids = <<x>> PROVE ToSet(u.ids) = {x}
    BY <2>1, OneOfList
  <2>. QED  BY <1>5, <2>1
<1>7. Resolved(u) \subseteq ToSet(u.ids) \ Unknown /\ Resolved(u) \subseteq KindOf(u.endpoint)
  BY <1>5, ToSetType DEF Resolved
<1>8. CASE u.endpoint = "me/tracks"
  <2>. DEFINE page == ToSet(Page(u))
  <2>1. page \subseteq Liked
    BY <1>8, PageIs, LikedTracks
  <2>. DEFINE part == CreditKept(page)
  <2>2. w = InsertCredited(page, part, page \cap LikedBy)
    <3>1. ToSet(Writes(u)) = {InsertLikedSongs(page, page \cap LikedBy)}
      BY <1>8, WritesName
    <3>. QED  BY <1>1, <3>1 DEF InsertLikedSongs
  <2>3. part \in SUBSET page /\ part \subseteq CreditedLikes
    BY <2>1 DEF CreditKept, CreditedLikes
  <2>. HIDE DEF page, part
  <2>4. page \cap LikedBy \subseteq LikedBy /\ page \in SUBSET Tracks
    BY <1>4, <2>1
  <2>5. Holds(c, w)
    BY <1>0, <1>4, <2>1, <2>2, <2>3, <2>4, TracksInserted
  <2>. QED  BY <2>2, <2>3, <2>4, <2>5, InsertsTied DEF c
<1>9. CASE u.endpoint = "tracks/{id}"
  <2>. DEFINE one == {u.ids[1]}
  <2>1. one \subseteq FetchedAlone
    <3>1. u.ids[1] \in Liked /\ r.depth < config.depth /\ ~config.batch
      BY <1>1, <1>6, <1>9 DEF Expected, One, Single
    <3>2. u.ids[1] \notin Unknown
      BY <1>1, <1>9 DEF Gone, Single
    <3>3. config.depth >= 1
      BY <1>2, <3>1, DepthsAre DEF TypeInv
    <3>. QED  BY <3>1, <3>2, <3>3 DEF FetchedAlone
  <2>2. w = InsertCredited(one, one, {})
    <3>1. ToSet(Writes(u)) = {InsertTracks(one)}
      BY <1>9, WritesName
    <3>. QED  BY <1>1, <3>1 DEF InsertTracks
  <2>. HIDE DEF one
  <2>3. {} \subseteq LikedBy /\ one \in SUBSET Tracks /\ one \in SUBSET one /\ one \subseteq CreditedLikes /\ one \subseteq Liked
    BY <1>4, <2>1 DEF CreditedLikes
  <2>4. Holds(c, w)
    BY <1>0, <1>4, <2>2, <2>3, TracksInserted
  <2>. QED  BY <2>2, <2>3, <2>4, InsertsTied DEF c
<1>10. CASE u.endpoint = "albums/{id}"
  <2>1. u.ids[1] \in LikedAlbums
    BY <1>1, <1>6, <1>10 DEF Expected, One, Single
  <2>2. w = InsertSingleAlbum(u.ids[1])
    <3>1. ToSet(Writes(u)) = {InsertSingleAlbum(u.ids[1])}
      BY <1>10, WritesName
    <3>. QED  BY <1>1, <3>1
  <2>3. u.ids[1] \in albums /\ u.ids[1] \in Albums
    BY <1>4, <2>1
  <2>. HIDE DEF albums
  <2>. QED  BY <1>0, <2>2, <2>3, SingleInserted, InsertsTied DEF c
<1>11. CASE u.endpoint \in {"artists/{id}", "artists?ids"}
  <2>1. PICK artists : artists \subseteq Ranked /\ artists \subseteq Artists /\ w = InsertArtists(artists)
    <3>1. CASE u.endpoint = "artists/{id}"
      <4>. DEFINE one == {u.ids[1]}
      <4>1. one \subseteq Ranked \cup Unknown /\ one \cap Unknown = {} /\ one \subseteq Artists
        BY <1>1, <1>5, <1>6, <3>1 DEF Expected, One, Single, Gone, KindOf
      <4>2. ToSet(Writes(u)) = {InsertArtists(one)}
        BY <3>1, WritesName
      <4>3. w = InsertArtists(one)
        BY <1>1, <4>2
      <4>. HIDE DEF one
      <4>. QED  BY <4>1, <4>3
    <3>2. CASE u.endpoint = "artists?ids"
      <4>1. Resolved(u) \subseteq Ranked /\ Resolved(u) \subseteq Artists
        BY <1>1, <1>7, <3>2 DEF Expected, KindOf
      <4>2. ToSet(Writes(u)) = {InsertArtists(Resolved(u))}
        BY <3>2, WritesName
      <4>3. w = InsertArtists(Resolved(u))
        BY <1>1, <4>2
      <4>. QED  BY <4>1, <4>3
    <3>. QED  BY <1>11, <3>1, <3>2
  <2>2. Holds(c, w)
    BY <1>0, <2>1 DEF Holds, InsertArtists, Insert
  <2>. QED  BY <2>1, <2>2, InsertsTied DEF c
<1>12. CASE u.endpoint = "albums?ids"
  <2>. DEFINE R == Resolved(u)
  <2>1. R \subseteq Sources(r.depth)
    BY <1>1, <1>7, <1>12 DEF Expected
  <2>2. R \subseteq Openers
    BY <1>1, <1>3, <1>12, <2>1 DEF Openers, Opener
  <2>3. \/ w = InsertAlbums(R)
        \/ config.discographies /\ w = InsertAlbumTracks(R, EmbeddedTracks(R))
    <3>1. ToSet(Writes(u)) = {InsertAlbums(R)} \cup
            (IF config.discographies THEN {InsertAlbumTracks(R, EmbeddedTracks(R))} ELSE {})
      BY <1>12, WritesName
    <3>. QED  BY <1>1, <3>1
  <2>. HIDE DEF R
  <2>4. R \in SUBSET Albums /\ R \subseteq albums
    BY <1>3, <2>1
  <2>5. CASE w = InsertAlbums(R)
    <3>. HIDE DEF albums
    <3>. QED  BY <1>0, <2>4, <2>5, AlbumsInserted, InsertsTied DEF c
  <2>6. CASE config.discographies /\ w = InsertAlbumTracks(R, EmbeddedTracks(R))
    <3>1. R \subseteq Opened /\ R \in SUBSET Openers
      BY <1>3, <2>1, <2>2, <2>6
    <3>2. EmbeddedTracks(R) \subseteq Listed(R) /\ Listed(R) \subseteq Listed(Opened)
          /\ EmbeddedTracks(R) \in SUBSET (R \X Tracks)
      BY <2>4, <3>1, EmbeddedListed, CreditsGrow, EmbeddedTracksAre
    <3>3. EmbeddedTracks(R) \subseteq Listed(Opened)
      BY <3>2
    <3>4. Holds(c, w)
      BY <1>0, <2>6, <3>1, <3>3, TrackListsInserted
    <3>. QED  BY <2>6, <3>1, <3>2, <3>4, InsertsTied DEF c
  <2>. QED  BY <2>3, <2>5, <2>6
<1>13. CASE u.endpoint = "albums/{id}/tracks"
  <2>. DEFINE a == u.ids[1]
              one == {a}
              listed == {<<a, t>> : t \in ToSet(Page(u))}
  <2>1. a \in Opened /\ a \in Openers /\ a \in Albums
    BY <1>1, <1>3, <1>4, <1>6, <1>13 DEF Expected, One, Openers
  <2>2. w = InsertAlbumTracks(one, listed)
    <3>1. ToSet(Writes(u)) = {InsertAlbumTracks(one, listed)}
      BY <1>13, WritesName
    <3>. QED  BY <1>1, <3>1
  <2>3. ToSet(Page(u)) \subseteq TracksOn(AlbumPages[a]) /\ TracksOn(AlbumPages[a]) \subseteq Tracks
    <3>1. Pages(u) = AlbumPages[a] /\ u.page \in DOMAIN AlbumPages[a]
      BY <1>13, <2>1, FirstPage DEF Pages, Resources
    <3>. QED  BY <2>1, <3>1, FirstPage, PagesOn DEF Page
  <2>4. listed \subseteq Listed(Opened) /\ listed \in SUBSET (one \X Tracks)
    BY <2>1, <2>3, ListedTracks
  <2>5. one \subseteq Opened /\ one \in SUBSET Openers
    BY <2>1
  <2>. HIDE DEF one, listed
  <2>6. Holds(c, w)
    BY <1>0, <2>2, <2>4, <2>5, TrackListsInserted
  <2>. QED  BY <2>2, <2>4, <2>5, <2>6, InsertsTied DEF c
<1>14. CASE u.endpoint \in {"artists/{id}/albums", "me/playlists"}
  BY <1>1, <1>14, WritesName
<1>15. u.endpoint # "tracks?ids"
  BY <1>1 DEF Expected
<1>. QED  BY <1>5, <1>8, <1>9, <1>10, <1>11, <1>12, <1>13, <1>14, <1>15
          DEF Endpoints, Single, Several, Unmapped

-----------------------------------------------------------------------------
(* The graph has no more than the closure and what the backfills wrote, an  *)
(* album's payload aside, and a payload only a batch of albums fetches is   *)
(* missing only of an album such a batch is to open, or has.                *)

AboveClosure == Above(Closure)

GraphInv ==
  /\ \A b \in AboveClosure : (\A u \in enriched : Stored(b, u)) => Under(graph, b)
  /\ NoStubs(graph, Openers)
  /\ enriched \subseteq Resources /\ \A u \in enriched : u.endpoint \in {"tracks?ids", "artists?ids"}
  /\ IsFiniteSet(enriched) /\ IsFiniteSet(lost)

LEMMA GraphInit == Init => GraphInv
<1>. SUFFICES ASSUME Init PROVE GraphInv
  OBVIOUS
<1>1. enriched = {} /\ lost = {}
  BY DEF Init
<1>2. /\ graph.nodes = {} /\ graph.complete = {} /\ graph.liked = {}
      /\ graph.created = {} /\ graph.contains = {}
  BY DEF Init
<1>. QED  BY <1>1, <1>2, FS_EmptySet DEF GraphInv, Under, NoStubs

LEMMA ClosureIsGraph == TypeInv => Closure \in Graphs
BY ClosureIs

LEMMA ClosureGrows ==
  ASSUME TypeInv, TypeInv', config' = config,
         \A r \in crawled : r \in crawled' \/ r.url.endpoint \in Single
  PROVE  AboveClosure' \subseteq AboveClosure /\ Openers \subseteq Openers'
<1>1. Opened \subseteq Opened' /\ Ranked \subseteq Ranked' /\ Openers \subseteq Openers'
  BY ExpectedGrows DEF Openers
<1>2. Closure \in Graphs /\ Graphs' = Graphs
  BY ClosureIs, SameConfiguration
<1>3. Closure' \in Graphs'
  <2>1. (TypeInv => Closure \in Graphs)'
    BY ClosureIsGraph, PTL
  <2>. QED  BY <2>1
<1>4. PICK c, d : c = Closure /\ d = Closure'
  OBVIOUS
<1>5. PICK O, P : O = Opened /\ P = Opened'
  OBVIOUS
<1>. DEFINE tracks(A) == Liked \cup TracksIn(Listed(A))
            credited(A) == CreditedLikes \cup TracksIn(Listed(A))
            albums(A) == LikedAlbums \cup A
<1>6. /\ c.nodes = tracks(O) \cup albums(O) \cup CreditsOf(credited(O)) \cup CreatorsOf(albums(O)) \cup Ranked
      /\ c.complete = Liked \cup albums(O) \cup Ranked
      /\ c.liked = LikedBy
      /\ c.created = CreditEdges(credited(O)) \cup CreatorEdges(albums(O)) \cup AlbumArtistEdges(Liked)
      /\ c.contains = {<<AlbumOf[t], t>> : t \in Liked} \cup Listed(O)
  BY <1>4, <1>5 DEF Closure, LikedBy, Credited
<1>7. /\ d.nodes = tracks(P) \cup albums(P) \cup CreditsOf(credited(P)) \cup CreatorsOf(albums(P)) \cup Ranked'
      /\ d.complete = Liked \cup albums(P) \cup Ranked'
      /\ d.liked = LikedBy
      /\ d.created = CreditEdges(credited(P)) \cup CreatorEdges(albums(P)) \cup AlbumArtistEdges(Liked)
      /\ d.contains = {<<AlbumOf[t], t>> : t \in Liked} \cup Listed(P)
  BY <1>4, <1>5 DEF Closure, LikedBy, Liked, LikedAlbums, TracksIn, Listed, CreditsOf, CreatorsOf,
     CreditEdges, CreatorEdges, AlbumArtistEdges, Credited, CreditedLikes, CreditKept, FetchedAlone
<1>8. O \subseteq P
  BY <1>1, <1>5
<1>9. Listed(O) \subseteq Listed(P)
  BY <1>8, CreditsGrow
<1>10. TracksIn(Listed(O)) \subseteq TracksIn(Listed(P))
  BY <1>9, CreditsGrow
<1>11. tracks(O) \subseteq tracks(P) /\ credited(O) \subseteq credited(P) /\ albums(O) \subseteq albums(P)
  BY <1>8, <1>10
<1>. HIDE DEF tracks, credited, albums
<1>12. /\ CreditsOf(credited(O)) \subseteq CreditsOf(credited(P))
       /\ CreditEdges(credited(O)) \subseteq CreditEdges(credited(P))
       /\ CreatorsOf(albums(O)) \subseteq CreatorsOf(albums(P))
       /\ CreatorEdges(albums(O)) \subseteq CreatorEdges(albums(P))
  BY <1>11, CreditsGrow
<1>13. /\ c.nodes \subseteq d.nodes /\ c.complete \subseteq d.complete /\ c.liked \subseteq d.liked
       /\ c.created \subseteq d.created /\ c.contains \subseteq d.contains
  BY <1>1, <1>6, <1>7, <1>9, <1>11, <1>12
<1>14. Above(d) \subseteq Above(c)
  BY <1>13 DEF Above
<1>15. AboveClosure' = Above(d) /\ AboveClosure = Above(c)
  BY <1>2, <1>4 DEF AboveClosure, Above
<1>. QED  BY <1>1, <1>14, <1>15

LEMMA GraphKept ==
  ASSUME TypeInv, TypeInv', GraphInv, config' = config,
         \A r \in crawled : r \in crawled' \/ r.url.endpoint \in Single,
         enriched \subseteq enriched',
         \/ graph' = graph
         \/ \E s \in Seq(Inserts) :
              /\ graph' = Written(graph, s)
              /\ \A w \in ToSet(s) : /\ Tied(w)
                                     /\ Holds(Closure, w) \/ \E u \in enriched' : w \in ToSet(Writes(u))
  PROVE  /\ \A b \in AboveClosure' : (\A u \in enriched' : Stored(b, u)') => Under(graph', b)
         /\ NoStubs(graph', Openers')
<1>1. AboveClosure' \subseteq AboveClosure /\ Openers \subseteq Openers'
  BY ClosureGrows
<1>2. graph \in Graphs
  BY DEF TypeInv
<1>3. ASSUME NEW b \in AboveClosure', \A u \in enriched' : Stored(b, u)'
      PROVE  Under(graph', b)
  <2>1. \A u \in enriched' : Stored(b, u)
    BY <1>3, SameHandlers DEF Stored
  <2>2. Under(graph, b)
    BY <1>1, <1>3, <2>1 DEF GraphInv
  <2>3. ASSUME NEW s \in Seq(Inserts), graph' = Written(graph, s),
               \A w \in ToSet(s) : /\ Tied(w)
                                   /\ Holds(Closure, w) \/ \E u \in enriched' : w \in ToSet(Writes(u))
        PROVE  Under(graph', b)
    <3>1. ASSUME NEW w \in ToSet(s) PROVE Holds(b, w) /\ w.ifNew \subseteq Albums
      <4>1. CASE Holds(Closure, w)
        <5>1. b \in Above(Closure)
          BY <1>1, <1>3 DEF AboveClosure
        <5>2. Holds(b, w)
          BY <4>1, <5>1 DEF Above, Holds
        <5>. QED  BY <2>3, <5>2 DEF Tied
      <4>2. CASE \E u \in enriched' : w \in ToSet(Writes(u))
        BY <2>1, <2>3, <4>2 DEF Stored, Tied
      <4>. QED  BY <2>3, <4>1, <4>2
    <3>. QED  BY <1>2, <2>2, <2>3, <3>1, WrittenUnder
  <2>. QED  BY <2>2, <2>3
<1>4. NoStubs(graph', Openers)
  <2>1. NoStubs(graph, Openers)
    BY DEF GraphInv
  <2>2. ASSUME NEW s \in Seq(Inserts), graph' = Written(graph, s), \A w \in ToSet(s) : Tied(w)
        PROVE  NoStubs(graph', Openers)
    BY <1>2, <2>1, <2>2, WrittenNoStubs DEF Tied
  <2>. QED  BY <2>1, <2>2
<1>5. NoStubs(graph', Openers')
  BY <1>1, <1>4 DEF NoStubs
<1>. QED  BY <1>3, <1>5

(* The first transactions of a message.                                     *)
LEMMA FirstWrites ==
  ASSUME NEW T, NEW s \in Seq(T), NEW i \in DOMAIN s
  PROVE  SubSeq(s, 1, i - 1) \in Seq(T) /\ ToSet(SubSeq(s, 1, i - 1)) \subseteq ToSet(s)
<1>1. Len(s) \in Nat /\ i \in 1..Len(s) /\ DOMAIN s = 1..Len(s)
  BY ListMembers
<1>. DEFINE r == SubSeq(s, 1, i - 1)
            R == ToSet(s)
<1>2. s \in Seq(R)
  BY ToSetType
<1>. HIDE DEF R
<1>3. SubSeq(s, 1, i - 1) \in Seq(R)
  <2>1. i - 1 \in Nat /\ i - 1 <= Len(s)
    BY <1>1
  <2>2. \A k \in 1..(i - 1) : s[k] \in R
    BY <1>1, <1>2, ListMembers
  <2>3. r = [k \in 1..(i - 1) |-> s[k]]
    BY <1>1
  <2>. QED  BY <2>1, <2>2, <2>3
<1>4. ToSet(r) \subseteq R
  BY <1>3, ToSetType
<1>5. R \subseteq T
  BY ToSetType DEF R
<1>. QED  BY <1>3, <1>4, <1>5, SeqWiden DEF R

LEMMA GraphByStore ==
  ASSUME TypeInv, TypeInv', CoverInv, ExpectInv, GraphInv, Worker_Store \/ Worker_StoreFails
  PROVE  GraphInv'
<1>0. PICK msg : msg = Head(stores)
  OBVIOUS
<1>1. /\ msg \in Messages /\ msg \in ToSet(stores)
      /\ config' = config /\ UNCHANGED <<crawled, enriched>> /\ lost' \in {lost, lost \cup {msg}}
  BY <1>0, HeadAndTail DEF TypeInv, Worker_Store, Worker_StoreFails, backfilling
<1>2. msg \in crawled /\ ~Gone(msg) /\ Expected(msg) /\ msg.url \in Resources
  BY <1>1 DEF CoverInv, ExpectInv, Messages
<1>3. PICK writes : writes = Writes(msg.url)
  OBVIOUS
<1>4. writes \in Seq(Inserts) /\ \A w \in ToSet(writes) : Tied(w) /\ Holds(Closure, w)
  BY <1>2, <1>3, WritesAre, ExpectedWrites
<1>5. \E s \in Seq(Inserts) : graph' = Written(graph, s) /\ ToSet(s) \subseteq ToSet(writes)
  <2>1. CASE Worker_Store
    BY <1>0, <1>3, <1>4, <2>1 DEF Worker_Store
  <2>2. CASE Worker_StoreFails
    <3>1. PICK i \in DOMAIN writes : graph' = Written(graph, SubSeq(writes, 1, i - 1))
      BY <1>0, <1>3, <2>2 DEF Worker_StoreFails
    <3>. QED  BY <1>4, <3>1, FirstWrites
  <2>. QED  BY <2>1, <2>2
<1>6. /\ \A b \in AboveClosure' : (\A u \in enriched' : Stored(b, u)') => Under(graph', b)
      /\ NoStubs(graph', Openers')
  BY <1>1, <1>4, <1>5, GraphKept
<1>7. IsFiniteSet(lost') /\ IsFiniteSet(enriched')
  BY <1>1, FS_AddElement DEF GraphInv
<1>8. Resources' = Resources
  BY DEF Resources, Pages, Endpoints, KindOf, One, Single, Several, Unmapped, Ids
<1>. QED  BY <1>1, <1>6, <1>7, <1>8 DEF GraphInv

(* The batches of a backfill leave no album without its payload.            *)
LEMMA EnrichmentsWhole ==
  ASSUME NEW u \in Resources, u.endpoint \in {"tracks?ids", "artists?ids"}, NEW w \in ToSet(Writes(u))
  PROVE  Whole(w)
<1>. DEFINE R == Resolved(u)
<1>1. R = Resolved(u) /\ R \subseteq KindOf(u.endpoint)
  BY Url_Is, ToSetType DEF Resolved
<1>. HIDE DEF R
<1>2. CASE u.endpoint = "tracks?ids"
  <2>1. w = InsertTracks(R) /\ R \in SUBSET Tracks
    BY <1>1, <1>2, WritesName DEF KindOf
  <2>2. R \in SUBSET R
    OBVIOUS
  <2>. QED  BY <2>1, <2>2, InsertsWhole DEF InsertTracks
<1>3. CASE u.endpoint = "artists?ids"
  <2>1. w = InsertArtists(R) /\ R \in SUBSET Artists
    BY <1>1, <1>3, WritesName DEF KindOf
  <2>. QED  BY <2>1, InsertsWhole
<1>. QED  BY <1>2, <1>3

LEMMA GraphByBatch ==
  ASSUME TypeInv, TypeInv', GraphInv, Backfill_Batch
  PROVE  GraphInv'
<1>0. PICK u : u = Url(backfill.endpoint, Head(backfill.todo), 1)
  OBVIOUS
<1>1. graph' = Written(graph, Writes(u)) /\ enriched' = enriched \cup {u}
      /\ UNCHANGED <<config, crawled, lost>>
  BY <1>0 DEF Backfill_Batch, crawl
<1>2. u \in Resources /\ u.endpoint \in {"tracks?ids", "artists?ids"}
  <2>1. backfill.endpoint \in {"tracks?ids", "artists?ids"} /\ u \in Resources
    BY <1>0, BatchUrl DEF Backfill_Batch
  <2>. QED  BY <1>0, <2>1 DEF Url
<1>3. Writes(u) \in Seq(Inserts) /\ \A w \in ToSet(Writes(u)) : Tied(w)
  BY <1>2, WritesAre, EnrichmentsWhole DEF Whole, Tied
<1>4. /\ \A b \in AboveClosure' : (\A v \in enriched' : Stored(b, v)') => Under(graph', b)
      /\ NoStubs(graph', Openers')
  BY <1>1, <1>3, GraphKept
<1>5. IsFiniteSet(lost') /\ IsFiniteSet(enriched')
  BY <1>1, FS_AddElement DEF GraphInv
<1>6. Resources' = Resources
  BY DEF Resources, Pages, Endpoints, KindOf, One, Single, Several, Unmapped, Ids
<1>. QED  BY <1>1, <1>2, <1>4, <1>5, <1>6 DEF GraphInv

LEMMA GraphStep == TypeInv /\ TypeInv' /\ CoverInv /\ ExpectInv /\ GraphInv /\ [Next]_vars => GraphInv'
<1>. SUFFICES ASSUME TypeInv, TypeInv', CoverInv, ExpectInv, GraphInv, [Next]_vars PROVE GraphInv'
  OBVIOUS
<1>1. CASE Worker_Store \/ Worker_StoreFails
  BY <1>1, GraphByStore
<1>2. CASE Backfill_Batch
  BY <1>2, GraphByBatch
<1>3. CASE /\ UNCHANGED <<config, graph, lost, enriched>>
           /\ \A r \in crawled : r \in crawled' \/ r.url.endpoint \in Single
  <2>1. /\ \A b \in AboveClosure' : (\A v \in enriched' : Stored(b, v)') => Under(graph', b)
        /\ NoStubs(graph', Openers')
    BY <1>3, GraphKept
  <2>2. Resources' = Resources
    BY DEF Resources, Pages, Endpoints, KindOf, One, Single, Several, Unmapped, Ids
  <2>. QED  BY <1>3, <2>1, <2>2 DEF GraphInv
<1>4. CASE Engine_Fetch
  BY <1>3, <1>4 DEF Engine_Fetch, Publish, backfilling
<1>5. CASE Seed \/ Worker_FollowLinks
  BY <1>3, <1>5 DEF Seed, Worker_FollowLinks, Publish, backfilling
<1>6. CASE UNCHANGED <<crawl, graph, enriched>>
  BY <1>3, <1>6 DEF crawl
<1>. QED  BY <1>1, <1>2, <1>4, <1>5, <1>6
          DEF Next, Backfill, Backfill_Read, Backfill_Retry, Backfill_Abort, vars, backfilling

LEMMA GraphAlways == Spec => []GraphInv
<1>1. TypeInv /\ TypeInv' /\ CoverInv /\ ExpectInv /\ [Next]_vars /\ GraphInv => GraphInv'
  BY GraphStep
<1>. QED  BY <1>1, GraphInit, TypeAlways, CoverAlways, ExpectAlways, PTL DEF Spec

-----------------------------------------------------------------------------
(* A drained crawl reached everything the closure has: the pages of every   *)
(* discography, the batches that open its albums, their pages, and the      *)
(* requests of the artists to be ranked.                                    *)

Opening(a, depth) ==
  \E q \in crawled : q.url.endpoint = "albums?ids" /\ q.depth = depth /\ a \in Resolved(q.url)

Fetched(ar) ==
  \E q \in crawled : q.url.endpoint \in {"artists/{id}", "artists?ids"} /\ ar \in ToSet(q.url.ids)

LEMMA LinkCrawled ==
  ASSUME TypeInv, CoverInv, Drained, NEW r \in crawled, ~Gone(r), NEW q \in ToSet(FollowLinks(r))
  PROVE  q \in Messages /\ (q \in crawled \/ Gone(q))
<1>1. r \in Messages
  BY DEF TypeInv
<1>2. FollowLinks(r) \in Seq(Messages)
  BY <1>1, FollowLinksAre DEF TypeInv
<1>3. ToSet(FollowLinks(r)) \subseteq Messages
  BY <1>2, ToSetType
<1>. QED  BY <1>3, DrainedIs

LEMMA OneId ==
  ASSUME NEW q \in Messages, q.url.endpoint \in One
  PROVE  ToSet(q.url.ids) = {q.url.ids[1]} /\ q.url.ids = <<q.url.ids[1]>> /\ q.url.ids[1] \in KindOf(q.url.endpoint)
<1>1. PICK u \in Resources : u = q.url
  BY DEF Messages
<1>2. u.ids = <<u.ids[1]>> /\ u.ids[1] \in KindOf(u.endpoint)
  BY <1>1, Url_Is
<1>3. ASSUME NEW x, u.ids = <<x>> PROVE ToSet(u.ids) = {x}
  BY <1>3, OneOfList
<1>. QED  BY <1>1, <1>2, <1>3

LEMMA ArtistAsked ==
  ASSUME TypeInv, CoverInv, Drained, NEW r \in crawled, ~Gone(r),
         NEW endpoint \in {"artists/{id}", "artists?ids"}, NEW S, NEW depth,
         Asks(ToSet(FollowLinks(r)), endpoint, S, depth), NEW ar \in S, ar \notin Unknown
  PROVE  Fetched(ar)
<1>1. PICK q \in ToSet(FollowLinks(r)) : q.url.endpoint = endpoint /\ ar \in ToSet(q.url.ids)
  BY DEF Asks
<1>2. q \in Messages /\ (q \in crawled \/ Gone(q))
  BY LinkCrawled
<1>3. ~Gone(q)
  <2>1. CASE endpoint = "artists/{id}"
    <3>1. ToSet(q.url.ids) = {q.url.ids[1]}
      BY <1>1, <1>2, <2>1, OneId DEF One, Single
    <3>. QED  BY <1>1, <3>1 DEF Gone
  <2>2. CASE endpoint = "artists?ids"
    BY <1>1, <2>2 DEF Gone, Single
  <2>. QED  BY <2>1, <2>2
<1>. QED  BY <1>1, <1>2, <1>3 DEF Fetched

LEMMA ArtistDelivered ==
  ASSUME TypeInv, NEW g, Delivered(g), NEW ar, Fetched(ar), ar \notin Unknown
  PROVE  ar \in g.nodes /\ ar \in g.complete
<1>1. PICK q \in crawled : q.url.endpoint \in {"artists/{id}", "artists?ids"} /\ ar \in ToSet(q.url.ids)
  BY DEF Fetched
<1>2. q \in Messages /\ q.url \in Resources
  BY DEF TypeInv, Messages
<1>3. PICK u \in Resources : u = q.url
  BY <1>2
<1>4. PICK artists : ar \in artists /\ ~Gone(q) /\ InsertArtists(artists) \in ToSet(Writes(u))
  <2>1. CASE u.endpoint = "artists/{id}"
    <3>. DEFINE one == {u.ids[1]}
    <3>1. one = {ar}
      BY <1>1, <1>2, <1>3, <2>1, OneId DEF One, Single
    <3>2. ToSet(Writes(u)) = {InsertArtists(one)}
      BY <2>1, WritesName
    <3>3. ~Gone(q)
      BY <1>3, <3>1 DEF Gone
    <3>. HIDE DEF one
    <3>. QED  BY <3>1, <3>2, <3>3
  <2>2. CASE u.endpoint = "artists?ids"
    <3>. DEFINE R == Resolved(u)
    <3>1. ar \in R
      BY <1>1, <1>3 DEF Resolved
    <3>2. ToSet(Writes(u)) = {InsertArtists(R)}
      BY <2>2, WritesName
    <3>3. ~Gone(q)
      BY <1>3, <2>2 DEF Gone, Single
    <3>. HIDE DEF R
    <3>. QED  BY <3>1, <3>2, <3>3
  <2>. QED  BY <1>1, <1>3, <2>1, <2>2
<1>5. Holds(g, InsertArtists(artists))
  BY <1>3, <1>4 DEF Delivered, Stored
<1>6. PICK N, C : N = g.nodes /\ C = g.complete
  OBVIOUS
<1>7. artists \subseteq N /\ artists \subseteq C
  BY <1>5, <1>6 DEF Holds, InsertArtists, Insert
<1>. QED  BY <1>4, <1>6, <1>7

(* The pages of an album, once opened: the first one embedded in the        *)
(* response, the others from the nested next link on.                       *)
LEMMA AlbumDelivered ==
  ASSUME TypeInv, CoverInv, Drained, NEW g, Delivered(g), NEW a \in Albums, NEW depth \in Nat, Opening(a, depth)
  PROVE  /\ Holds(g, InsertAlbums({a}))
         /\ depth > 0 => \A ar \in ToSet(Creators[a]) \ Unknown : Fetched(ar)
         /\ config.discographies => \A t \in TracksOn(AlbumPages[a]) :
              /\ Holds(g, InsertAlbumTracks({}, {<<a, t>>}))
              /\ depth > 0 => \A ar \in ToSet(Credits[t]) \ Unknown : Fetched(ar)
<1>0. config \in Configurations
  BY DEF TypeInv
<1>1. PICK r \in crawled : r.url.endpoint = "albums?ids" /\ r.depth = depth /\ a \in Resolved(r.url)
  BY DEF Opening
<1>2. r \in Messages /\ ~Gone(r) /\ r.url \in Resources
  BY <1>1 DEF TypeInv, Messages, Gone, Single
<1>3. Stored(g, r.url)
  BY <1>2 DEF Delivered
<1>. DEFINE R == Resolved(r.url)
            L == ToSet(FollowLinks(r))
<1>4. R \subseteq Albums
  <2>1. PICK u \in Resources : u = r.url
    BY <1>2
  <2>2. ToSet(u.ids) \subseteq Albums
    BY <1>1, <2>1, Url_Is, ToSetType DEF KindOf
  <2>. QED  BY <2>1, <2>2 DEF Resolved
<1>5. Holds(g, InsertAlbums(R)) /\ (config.discographies => Holds(g, InsertAlbumTracks(R, EmbeddedTracks(R))))
  <2>1. ToSet(Writes(r.url)) = {InsertAlbums(R)} \cup
          (IF config.discographies THEN {InsertAlbumTracks(R, EmbeddedTracks(R))} ELSE {})
    BY <1>1, <1>2, WritesName
  <2>. QED  BY <1>3, <2>1 DEF Stored
<1>6. depth > 0 => Asks(L, "artists?ids", CreatorsOf(R) \cup EmbeddedCredits(R), depth - 1)
  BY <1>0, <1>1, <1>2, AlbumLinksAre
<1>7. config.discographies /\ Len(AlbumPages[a]) > 1 => TracksPage(a, 2, depth) \in L
  BY <1>0, <1>1, <1>2, AlbumLinksAre
<1>. HIDE DEF R, L
<1>8. a \in R
  BY <1>1 DEF R
<1>9. Holds(g, InsertAlbums({a}))
  <2>1. PICK one : one = {a} /\ one \subseteq R
    BY <1>8
  <2>. QED  BY <1>5, <2>1, AlbumsInserted
<1>10. ASSUME depth > 0, NEW ar \in ToSet(Creators[a]) \ Unknown PROVE Fetched(ar)
  <2>1. ar \in CreatorsOf(R)
    BY <1>8 DEF CreatorsOf
  <2>2. PICK S : S = CreatorsOf(R) \cup EmbeddedCredits(R) /\ ar \in S
    BY <2>1
  <2>3. Asks(ToSet(FollowLinks(r)), "artists?ids", S, depth - 1)
    BY <1>6, <1>10, <2>2 DEF L
  <2>. QED  BY <1>2, <1>10, <2>2, <2>3, ArtistAsked
<1>11. ASSUME config.discographies, NEW t \in TracksOn(AlbumPages[a])
       PROVE  /\ Holds(g, InsertAlbumTracks({}, {<<a, t>>}))
              /\ depth > 0 => \A ar \in ToSet(Credits[t]) \ Unknown : Fetched(ar)
  <2>1. AlbumPages[a] \in Seq(Seq(Tracks)) /\ 1 \in DOMAIN AlbumPages[a]
    BY FirstPage
  <2>2. PICK p \in DOMAIN AlbumPages[a] : t \in ToSet(AlbumPages[a][p])
    BY <2>1, PagesOn
  <2>3. PICK edge : edge = {<<a, t>>}
    OBVIOUS
  <2>4. CASE p = 1
    <3>1. <<a, t>> \in EmbeddedTracks(R)
      BY <1>8, <2>2, <2>4 DEF EmbeddedTracks
    <3>2. edge \subseteq EmbeddedTracks(R) /\ {} \subseteq R
      BY <2>3, <3>1
    <3>3. Holds(g, InsertAlbumTracks({}, edge))
      BY <1>5, <1>11, <3>2, TrackListsInserted
    <3>4. ASSUME depth > 0, NEW ar \in ToSet(Credits[t]) \ Unknown PROVE Fetched(ar)
      <4>1. t \in TracksIn(EmbeddedTracks(R))
        BY <1>8, <2>2, <2>4, EmbeddedIn
      <4>2. ar \in CreditsOf(TracksIn(EmbeddedTracks(R)))
        BY <3>4, <4>1 DEF CreditsOf
      <4>3. PICK S : S = CreatorsOf(R) \cup EmbeddedCredits(R) /\ ar \in S
        BY <1>11, <4>2 DEF EmbeddedCredits
      <4>4. Asks(ToSet(FollowLinks(r)), "artists?ids", S, depth - 1)
        BY <1>6, <3>4, <4>3 DEF L
      <4>. QED  BY <1>2, <3>4, <4>3, <4>4, ArtistAsked
    <3>. QED  BY <2>3, <3>3, <3>4
  <2>5. CASE p # 1
    <3>. DEFINE e == "albums/{id}/tracks"
                one == <<a>>
                last == Len(AlbumPages[a])
                req == Request(Url(e, one, p), depth)
    <3>1. last \in Nat /\ p \in 2..last /\ last > 1 /\ one[1] = a /\ ToSet(one) = {a}
      BY <2>1, <2>5, ListMembers, OneOfList
    <3>2. TracksPage(a, 2, depth) \in crawled
      <4>1. TracksPage(a, 2, depth).url.endpoint = e
        BY DEF TracksPage, Request, Url
      <4>2. PICK q \in L : q = TracksPage(a, 2, depth)
        BY <1>7, <1>11, <3>1
      <4>3. q \in crawled \/ Gone(q)
        BY <1>2, LinkCrawled DEF L
      <4>. QED  BY <4>1, <4>2, <4>3 DEF Gone, Single
    <3>3. Request(Url(e, one, 2), depth) \in crawled
      BY <3>2 DEF TracksPage
    <3>. HIDE DEF one
    <3>4. Len(Pages(Url(e, one, 2))) = last /\ Pages(Url(e, one, p)) = AlbumPages[a]
      BY <3>1 DEF Pages, Url
    <3>5. e \notin Single /\ 2 \in Nat
      BY DEF Single
    <3>6. req \in crawled
      <4>. HIDE DEF e, last
      <4>1. \A k \in 2..last : Request(Url(e, one, k), depth) \in crawled
        BY <3>1, <3>3, <3>4, <3>5, AllPages
      <4>. QED  BY <3>1, <4>1
    <3>. DEFINE u == Url(e, one, p)
    <3>7. /\ u.endpoint = e /\ u.ids = one /\ u.page = p /\ Page(u) = AlbumPages[a][p]
          /\ req.url = u /\ req.depth = depth
      BY <3>4 DEF Url, Request, Page
    <3>8. req \in Messages /\ u \in Resources /\ ~Gone(req)
      BY <3>5, <3>6, <3>7 DEF TypeInv, Messages, Gone
    <3>. HIDE DEF u, req
    <3>9. PICK page : page = ToSet(Page(u)) /\ t \in page
      BY <2>2, <3>7
    <3>10. PICK lists : lists = {<<a, x>> : x \in page} /\ <<a, t>> \in lists
      BY <3>9
    <3>11. PICK album : album = {a}
      OBVIOUS
    <3>12. Holds(g, InsertAlbumTracks(album, lists))
      <4>1. u.ids[1] = a
        BY <3>1, <3>7
      <4>2. ToSet(Writes(u)) = {InsertAlbumTracks({u.ids[1]}, {<<u.ids[1], x>> : x \in ToSet(Page(u))})}
        BY <3>7, <3>8, WritesName
      <4>3. ToSet(Writes(u)) = {InsertAlbumTracks(album, lists)}
        BY <3>9, <3>10, <3>11, <4>1, <4>2
      <4>4. Stored(g, u)
        BY <3>6, <3>7, <3>8 DEF Delivered
      <4>. QED  BY <4>3, <4>4 DEF Stored
    <3>13. edge \subseteq lists /\ {} \subseteq album
      BY <2>3, <3>10
    <3>14. Holds(g, InsertAlbumTracks({}, edge))
      BY <3>12, <3>13, TrackListsInserted
    <3>15. ASSUME depth > 0, NEW ar \in ToSet(Credits[t]) \ Unknown PROVE Fetched(ar)
      <4>1. PICK S : S = CreditsOf(page) /\ ar \in S
        BY <3>9, <3>15 DEF CreditsOf
      <4>2. Asks(ToSet(FollowLinks(req)), "artists?ids", S, depth - 1)
        BY <1>0, <3>7, <3>8, <3>9, <3>15, <4>1, LinksAre
      <4>. QED  BY <3>6, <3>8, <3>15, <4>1, <4>2, ArtistAsked
    <3>. QED  BY <2>3, <3>14, <3>15
  <2>. QED  BY <2>4, <2>5
<1>. QED  BY <1>9, <1>10, <1>11

-----------------------------------------------------------------------------

(* Every page of a discography was fetched, and asked for its albums.       *)
LEMMA DiscographyOpened ==
  ASSUME TypeInv, CoverInv, ExpectInv, Drained, SeedDepth >= 1, NEW a \in DiscographyAlbums
  PROVE  Opening(a, SeedDepth - 1)
<1>0. config \in Configurations /\ SeedDepth \in Nat /\ crawled \subseteq Messages
  BY Catalogue DEF TypeInv
<1>1. PICK ar \in Seeded : a \in TracksOn(Discography[ar]) /\ a \notin Unknown
  BY DEF DiscographyAlbums
<1>2. PICK s \in crawled : s.url.endpoint = "artists/{id}/albums" /\ ar = s.url.ids[1]
  BY DEF Seeded
<1>3. s \in Messages /\ ar \in Artists
  BY <1>0, <1>2, OneId DEF One, KindOf
<1>. DEFINE e == "artists/{id}/albums"
            pages == Discography[ar]
            last == Len(pages)
<1>4. PICK ids : ids = s.url.ids /\ ids[1] = ar
  BY <1>2
<1>5. Request(Url(e, ids, 1), SeedDepth) \in crawled
  BY <1>2, <1>4 DEF ExpectInv, Expected
<1>6. pages \in Seq(Seq(Albums)) /\ last \in Nat /\ DOMAIN pages = 1..last
  BY <1>3, FirstPage, LenProperties
<1>7. PICK p \in 1..last : a \in ToSet(pages[p])
  BY <1>1, <1>6, PagesOn
<1>8. Len(Pages(Url(e, ids, 1))) = last /\ Pages(Url(e, ids, p)) = pages /\ e \notin Single
  BY <1>4 DEF Pages, Url, Single
<1>. DEFINE u == Url(e, ids, p)
            req == Request(u, SeedDepth)
<1>9. req \in crawled
  <2>. HIDE DEF e, last
  <2>1. \A k \in 1..last : Request(Url(e, ids, k), SeedDepth) \in crawled
    BY <1>0, <1>5, <1>6, <1>8, AllPages
  <2>. QED  BY <2>1
<1>10. req.url = u /\ req.depth = SeedDepth /\ u.endpoint = e /\ Page(u) = pages[p]
  BY <1>8 DEF Request, Url, Page
<1>. HIDE DEF req, u
<1>11. req \in Messages /\ ~Gone(req)
  BY <1>0, <1>8, <1>9, <1>10 DEF Gone
<1>12. PICK page : page = ToSet(Page(u)) /\ a \in page
  BY <1>7, <1>10
<1>13. Asks(ToSet(FollowLinks(req)), "albums?ids", page, SeedDepth - 1)
  <2>1. req.depth > 0
    <3>1. PICK d \in Nat : d = SeedDepth /\ d >= 1
      BY <1>0
    <3>2. req.depth = d
      BY <1>10, <3>1
    <3>. QED  BY <3>1, <3>2
  <2>2. Asks(ToSet(FollowLinks(req)), "albums?ids", ToSet(Page(req.url)), req.depth - 1)
    BY <1>0, <1>10, <1>11, <2>1, LinksAre
  <2>. QED  BY <1>10, <1>12, <2>2
<1>14. PICK q \in ToSet(FollowLinks(req)) :
         q.url.endpoint = "albums?ids" /\ q.depth = SeedDepth - 1 /\ a \in ToSet(q.url.ids)
  BY <1>12, <1>13 DEF Asks
<1>15. q \in crawled
  BY <1>9, <1>11, <1>14, LinkCrawled DEF Gone, Single
<1>. QED  BY <1>1, <1>14, <1>15 DEF Opening, Resolved

(* Every page of the liked songs was fetched, and asked for the albums and  *)
(* the artists of its tracks.                                               *)
LEMMA LikedAsked ==
  ASSUME TypeInv, CoverInv, Drained, config.depth >= 1, NEW t \in Liked
  PROVE  \E r \in crawled : \E page : /\ ~Gone(r) /\ t \in page
                                      /\ AskLikedSongs(ToSet(FollowLinks(r)), page, config.depth - 1)
<1>0. config \in Configurations /\ config.depth \in Nat /\ crawled \subseteq Messages
  BY DepthsAre DEF TypeInv
<1>. DEFINE empty == <<>>
            e == "me/tracks"
            last == Len(LikedPages)
<1>1. last \in Nat /\ DOMAIN LikedPages = 1..last
  BY FirstPage, LenProperties
<1>2. Request(Url(e, empty, 1), config.depth) \in crawled
  BY DrainedIs DEF LikedSongs
<1>. HIDE DEF empty
<1>3. PICK p \in 1..last : t \in ToSet(LikedPages[p])
  BY <1>1, LikedTracks
<1>4. Len(Pages(Url(e, empty, 1))) = last /\ Pages(Url(e, empty, p)) = LikedPages /\ e \notin Single
  BY DEF Pages, Url, Single
<1>. DEFINE u == Url(e, empty, p)
            req == Request(u, config.depth)
<1>5. req \in crawled
  <2>. HIDE DEF e, last
  <2>1. \A k \in 1..last : Request(Url(e, empty, k), config.depth) \in crawled
    BY <1>1, <1>2, <1>4, AllPages
  <2>. QED  BY <2>1
<1>6. req.url = u /\ req.depth = config.depth /\ u.endpoint = e /\ Page(u) = LikedPages[p]
  BY <1>4 DEF Request, Url, Page
<1>. HIDE DEF req, u
<1>7. req \in Messages /\ ~Gone(req)
  BY <1>0, <1>4, <1>5, <1>6 DEF Gone
<1>8. PICK page : page = ToSet(Page(u)) /\ t \in page
  BY <1>3, <1>6
<1>9. AskLikedSongs(ToSet(FollowLinks(req)), page, config.depth - 1)
  <2>1. req.depth > 0
    BY <1>0, <1>6
  <2>2. AskLikedSongs(ToSet(FollowLinks(req)), ToSet(Page(req.url)), req.depth - 1)
    BY <1>0, <1>6, <1>7, <2>1, LinksAre
  <2>. QED  BY <1>6, <1>8, <2>2
<1>. QED  BY <1>5, <1>7, <1>8, <1>9

LEMMA LikedOpened ==
  ASSUME TypeInv, CoverInv, Drained, config.depth >= 1, config.batch, NEW a \in LikedAlbums \ Unknown
  PROVE  Opening(a, config.depth - 1)
<1>1. PICK t \in Liked : a = AlbumOf[t]
  BY DEF LikedAlbums
<1>2. PICK r \in crawled : \E page : /\ ~Gone(r) /\ t \in page
                                     /\ AskLikedSongs(ToSet(FollowLinks(r)), page, config.depth - 1)
  BY LikedAsked
<1>3. PICK page : /\ ~Gone(r) /\ t \in page
                  /\ AskLikedSongs(ToSet(FollowLinks(r)), page, config.depth - 1)
  BY <1>2
<1>4. a \in AlbumsOf(page) /\ AlbumsBy = "albums?ids"
  BY <1>1, <1>3 DEF AlbumsOf, AlbumsBy
<1>5. PICK q \in ToSet(FollowLinks(r)) :
        q.url.endpoint = "albums?ids" /\ q.depth = config.depth - 1 /\ a \in ToSet(q.url.ids)
  BY <1>3, <1>4 DEF AskLikedSongs, Asks
<1>6. q \in crawled
  BY <1>3, <1>5, LinkCrawled DEF Gone, Single
<1>. QED  BY <1>5, <1>6 DEF Opening, Resolved

(* Of one liked song's album without multi-id endpoints: the album itself,  *)
(* and then its artists.                                                    *)
LEMMA LikedCreatorsFetched ==
  ASSUME TypeInv, CoverInv, Drained, config.depth >= 2,
         NEW a \in LikedAlbums \ Unknown, NEW ar \in ToSet(Creators[a]), ar \notin Unknown
  PROVE  Fetched(ar)
<1>0. config \in Configurations /\ config.depth \in Nat /\ crawled \subseteq Messages /\ a \in Albums
  BY DepthsAre, LikedAlbumsAre DEF TypeInv
<1>1. CASE config.batch
  <2>1. PICK d \in Nat : d = config.depth - 1 /\ d > 0
    BY <1>0
  <2>2. Opening(a, d)
    BY <1>0, <1>1, <2>1, LikedOpened
  <2>3. PICK q \in crawled : q.url.endpoint = "albums?ids" /\ q.depth = d /\ a \in Resolved(q.url)
    BY <2>2 DEF Opening
  <2>4. q \in Messages /\ ~Gone(q)
    BY <1>0, <2>3 DEF Gone, Single
  <2>5. PICK S : S = CreatorsOf(Resolved(q.url)) \cup EmbeddedCredits(Resolved(q.url)) /\ ar \in S
    BY <2>3 DEF CreatorsOf
  <2>6. Asks(ToSet(FollowLinks(q)), "artists?ids", S, q.depth - 1)
    BY <1>0, <2>1, <2>3, <2>4, <2>5, AlbumLinksAre
  <2>. QED  BY <2>4, <2>5, <2>6, ArtistAsked
<1>2. CASE ~config.batch
  <2>1. PICK t \in Liked : a = AlbumOf[t]
    BY DEF LikedAlbums
  <2>2. PICK r \in crawled : \E page : /\ ~Gone(r) /\ t \in page
                                       /\ AskLikedSongs(ToSet(FollowLinks(r)), page, config.depth - 1)
    BY <1>0, <2>1, LikedAsked
  <2>3. PICK page : /\ ~Gone(r) /\ t \in page
                    /\ AskLikedSongs(ToSet(FollowLinks(r)), page, config.depth - 1)
    BY <2>2
  <2>4. a \in AlbumsOf(page) /\ AlbumsBy = "albums/{id}" /\ ArtistsBy = "artists/{id}"
    BY <1>2, <2>1, <2>3 DEF AlbumsOf, AlbumsBy, ArtistsBy
  <2>5. PICK q \in ToSet(FollowLinks(r)) :
          q.url.endpoint = "albums/{id}" /\ q.depth = config.depth - 1 /\ a \in ToSet(q.url.ids)
    BY <2>3, <2>4 DEF AskLikedSongs, Asks
  <2>6. q \in Messages /\ (q \in crawled \/ Gone(q))
    BY <2>3, <2>5, LinkCrawled
  <2>7. ToSet(q.url.ids) = {q.url.ids[1]}
    BY <2>5, <2>6, OneId DEF One, Single
  <2>8. ~Gone(q) /\ q \in crawled /\ q.url.ids[1] = a
    BY <2>5, <2>6, <2>7 DEF Gone
  <2>9. PICK S : S = CreatorsOf(ToSet(q.url.ids)) /\ ar \in S
    BY <2>5 DEF CreatorsOf
  <2>10. q.depth > 0
    <3>1. PICK d \in Nat : d = config.depth /\ d >= 2
      BY <1>0
    <3>2. q.depth = d - 1
      BY <2>5, <3>1
    <3>. QED  BY <3>1, <3>2
  <2>11. Asks(ToSet(FollowLinks(q)), "artists/{id}", S, q.depth - 1)
    BY <1>0, <2>4, <2>5, <2>6, <2>9, <2>10, LinksAre
  <2>. QED  BY <2>8, <2>9, <2>11, ArtistAsked
<1>. QED  BY <1>1, <1>2

(* Every album whose lists are persisted was opened, at a depth that leaves *)
(* a hop to the artists wherever these are to be ranked.                    *)
LEMMA AllOpened ==
  ASSUME TypeInv, CoverInv, ExpectInv, Drained, SeedDepth >= 2
  PROVE  /\ \A a \in Opened : config.discographies /\ \E d \in Nat : Opening(a, d)
         /\ \A a \in OpenedDeep : config.discographies /\ \E d \in Nat : d > 0 /\ Opening(a, d)
         /\ \A a \in DiscographyAlbums : \E d \in Nat : d > 0 /\ Opening(a, d)
<1>0. SeedDepth \in Nat /\ config.depth \in Nat /\ crawled \subseteq Messages
  BY Catalogue, DepthsAre DEF TypeInv
<1>1. ASSUME NEW a \in DiscographyAlbums
      PROVE  config.discographies /\ \E d \in Nat : d > 0 /\ Opening(a, d)
  <2>1. Opening(a, SeedDepth - 1)
    BY <1>0, DiscographyOpened
  <2>2. SeedDepth - 1 \in Nat /\ SeedDepth - 1 > 0
    BY <1>0
  <2>3. config.discographies
    BY <1>0, DiscographyIs
  <2>. QED  BY <2>1, <2>2, <2>3
<1>2. ASSUME config.discographies, config.batch, config.depth >= 1, NEW a \in LikedAlbums \ Unknown
      PROVE  \E d \in Nat : (config.depth >= 2 => d > 0) /\ Opening(a, d)
  <2>1. config.depth - 1 \in Nat /\ (config.depth >= 2 => config.depth - 1 > 0)
    BY <1>0, <1>2
  <2>2. Opening(a, config.depth - 1)
    BY <1>2, LikedOpened
  <2>. QED  BY <2>1, <2>2
<1>. QED  BY <1>1, <1>2 DEF Opened, OpenedDeep

LEMMA RankedFetched ==
  ASSUME TypeInv, CoverInv, ExpectInv, Drained, SeedDepth >= 2, NEW g, Delivered(g), NEW ar \in Ranked
  PROVE  Fetched(ar) /\ ar \notin Unknown
<1>0. config.depth \in Nat /\ ar \notin Unknown
  BY DepthsAre DEF TypeInv, Ranked
<1>1. CASE config.depth >= 1 /\ ar \in CreditsOf(Liked)
  <2>1. PICK t \in Liked : ar \in ToSet(Credits[t])
    BY <1>1 DEF CreditsOf
  <2>2. PICK r \in crawled : \E page : /\ ~Gone(r) /\ t \in page
                                       /\ AskLikedSongs(ToSet(FollowLinks(r)), page, config.depth - 1)
    BY <1>1, LikedAsked
  <2>3. PICK page : /\ ~Gone(r) /\ t \in page
                    /\ AskLikedSongs(ToSet(FollowLinks(r)), page, config.depth - 1)
    BY <2>2
  <2>4. PICK S : S = CreditsOf(page) /\ ar \in S
    BY <2>1, <2>3 DEF CreditsOf
  <2>5. Asks(ToSet(FollowLinks(r)), ArtistsBy, S, config.depth - 1)
    BY <2>3, <2>4 DEF AskLikedSongs
  <2>6. ArtistsBy \in {"artists/{id}", "artists?ids"}
    BY DEF ArtistsBy
  <2>7. Fetched(ar)
    BY <1>0, <2>3, <2>4, <2>5, <2>6, ArtistAsked
  <2>. QED  BY <1>0, <2>7
<1>2. CASE config.depth >= 2 /\ ar \in CreatorsOf(LikedAlbums \ Unknown)
  <2>1. PICK a \in LikedAlbums \ Unknown : ar \in ToSet(Creators[a])
    BY <1>2 DEF CreatorsOf
  <2>. QED  BY <1>0, <1>2, <2>1, LikedCreatorsFetched
<1>3. CASE ar \in CreatorsOf(DiscographyAlbums)
  <2>1. PICK a \in DiscographyAlbums : ar \in ToSet(Creators[a])
    BY <1>3 DEF CreatorsOf
  <2>2. PICK d \in Nat : d > 0 /\ Opening(a, d)
    BY AllOpened
  <2>3. a \in Albums
    BY OpenedAre
  <2>. QED  BY <1>0, <2>1, <2>2, <2>3, AlbumDelivered
<1>4. CASE ar \in CreditsOf(TracksIn(Listed(OpenedDeep)))
  <2>1. PICK t \in TracksIn(Listed(OpenedDeep)) : ar \in ToSet(Credits[t])
    BY <1>4 DEF CreditsOf
  <2>2. PICK a \in OpenedDeep : t \in TracksOn(AlbumPages[a])
    BY ListedTracks
  <2>3. PICK d \in Nat : config.discographies /\ d > 0 /\ Opening(a, d)
    BY AllOpened
  <2>4. a \in Albums
    BY OpenedAre
  <2>. QED  BY <1>0, <2>1, <2>2, <2>3, <2>4, AlbumDelivered
<1>. QED  BY <1>1, <1>2, <1>3, <1>4 DEF Ranked

(* A liked song fetched by itself: its credits were written.                *)
LEMMA AloneDelivered ==
  ASSUME TypeInv, CoverInv, Drained, NEW g, Delivered(g), NEW t \in FetchedAlone
  PROVE  \A ar \in ToSet(Credits[t]) : ar \in g.nodes /\ <<ar, t>> \in g.created
<1>1. t \in Liked /\ t \notin Unknown /\ config.depth >= 1 /\ ~config.batch
  BY DEF FetchedAlone
<1>2. PICK r \in crawled : \E page : /\ ~Gone(r) /\ t \in page
                                     /\ AskLikedSongs(ToSet(FollowLinks(r)), page, config.depth - 1)
  BY <1>1, LikedAsked
<1>3. PICK page : /\ ~Gone(r) /\ t \in page
                  /\ AskLikedSongs(ToSet(FollowLinks(r)), page, config.depth - 1)
  BY <1>2
<1>4. PICK q \in ToSet(FollowLinks(r)) : q.url.endpoint = "tracks/{id}" /\ t \in ToSet(q.url.ids)
  BY <1>1, <1>3 DEF AskLikedSongs, AskTracks, Asks
<1>5. q \in Messages /\ (q \in crawled \/ Gone(q))
  BY <1>3, <1>4, LinkCrawled
<1>6. ToSet(q.url.ids) = {q.url.ids[1]}
  BY <1>4, <1>5, OneId DEF One, Single
<1>7. ~Gone(q) /\ q \in crawled /\ q.url.ids[1] = t
  BY <1>1, <1>4, <1>5, <1>6 DEF Gone
<1>8. PICK u \in Resources : u = q.url
  BY <1>5 DEF Messages
<1>9. PICK one : one = {t}
  OBVIOUS
<1>10. ToSet(Writes(u)) = {InsertTracks(one)}
  BY <1>4, <1>7, <1>8, <1>9, WritesName
<1>11. Holds(g, InsertTracks(one))
  BY <1>7, <1>8, <1>10 DEF Delivered, Stored
<1>12. CreditsOf(one) \subseteq g.nodes /\ CreditEdges(one) \subseteq g.created
  BY <1>11 DEF Holds, InsertTracks, InsertCredited, Insert
<1>13. \A ar \in ToSet(Credits[t]) : ar \in CreditsOf(one) /\ <<ar, t>> \in CreditEdges(one)
  BY <1>9 DEF CreditsOf, CreditEdges
<1>. QED  BY <1>12, <1>13

LEMMA ClosureDelivered ==
  ASSUME TypeInv, CoverInv, ExpectInv, Drained, SeedDepth >= 2, NEW g, Delivered(g)
  PROVE  Under(Closure, g)
<1>1. Holds(g, InsertCredited(Liked, CreditedLikes, LikedBy))
  <2>. DEFINE kept == CreditKept(Liked)
              v == InsertCredited(Liked, kept, LikedBy)
              w == InsertCredited(Liked, CreditedLikes, LikedBy)
  <2>1. Holds(g, v)
    BY LikedDelivered DEF InsertLikedSongs
  <2>2. /\ v.nodes = Liked \cup LikedAlbums \cup CreditsOf(kept) \cup CreatorsOf(LikedAlbums)
        /\ v.created = CreditEdges(kept) \cup CreatorEdges(LikedAlbums) \cup AlbumArtistEdges(Liked)
        /\ w.nodes = Liked \cup LikedAlbums \cup CreditsOf(CreditedLikes) \cup CreatorsOf(LikedAlbums)
        /\ w.created = CreditEdges(CreditedLikes) \cup CreatorEdges(LikedAlbums) \cup AlbumArtistEdges(Liked)
        /\ w.always = v.always /\ w.liked = v.liked /\ w.contains = v.contains
    BY DEF InsertCredited, Insert, LikedAlbums
  <2>. HIDE DEF v, w
  <2>3. PICK N, E : N = g.nodes /\ E = g.created
    OBVIOUS
  <2>4. CreditsOf(kept) \subseteq N /\ CreditEdges(kept) \subseteq E
    BY <2>1, <2>2, <2>3 DEF Holds
  <2>5. ASSUME NEW t \in CreditedLikes, NEW ar \in ToSet(Credits[t]) PROVE ar \in N /\ <<ar, t>> \in E
    <3>1. CASE t \in kept
      BY <2>4, <2>5, <3>1 DEF CreditsOf, CreditEdges
    <3>2. CASE t \in FetchedAlone
      BY <2>3, <2>5, <3>2, AloneDelivered
    <3>. QED  BY <3>1, <3>2 DEF CreditedLikes
  <2>6. CreditsOf(CreditedLikes) \subseteq N /\ CreditEdges(CreditedLikes) \subseteq E
    BY <2>5, CreditsWithin
  <2>7. Holds(g, w)
    BY <2>1, <2>2, <2>3, <2>6 DEF Holds
  <2>. QED  BY <2>7 DEF w
<1>2. ASSUME NEW a \in Opened
      PROVE  /\ Holds(g, InsertAlbums({a}))
             /\ \A t \in TracksOn(AlbumPages[a]) : Holds(g, InsertAlbumTracks({}, {<<a, t>>}))
  <2>1. PICK d \in Nat : config.discographies /\ Opening(a, d)
    BY AllOpened
  <2>. QED  BY <2>1, OpenedAre, AlbumDelivered
<1>3. Holds(g, InsertAlbums(Opened))
  BY <1>2, AlbumsInserted
<1>4. Holds(g, InsertAlbumTracks(Opened, Listed(Opened)))
  <2>1. PICK O, C, N : O = Opened /\ C = Listed(Opened) /\ N = g.nodes
    OBVIOUS
  <2>2. O \subseteq g.nodes
    BY <1>3, <2>1 DEF Holds, InsertAlbums, Insert
  <2>3. ASSUME NEW e \in C PROVE Holds(g, InsertAlbumTracks({}, {e}))
    <3>1. PICK a \in Opened : \E t \in TracksOn(AlbumPages[a]) : e = <<a, t>>
      BY <2>1, ListedTracks
    <3>. QED  BY <1>2, <3>1
  <2>4. Holds(g, InsertAlbumTracks(O, C))
    BY <2>2, <2>3, TrackListsInserted
  <2>. QED  BY <2>1, <2>4
<1>5. Holds(g, InsertArtists(Ranked))
  <2>1. ASSUME NEW ar \in Ranked PROVE ar \in g.nodes /\ ar \in g.complete
    BY RankedFetched, ArtistDelivered
  <2>. QED  BY <2>1 DEF Holds, InsertArtists, Insert
<1>. QED  BY <1>1, <1>3, <1>4, <1>5, ClosureIs

-----------------------------------------------------------------------------
(* The two sides of a drained crawl: the closure with what the backfills    *)
(* wrote, and the graph with what was lost written late.                    *)

LEMMA BothSides ==
  ASSUME TypeInv, CoverInv, GraphInv
  PROVE  /\ WritesOf(enriched) \in Seq(Inserts)
         /\ ToSet(WritesOf(enriched)) = UNION {ToSet(Writes(u)) : u \in enriched}
         /\ WritesOf({m.url : m \in lost}) \in Seq(Inserts)
         /\ \A w \in ToSet(WritesOf({m.url : m \in lost})) : \E m \in lost : w \in ToSet(Writes(m.url))
         /\ \A m \in lost : ToSet(Writes(m.url)) \subseteq ToSet(WritesOf({n.url : n \in lost}))
<1>1. enriched \in SUBSET Resources /\ IsFiniteSet(enriched)
  BY DEF GraphInv
<1>. DEFINE urls == {m.url : m \in lost}
<1>2. urls \in SUBSET Resources
  BY DEF TypeInv, Messages
<1>3. IsFiniteSet(urls)
  <2>. DEFINE f == [m \in lost |-> m.url]
  <2>1. f \in Surjection(lost, urls)
    BY DEF Surjection
  <2>2. IsFiniteSet(lost)
    BY DEF GraphInv
  <2>. HIDE DEF f, urls
  <2>. QED  BY <2>1, <2>2, FS_Surjection
<1>4. \A m \in lost : m.url \in urls
  OBVIOUS
<1>5. \A u \in urls : \E m \in lost : u = m.url
  OBVIOUS
<1>. HIDE DEF urls
<1>6. WritesOf(urls) \in Seq(Inserts) /\ ToSet(WritesOf(urls)) = UNION {ToSet(Writes(u)) : u \in urls}
  BY <1>2, <1>3, WritesOfAre
<1>7. \A w \in ToSet(WritesOf(urls)) : \E m \in lost : w \in ToSet(Writes(m.url))
  BY <1>5, <1>6
<1>8. \A m \in lost : ToSet(Writes(m.url)) \subseteq ToSet(WritesOf(urls))
  BY <1>4, <1>6
<1>9. WritesOf(enriched) \in Seq(Inserts) /\ ToSet(WritesOf(enriched)) = UNION {ToSet(Writes(u)) : u \in enriched}
  BY <1>1, WritesOfAre
<1>. QED  BY <1>6, <1>7, <1>8, <1>9 DEF urls

(* Graphs that differ in no node or edge, and leave no album a stub, are    *)
(* equal.                                                                   *)
LEMMA SameGraph ==
  ASSUME NEW g \in Graphs, NEW h \in Graphs, Under(g, h), Under(h, g),
         NoStubs(g, {}), NoStubs(h, {})
  PROVE  g = h
<1>1. /\ g = [nodes |-> g.nodes, complete |-> g.complete, liked |-> g.liked,
              created |-> g.created, contains |-> g.contains]
      /\ h = [nodes |-> h.nodes, complete |-> h.complete, liked |-> h.liked,
              created |-> h.created, contains |-> h.contains]
      /\ g.complete \subseteq g.nodes /\ h.complete \subseteq h.nodes
  BY DEF Graphs
<1>2. /\ g.nodes = h.nodes /\ g.liked = h.liked /\ g.created = h.created /\ g.contains = h.contains
  BY DEF Under
<1>3. g.complete = h.complete
  BY <1>1, <1>2 DEF Under, NoStubs
<1>. QED  BY <1>1, <1>2, <1>3

LEMMA ClosureReached ==
  ASSUME TypeInv, CoverInv, ExpectInv, GraphInv, Drained, SeedDepth >= 2
  PROVE  Written(Closure, WritesOf(enriched)) = Written(graph, WritesOf({m.url : m \in lost}))
<1>. DEFINE more == WritesOf(enriched)
            late == WritesOf({m.url : m \in lost})
            left == Written(Closure, more)
            right == Written(graph, late)
<1>1. /\ more \in Seq(Inserts) /\ late \in Seq(Inserts)
      /\ \A w \in ToSet(more) : \E u \in enriched : w \in ToSet(Writes(u))
      /\ \A u \in enriched : ToSet(Writes(u)) \subseteq ToSet(more)
      /\ \A w \in ToSet(late) : \E m \in lost : w \in ToSet(Writes(m.url))
      /\ \A m \in lost : ToSet(Writes(m.url)) \subseteq ToSet(late)
  BY BothSides
<1>. HIDE DEF more, late
<1>2. Closure \in Graphs /\ graph \in Graphs /\ NoStubs(Closure, {})
  BY ClosureIs DEF TypeInv
<1>3. left \in Above(Closure) /\ right \in Above(graph) /\ left \in Graphs /\ right \in Graphs
  BY <1>1, <1>2, WrittenAbove DEF Above
<1>4. (\A w \in ToSet(more) : Holds(left, w)) /\ (\A w \in ToSet(late) : Holds(right, w))
  BY <1>1, WrittenHolds
<1>5. \A w \in ToSet(more) : Whole(w)
  BY <1>1, EnrichmentsWhole DEF GraphInv
<1>6. \A w \in ToSet(late) : Tied(w) /\ Holds(Closure, w)
  BY <1>1, ExpectedWrites DEF CoverInv, ExpectInv
<1>. HIDE DEF left, right
<1>7. Delivered(right)
  <2>1. ASSUME NEW r \in crawled, ~Gone(r) PROVE Stored(right, r.url)
    <3>1. r \in lost \/ Stored(graph, r.url)
      BY <2>1, DrainedIs
    <3>2. CASE r \in lost
      BY <1>1, <1>4, <3>2 DEF Stored
    <3>3. CASE Stored(graph, r.url)
      BY <1>3, <3>3, StoredStays
    <3>. QED  BY <3>1, <3>2, <3>3
  <2>. QED  BY <2>1 DEF Delivered
<1>8. Under(left, right)
  <2>1. Under(Closure, right)
    BY <1>7, ClosureDelivered
  <2>2. ASSUME NEW w \in ToSet(more) PROVE Holds(right, w) /\ w.ifNew \subseteq Albums
    <3>1. PICK u \in enriched : w \in ToSet(Writes(u))
      BY <1>1, <2>2
    <3>2. Stored(right, u)
      BY <1>3, StoredStays DEF CoverInv
    <3>. QED  BY <1>5, <2>2, <3>1, <3>2 DEF Stored, Whole
  <2>. QED  BY <1>1, <1>2, <2>1, <2>2, WrittenUnder DEF left
<1>9. Under(right, left)
  <2>1. \A u \in enriched : Stored(left, u)
    BY <1>1, <1>4 DEF Stored
  <2>2. Under(graph, left)
    BY <1>3, <2>1 DEF GraphInv, AboveClosure
  <2>3. ASSUME NEW w \in ToSet(late) PROVE Holds(left, w) /\ w.ifNew \subseteq Albums
    BY <1>3, <1>6, <2>3 DEF Above, Holds, Tied
  <2>. QED  BY <1>1, <1>2, <2>2, <2>3, WrittenUnder DEF right
<1>10. NoStubs(left, {})
  BY <1>1, <1>2, <1>5, WrittenNoStubs DEF left, Whole
<1>11. NoStubs(right, {})
  <2>1. Openers \subseteq right.complete
    <3>1. ASSUME NEW a \in Albums, Opener(a) PROVE a \in right.complete
      <4>1. PICK q \in crawled : q.url.endpoint = "albums?ids" /\ a \in Resolved(q.url)
        BY <3>1 DEF Opener
      <4>2. q.url \in Resources /\ ~Gone(q)
        BY <4>1 DEF TypeInv, Messages, Gone, Single
      <4>. DEFINE R == Resolved(q.url)
      <4>3. InsertAlbums(R) \in ToSet(Writes(q.url))
        BY <4>1, <4>2, WritesName
      <4>4. Holds(right, InsertAlbums(R))
        BY <1>7, <4>2, <4>3 DEF Delivered, Stored
      <4>5. R \subseteq right.complete
        BY <4>4 DEF Holds, InsertAlbums, Insert
      <4>. QED  BY <4>1, <4>5
    <3>. QED  BY <3>1 DEF Openers
  <2>2. PICK done : done = right.complete
    OBVIOUS
  <2>3. NoStubs(graph, done)
    BY <2>1, <2>2 DEF GraphInv, NoStubs
  <2>4. \A w \in ToSet(late) : w.nodes \cap Albums \subseteq w.always \cup w.ifNew \cup done
    BY <1>6, <2>1, <2>2 DEF Tied
  <2>5. NoStubs(right, done)
    BY <1>1, <1>2, <2>3, <2>4, WrittenNoStubs DEF right
  <2>. QED  BY <2>2, <2>5 DEF NoStubs
<1>12. left = right
  BY <1>3, <1>8, <1>9, <1>10, <1>11, SameGraph
<1>. QED  BY <1>12 DEF left, right, more, late

(* When the queues are empty the graph is the closure of the catalogue, for *)
(* every catalogue, in whatever order the consumers ran and whichever       *)
(* writes were lost, once these are made late.  A seed must be two hops     *)
(* from the artists it leads to, as DISCOGRAPHY_SEED_DEPTH makes it: at     *)
(* less the albums of a discography are opened and nobody asks for the      *)
(* artists on them.                                                         *)
THEOREM DrainedIsClosure ==
  ASSUME SeedDepth >= 2
  PROVE  Spec => []DrainedGraphIsClosure
<1>1. TypeInv /\ CoverInv /\ ExpectInv /\ GraphInv => DrainedGraphIsClosure
  BY ClosureReached DEF DrainedGraphIsClosure
<1>. QED  BY <1>1, TypeAlways, CoverAlways, ExpectAlways, GraphAlways, PTL

-----------------------------------------------------------------------------
(* The seeds.  An artist is seeded when the graph links enough liked songs  *)
(* to it, and it never links fewer: every artist seeded so far is one that  *)
(* would be seeded now.                                                     *)

SeededInv ==
  \A r \in crawled : r.url.endpoint = "artists/{id}/albums" => r.url.ids[1] \in Seedable

LEMMA SeedableGrows ==
  ASSUME graph \in Graphs, config' = config, graph' \in Above(graph)
  PROVE  Seedable \subseteq Seedable'
<1>0. graph.liked \subseteq graph'.liked /\ graph.created \subseteq graph'.created /\ graph'.liked \subseteq Liked
  BY DEF Above, Graphs, Sound, LikedBy
<1>. SUFFICES ASSUME NEW ar \in Seedable PROVE ar \in Seedable'
  OBVIOUS
<1>. DEFINE S == {t \in graph.liked : <<ar, t>> \in graph.created}
            P == {t \in graph'.liked : <<ar, t>> \in graph'.created}
<1>1. ar \in Artists /\ Cardinality(S) >= AffinityMin
  BY DEF Seedable, Affinity
<1>2. S \subseteq P /\ P \subseteq Liked
  BY <1>0
<1>3. ar \in Artists /\ Cardinality(P) >= AffinityMin => ar \in Seedable'
  BY DEF Seedable, Affinity
<1>. HIDE DEF S, P
<1>4. /\ IsFiniteSet(P) /\ Cardinality(S) <= Cardinality(P)
      /\ Cardinality(S) \in Nat /\ Cardinality(P) \in Nat
  BY <1>2, LikedTracks, FS_Subset, FS_CardinalityType
<1>. QED  BY <1>1, <1>3, <1>4, Catalogue

(* Any other request for an artist's albums is a page of one the seeder     *)
(* asked for.                                                               *)
LEMMA ExpectedIsSeedable ==
  ASSUME SeededInv, NEW r, Expected(r), r.url.endpoint = "artists/{id}/albums"
  PROVE  r.url.ids[1] \in Seedable
<1>1. PICK q \in crawled : q = Request(Url(r.url.endpoint, r.url.ids, 1), SeedDepth)
  BY DEF Expected
<1>2. q.url.endpoint = r.url.endpoint /\ q.url.ids = r.url.ids
  BY <1>1 DEF Request, Url
<1>. QED  BY <1>2 DEF SeededInv

LEMMA SeededKept ==
  ASSUME TypeInv, SeededInv, config' = config, graph' \in Above(graph),
         \A r \in crawled' : \/ r \in crawled \/ Expected(r)
                             \/ r.url.endpoint = "artists/{id}/albums" => r.url.ids[1] \in Seedable
  PROVE  SeededInv'
<1>1. Seedable \subseteq Seedable'
  BY SeedableGrows DEF TypeInv
<1>2. ASSUME NEW r \in crawled', r.url.endpoint = "artists/{id}/albums" PROVE r.url.ids[1] \in Seedable
  BY <1>2, ExpectedIsSeedable DEF SeededInv
<1>. QED  BY <1>1, <1>2 DEF SeededInv

LEMMA SeedCrawls ==
  ASSUME TypeInv, Seed
  PROVE  \E a, b : \E seeds \in DiscographySeeds :
           /\ a.url.endpoint = "me/tracks" /\ b.url.endpoint = "me/playlists"
           /\ crawled' = crawled \cup {a, b} \cup ToSet(seeds)
<1>. DEFINE a == Request(Url("me/tracks", <<>>, 1), config.depth)
            b == Request(Url("me/playlists", <<>>, 1), config.depth)
            ab == <<a, b>>
<1>1. PICK seeds \in DiscographySeeds : Publish(requests, ab \o seeds)
  BY DEF Seed
<1>2. a \in Messages /\ b \in Messages /\ seeds \in Seq(Messages)
  BY LikedSongsAre, SeedsAre DEF TypeInv
<1>3. a.url.endpoint = "me/tracks" /\ b.url.endpoint = "me/playlists"
  BY DEF Request, Url
<1>. HIDE DEF a, b
<1>4. ab \in Seq(Messages) /\ ToSet(ab) = {a, b}
  <2>1. ab \in Seq(Messages) /\ Len(ab) = 2 /\ ab[1] = a /\ ab[2] = b /\ DOMAIN ab = 1..2
    BY <1>2
  <2>. HIDE DEF ab
  <2>. QED  BY <2>1 DEF ToSet
<1>. HIDE DEF ab
<1>5. crawled' = crawled \cup {a, b} \cup ToSet(seeds)
  BY <1>1, <1>2, <1>4, ToSetConcat DEF Publish
<1>. QED  BY <1>3, <1>5

LEMMA SeedsAreSeedable ==
  ASSUME NEW seeds \in DiscographySeeds, graph \in Graphs, NEW r \in ToSet(seeds)
  PROVE  r.url.ids[1] \in Seedable
<1>1. CASE ~config.discographies
  BY <1>1, ToSetEmpty DEF DiscographySeeds
<1>2. CASE config.discographies
  <2>1. PICK s \in SetToSeqs(Seedable) : seeds = Each("artists/{id}/albums", s, SeedDepth)
    BY <1>2 DEF DiscographySeeds
  <2>2. s \in Seq(Seedable)
    BY SeedableIsTaste, SetToSeqsAre
  <2>3. PICK i \in DOMAIN s : r = Request(Url("artists/{id}/albums", <<s[i]>>, 1), SeedDepth)
    BY <2>1 DEF Each, ToSet
  <2>4. s[i] \in Seedable
    BY <2>2, ListMembers
  <2>5. r.url.ids[1] = s[i]
    BY <2>3 DEF Request, Url
  <2>. QED  BY <2>4, <2>5
<1>. QED  BY <1>1, <1>2

LEMMA SeededBySeed ==
  ASSUME TypeInv, SeededInv, Seed
  PROVE  SeededInv'
<1>1. PICK a, b : \E seeds \in DiscographySeeds :
        /\ a.url.endpoint = "me/tracks" /\ b.url.endpoint = "me/playlists"
        /\ crawled' = crawled \cup {a, b} \cup ToSet(seeds)
  BY SeedCrawls
<1>2. PICK seeds \in DiscographySeeds : crawled' = crawled \cup {a, b} \cup ToSet(seeds)
  BY <1>1
<1>3. \A r \in ToSet(seeds) : r.url.ids[1] \in Seedable
  BY SeedsAreSeedable DEF TypeInv
<1>4. config' = config /\ graph' \in Above(graph)
  BY StillAbove DEF Seed
<1>. QED  BY <1>1, <1>2, <1>3, <1>4, SeededKept

LEMMA SeededByEngine ==
  ASSUME TypeInv, CoverInv, ExpectInv, SeededInv, Engine_Fetch
  PROVE  SeededInv'
<1>. DEFINE req == Head(requests)
            rest == Tail(requests)
            next == IF HasNext(req.url) THEN <<Request(NextPage(req.url), req.depth)>> ELSE <<>>
<1>1. req \in Messages /\ req \in ToSet(requests)
  BY HeadAndTail DEF TypeInv, Engine_Fetch
<1>2. config' = config /\ graph' \in Above(graph)
  BY StillAbove DEF Engine_Fetch
<1>3. CASE Gone(req) /\ crawled' = crawled \ {req}
  <2>. HIDE DEF req
  <2>. QED  BY <1>2, <1>3, SeededKept
<1>4. CASE ~Gone(req) /\ Publish(rest, next)
  <2>. HIDE DEF req, rest
  <2>1. req \in crawled
    BY <1>1, <1>4 DEF CoverInv, Asked
  <2>2. ASSUME NEW r \in ToSet(next) PROVE Expected(r)
    <3>1. CASE HasNext(req.url)
      <4>1. r = Request(NextPage(req.url), req.depth)
        BY <2>2, <3>1, OneOfList
      <4>. QED  BY <1>1, <2>1, <4>1, ExpectedNext DEF ExpectInv, Messages
    <3>2. CASE ~HasNext(req.url)
      BY <2>2, <3>2, ToSetEmpty
    <3>. QED  BY <3>1, <3>2
  <2>. HIDE DEF next
  <2>3. crawled' = crawled \cup ToSet(next)
    BY <1>4 DEF Publish
  <2>. QED  BY <1>2, <2>2, <2>3, SeededKept
<1>. QED  BY <1>3, <1>4 DEF Engine_Fetch, Gone

LEMMA SeededByFollow ==
  ASSUME TypeInv, CoverInv, ExpectInv, SeededInv, Worker_FollowLinks
  PROVE  SeededInv'
<1>0. PICK msg : msg = Head(follows)
  OBVIOUS
<1>1. msg \in ToSet(follows) /\ config' = config /\ graph' \in Above(graph)
  BY <1>0, HeadAndTail, StillAbove DEF TypeInv, Worker_FollowLinks
<1>2. crawled' = crawled \cup ToSet(FollowLinks(msg))
  BY <1>0 DEF Worker_FollowLinks, Publish
<1>3. msg \in crawled /\ ~Gone(msg)
  BY <1>1 DEF CoverInv
<1>4. \A q \in ToSet(FollowLinks(msg)) : Expected(q)
  BY <1>3, ExpectedLinks DEF ExpectInv
<1>. QED  BY <1>1, <1>2, <1>4, SeededKept

LEMMA SeededByWrite ==
  ASSUME TypeInv, SeededInv, Worker_Store \/ Worker_StoreFails \/ Backfill_Batch
  PROVE  SeededInv'
<1>1. config' = config /\ crawled' = crawled
  BY DEF Worker_Store, Worker_StoreFails, Backfill_Batch, crawl
<1>2. CASE Worker_Store \/ Worker_StoreFails
  <2>0. PICK msg : msg = Head(stores)
    OBVIOUS
  <2>1. graph \in Graphs /\ msg.url \in Resources
    BY <1>2, <2>0, HeadAndTail DEF TypeInv, Messages, Worker_Store, Worker_StoreFails
  <2>2. graph' \in Above(graph)
    BY <1>2, <2>0, <2>1, WrittenIs DEF Worker_Store, Worker_StoreFails
  <2>. QED  BY <1>1, <2>2, SeededKept
<1>3. CASE Backfill_Batch
  <2>. DEFINE u == Url(backfill.endpoint, Head(backfill.todo), 1)
  <2>1. u \in Resources /\ graph \in Graphs /\ graph' = Written(graph, Writes(u))
    BY <1>3, BatchUrl DEF Backfill_Batch, TypeInv
  <2>. HIDE DEF u
  <2>2. graph' \in Above(graph)
    BY <2>1, WrittenIs
  <2>. QED  BY <1>1, <2>2, SeededKept
<1>. QED  BY <1>2, <1>3

LEMMA SeededStep == TypeInv /\ CoverInv /\ ExpectInv /\ SeededInv /\ [Next]_vars => SeededInv'
<1>. SUFFICES ASSUME TypeInv, CoverInv, ExpectInv, SeededInv, [Next]_vars PROVE SeededInv'
  OBVIOUS
<1>1. CASE Seed
  BY <1>1, SeededBySeed
<1>2. CASE Engine_Fetch
  BY <1>2, SeededByEngine
<1>3. CASE Worker_FollowLinks
  BY <1>3, SeededByFollow
<1>4. CASE Worker_Store \/ Worker_StoreFails \/ Backfill_Batch
  BY <1>4, SeededByWrite
<1>5. CASE UNCHANGED <<crawl, graph>>
  <2>1. config' = config /\ crawled' = crawled /\ graph' \in Above(graph)
    BY <1>5, StillAbove DEF crawl
  <2>. QED  BY <2>1, SeededKept
<1>. QED  BY <1>1, <1>2, <1>3, <1>4, <1>5
          DEF Next, Backfill, Backfill_Read, Backfill_Retry, Backfill_Abort, vars

LEMMA SeededAlways == Spec => []SeededInv
<1>1. Init => SeededInv
  BY DEF Init, SeededInv
<1>. QED  BY <1>1, TypeAlways, CoverAlways, ExpectAlways, SeededStep, PTL DEF Spec

(* A drained graph that lost nothing has every liked song and every edge of *)
(* the closure, so what it shows of the user's taste is what can be shown.  *)
LEMMA WrittenNothing ==
  ASSUME NEW g
  PROVE  Written(g, <<>>) = g
<1>. DEFINE s == <<>>
            f == CHOOSE h : IsAfter(h, g, s)
<1>0. s \in Seq(Inserts) /\ Len(s) = 0
  BY EmptySeq
<1>. HIDE DEF s
<1>1. IsAfter(f, g, s)
  BY <1>0, AfterExists
<1>2. Written(g, s) = f[0]
  BY <1>0 DEF Written, IsAfter
<1>. HIDE DEF f
<1>3. f[0] = g
  BY <1>0, <1>1 DEF IsAfter
<1>. QED  BY <1>2, <1>3 DEF s

LEMMA NothingLate ==
  WritesOf({}) = <<>>
<1>1. {} \in SUBSET Resources /\ IsFiniteSet({})
  BY FS_EmptySet
<1>2. WritesOf({}) \in Seq(Inserts) /\ ToSet(WritesOf({})) = {}
  BY <1>1, WritesOfAre
<1>. QED  BY <1>2, ToSetType

LEMMA LinkedIsGraph ==
  ASSUME TypeInv, CoverInv, ExpectInv, GraphInv, Drained, SeedDepth >= 2, lost = {}
  PROVE  graph.created = Linked
<1>1. {m.url : m \in lost} = {}
  OBVIOUS
<1>2. Written(graph, WritesOf({m.url : m \in lost})) = graph
  BY <1>1, NothingLate, WrittenNothing
<1>. QED  BY <1>2, ClosureReached DEF Linked

LEMMA SeedableIsLinked ==
  ASSUME TypeInv, CoverInv, ExpectInv, GraphInv, Drained, SeedDepth >= 2, lost = {}
  PROVE  Seedable = LinkedTaste
<1>1. graph.created = Linked
  BY LinkedIsGraph
<1>2. CASE config.user
  <2>1. Delivered(graph)
    BY DrainedIs DEF Delivered
  <2>2. LikedBy \subseteq graph.liked
    BY <2>1, LikedDelivered DEF Holds, InsertLikedSongs, InsertCredited, Insert
  <2>3. graph.liked = Liked
    BY <1>2, <2>2 DEF TypeInv, Graphs, Sound, LikedBy
  <2>. QED  BY <1>1, <1>2, <2>3 DEF Seedable, Affinity, LinkedTaste
<1>3. CASE ~config.user
  <2>1. Seedable = {}
    BY <1>3, SeedableIsTaste DEF TypeInv, Taste
  <2>. QED  BY <1>3, <2>1 DEF LinkedTaste
<1>. QED  BY <1>2, <1>3

(* A run of the seeder over a drained graph that lost no message has then,  *)
(* in this run or before, requested the discographies of all the artists    *)
(* that enough liked songs are linked to, and of no other: whatever the     *)
(* catalogue, its pages and the backfills that ran.  A seed must be two     *)
(* hops from the artists it leads to, as for the closure above.             *)
THEOREM TasteIsSeeded ==
  ASSUME SeedDepth >= 2
  PROVE  Spec => TasteSeeded
<1>1. ASSUME TypeInv, CoverInv, ExpectInv, GraphInv, SeededInv, [Next]_vars,
             Drained, runs' # runs, lost = {}, config.discographies
      PROVE  Seeded' = LinkedTaste
  <2>1. Seed
    BY <1>1, Zenon DEF Next, Backfill, Backfill_Read, Backfill_Batch, Backfill_Retry, Backfill_Abort,
       Engine_Fetch, Worker_Store, Worker_StoreFails, Worker_FollowLinks, vars, crawl
  <2>2. Seedable = LinkedTaste
    BY <1>1, SeedableIsLinked
  <2>3. PICK a, b : \E seeds \in DiscographySeeds :
          /\ a.url.endpoint = "me/tracks" /\ b.url.endpoint = "me/playlists"
          /\ crawled' = crawled \cup {a, b} \cup ToSet(seeds)
    BY <1>1, <2>1, SeedCrawls
  <2>4. PICK seeds \in DiscographySeeds : crawled' = crawled \cup {a, b} \cup ToSet(seeds)
    BY <2>3
  <2>5. ASSUME NEW r \in crawled', r.url.endpoint = "artists/{id}/albums" PROVE r.url.ids[1] \in Seedable
    <3>1. r \in ToSet(seeds) => r.url.ids[1] \in Seedable
      BY <1>1, SeedsAreSeedable DEF TypeInv
    <3>. QED  BY <1>1, <2>3, <2>4, <2>5, <3>1 DEF SeededInv
  <2>6. \A ar \in Seedable : \E r \in ToSet(seeds) :
          r.url.endpoint = "artists/{id}/albums" /\ r.url.ids[1] = ar
    BY <1>1, SeedsAre
  <2>7. Seeded' = Seedable
    <3>1. Seeded' \subseteq Seedable
      BY <2>5 DEF Seeded
    <3>2. Seedable \subseteq Seeded'
      BY <2>4, <2>6 DEF Seeded
    <3>. QED  BY <3>1, <3>2
  <2>. QED  BY <2>2, <2>7
<1>2. TypeInv /\ CoverInv /\ ExpectInv /\ GraphInv /\ SeededInv /\ [Next]_vars =>
        [Drained /\ runs' # runs /\ lost = {} /\ config.discographies => Seeded' = LinkedTaste]_vars
  BY <1>1
<1>. QED  BY <1>2, TypeAlways, CoverAlways, ExpectAlways, GraphAlways, SeededAlways,
            PTL DEF Spec, TasteSeeded
=============================================================================
