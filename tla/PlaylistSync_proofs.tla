------------------------- MODULE PlaylistSync_proofs -------------------------
(***************************************************************************)
(* For any generators, playlists, targets and failures: the types, and, as *)
(* long as no two processes run for one generator, one managed playlist    *)
(* per generator (two that do may both find none and create one each), a   *)
(* sync that gets to its end realizes its target, and the newest snapshot  *)
(* is what is in the playlist.                                             *)
(*                                                                         *)
(* Three parts: who owns a playlist (a run is then no more than a record   *)
(* with a generator, a place and an id), what the list comprehensions and  *)
(* the chunks of the diff return, and the invariant that what a run still  *)
(* has to send realizes its target.                                        *)
(***************************************************************************)
EXTENDS PlaylistSync, SequenceTheorems, FiniteSetTheorems, TLAPS

USE SyncAssumption

(* No generator is run by two processes.                                   *)
OneProcessPerGenerator ==
  \A p, q \in Syncs : p # q => GeneratorsOf[p] \cap GeneratorsOf[q] = {}

Fields == {"pc", "generator", "target", "apply", "id", "calls", "changed"}

Shape ==
  /\ created \subseteq Ids
  /\ managed \in [Ids -> Generators \cup {NoGenerator}]
  /\ DOMAIN run = Syncs /\ run = [p \in Syncs |-> run[p]]
  /\ \A p \in Syncs : run[p] = [x \in Fields |-> run[p][x]]
  /\ \A p \in Syncs : run[p].pc \in Active => run[p].generator \in GeneratorsOf[p]
  /\ \A p \in Syncs : run[p].pc = "record" => run[p].id \in created

(* A process creates a playlist, and records it, while its generator has    *)
(* none; a playlist that is not created or not recorded is nobody's, and no *)
(* two processes record the same one.                                       *)
Unmanaged ==
  /\ \A i \in Ids \ created : managed[i] = NoGenerator
  /\ \A p \in Syncs : run[p].pc \in {"create", "record"} => ManagedBy(run[p].generator) = {}
  /\ \A p \in Syncs : run[p].pc = "record" => managed[run[p].id] = NoGenerator
  /\ \A p, q \in Syncs :
       p # q /\ run[p].pc = "record" /\ run[q].pc = "record" => run[p].id # run[q].id

ManagedInv == Shape /\ Unmanaged /\ OneManagedPerGenerator

LEMMA ManagedInit == Init => ManagedInv
<1>. SUFFICES ASSUME Init PROVE ManagedInv
  OBVIOUS
<1>1. NoRun.pc = "idle" /\ NoRun = [x \in Fields |-> NoRun[x]]
  BY DEF NoRun, Fields
<1>2. Shape
  BY <1>1 DEF Init, Shape, Active
<1>3. Unmanaged /\ OneManagedPerGenerator
  BY <1>1 DEF Init, Unmanaged, OneManagedPerGenerator
<1>. QED  BY <1>2, <1>3 DEF ManagedInv

(* A step of one process that neither creates nor records a playlist.      *)
LEMMA StaysManaged ==
  ASSUME ManagedInv, NEW p \in Syncs, NEW r,
         run' = [run EXCEPT ![p] = r], UNCHANGED <<created, managed>>,
         r = [x \in Fields |-> r[x]],
         r.pc \in Active => r.generator \in GeneratorsOf[p],
         r.pc # "record",
         r.pc = "create" => ManagedBy(r.generator) = {}
  PROVE  ManagedInv'
<1>1. /\ DOMAIN run' = Syncs /\ run' = [q \in Syncs |-> run'[q]] /\ run'[p] = r
      /\ \A q \in Syncs \ {p} : run'[q] = run[q]
  BY DEF ManagedInv, Shape
<1>2. Shape'
  BY <1>1 DEF ManagedInv, Shape
<1>3. Unmanaged'
  BY <1>1 DEF ManagedInv, Unmanaged, ManagedBy
<1>4. OneManagedPerGenerator'
  BY DEF ManagedInv, OneManagedPerGenerator
<1>. QED  BY <1>2, <1>3, <1>4 DEF ManagedInv

(* A step that moves a process on, whatever else it changes of its run.    *)
LEMMA MovesOn ==
  ASSUME ManagedInv, NEW p \in Syncs, NEW r, run[p].pc \in Active,
         run' = [run EXCEPT ![p] = r], UNCHANGED <<created, managed>>,
         r = [x \in Fields |-> r[x]], r.generator = run[p].generator,
         r.pc # "record",
         r.pc = "create" => ManagedBy(r.generator) = {}
  PROVE  ManagedInv'
<1>1. run[p].generator \in GeneratorsOf[p]
  BY DEF ManagedInv, Shape
<1>. QED  BY <1>1, StaysManaged

LEMMA ManagedCreates ==
  ASSUME ManagedInv, NEW p \in Syncs, CreatePlaylist(p)
  PROVE  ManagedInv'
<1>1. PICK i \in Ids \ created :
        /\ created' = created \cup {i}
        /\ run' = [run EXCEPT ![p].pc = "record", ![p].id = i]
  BY DEF CreatePlaylist
<1>. DEFINE r == [run[p] EXCEPT !.pc = "record", !.id = i]
<1>0. run[p] = [x \in Fields |-> run[p][x]] /\ DOMAIN run = Syncs
  BY DEF ManagedInv, Shape
<1>a. run' = [run EXCEPT ![p] = r]
  BY <1>0, <1>1
<1>2. /\ r = [x \in Fields |-> r[x]] /\ r.pc = "record" /\ r.id = i
      /\ r.generator = run[p].generator /\ run' = [run EXCEPT ![p] = r]
  BY <1>0, <1>a DEF Fields
<1>3. /\ DOMAIN run' = Syncs /\ run' = [q \in Syncs |-> run'[q]] /\ run'[p] = r
      /\ \A q \in Syncs \ {p} : run'[q] = run[q]
  BY <1>2 DEF ManagedInv, Shape
<1>4. run[p].pc = "create" /\ managed' = managed
  BY DEF CreatePlaylist
<1>5. Shape'
  <2>1. run[p].generator \in GeneratorsOf[p]
    BY <1>4 DEF ManagedInv, Shape, Active
  <2>. QED  BY <1>1, <1>2, <1>3, <1>4, <2>1 DEF ManagedInv, Shape
<1>6. Unmanaged'
  BY <1>1, <1>2, <1>3, <1>4 DEF ManagedInv, Unmanaged, ManagedBy, Shape
<1>7. OneManagedPerGenerator'
  BY <1>4 DEF ManagedInv, OneManagedPerGenerator
<1>. QED  BY <1>5, <1>6, <1>7 DEF ManagedInv

LEMMA ManagedRecords ==
  ASSUME OneProcessPerGenerator, ManagedInv, NEW p \in Syncs, RecordCreated(p)
  PROVE  ManagedInv'
<1>. DEFINE r == [run[p] EXCEPT !.pc = "lookup"]
            g == run[p].generator
            i == run[p].id
<1>1. /\ run[p].pc = "record" /\ created' = created
      /\ managed' = [managed EXCEPT ![i] = g] /\ run' = [run EXCEPT ![p].pc = "lookup"]
  BY DEF RecordCreated, Goto
<1>2. /\ r = [x \in Fields |-> r[x]] /\ r.pc = "lookup" /\ r.generator = g
      /\ run' = [run EXCEPT ![p] = r]
  BY <1>1 DEF ManagedInv, Shape, Fields
<1>3. /\ DOMAIN run' = Syncs /\ run' = [q \in Syncs |-> run'[q]] /\ run'[p] = r
      /\ \A q \in Syncs \ {p} : run'[q] = run[q]
  BY <1>2 DEF ManagedInv, Shape
<1>4. /\ g \in GeneratorsOf[p] /\ g \in Generators /\ i \in created /\ i \in Ids
      /\ ManagedBy(g) = {} /\ managed[i] = NoGenerator
  BY <1>1 DEF ManagedInv, Shape, Unmanaged, Active
<1>5. /\ managed' \in [Ids -> Generators \cup {NoGenerator}]
      /\ managed'[i] = g /\ \A j \in Ids \ {i} : managed'[j] = managed[j]
  BY <1>1, <1>4 DEF ManagedInv, Shape
<1>6. Shape'
  <2>1. \A q \in Syncs : run'[q].pc \in Active => run'[q].generator \in GeneratorsOf[q]
    BY <1>2, <1>3, <1>4 DEF ManagedInv, Shape
  <2>2. \A q \in Syncs : run'[q].pc = "record" => run'[q].id \in created'
    BY <1>1, <1>2, <1>3 DEF ManagedInv, Shape
  <2>3. \A q \in Syncs : run'[q] = [x \in Fields |-> run'[q][x]]
    BY <1>2, <1>3 DEF ManagedInv, Shape
  <2>. QED  BY <1>1, <1>3, <1>5, <2>1, <2>2, <2>3 DEF ManagedInv, Shape
<1>7. Unmanaged'
  <2>1. ASSUME NEW q \in Syncs, q # p, run[q].pc \in {"create", "record"}
        PROVE  ManagedBy(run[q].generator)' = {}
    <3>1. run[q].generator \in GeneratorsOf[q] /\ run'[q] = run[q]
      BY <1>3, <2>1 DEF ManagedInv, Shape, Active
    <3>2. run[q].generator # g /\ ManagedBy(run[q].generator) = {}
      BY <1>4, <2>1, <3>1 DEF OneProcessPerGenerator, ManagedInv, Unmanaged
    <3>. QED  BY <1>5, <3>1, <3>2 DEF ManagedBy
  <2>2. ASSUME NEW q \in Syncs, q # p, run[q].pc = "record"
        PROVE  managed'[run[q].id] = NoGenerator
    <3>1. run[q].id # i /\ run[q].id \in Ids /\ managed[run[q].id] = NoGenerator
      BY <1>1, <2>2 DEF ManagedInv, Unmanaged, Shape
    <3>. QED  BY <1>5, <3>1
  <2>3. \A j \in Ids \ created' : managed'[j] = NoGenerator
    BY <1>1, <1>4, <1>5 DEF ManagedInv, Unmanaged
  <2>4. \A q, q2 \in Syncs :
          q # q2 /\ run'[q].pc = "record" /\ run'[q2].pc = "record" => run'[q].id # run'[q2].id
    BY <1>2, <1>3 DEF ManagedInv, Unmanaged
  <2>5. \A q \in Syncs : run'[q].pc \in {"create", "record"} => q # p /\ run'[q] = run[q]
    BY <1>2, <1>3
  <2>6. \A q \in Syncs : run'[q].pc \in {"create", "record"} => ManagedBy(run[q].generator)' = {}
    BY <2>1, <2>5
  <2>7. \A q \in Syncs : run'[q].pc = "record" => managed'[run'[q].id] = NoGenerator
    BY <2>2, <2>5
  <2>. QED  BY <2>3, <2>4, <2>6, <2>7 DEF Unmanaged
<1>8. OneManagedPerGenerator'
  BY <1>4, <1>5 DEF ManagedInv, OneManagedPerGenerator, ManagedBy
<1>. QED  BY <1>6, <1>7, <1>8 DEF ManagedInv

LEMMA ManagedStep == OneProcessPerGenerator /\ ManagedInv /\ [Next]_vars => ManagedInv'
<1>. SUFFICES ASSUME OneProcessPerGenerator, ManagedInv, [Next]_vars PROVE ManagedInv'
  OBVIOUS
<1>0. \A p \in Syncs : run[p] = [x \in Fields |-> run[p][x]]
  BY DEF ManagedInv, Shape
<1>1. CASE UNCHANGED vars \/ \E i \in Ids : Edit(i)
  BY <1>1 DEF vars, Edit, ManagedInv, Shape, Unmanaged, ManagedBy, OneManagedPerGenerator
<1>2. ASSUME NEW p \in Syncs, NEW g \in GeneratorsOf[p], NEW target, NEW apply, Start(p, g, target, apply)
      PROVE  ManagedInv'
  <2>. DEFINE r == [NoRun EXCEPT !.pc = "lookup", !.generator = g,
                                 !.target = Deduped(target), !.apply = apply]
  <2>1. r = [x \in Fields |-> r[x]] /\ r.pc = "lookup" /\ r.generator = g
    BY DEF NoRun, Fields
  <2>2. run' = [run EXCEPT ![p] = r] /\ UNCHANGED <<created, managed>>
    BY <1>2 DEF Start
  <2>. HIDE DEF r
  <2>. QED  BY <2>1, <2>2, StaysManaged
<1>3. ASSUME NEW p \in Syncs, Lookup(p) PROVE ManagedInv'
  <2>1. CASE ManagedBy(run[p].generator) = {}
    <3>. DEFINE pc == IF run[p].apply THEN "create" ELSE "done"
                r  == [run[p] EXCEPT !.pc = pc]
    <3>1. r = [x \in Fields |-> r[x]] /\ r.pc = pc /\ r.generator = run[p].generator
      BY <1>0 DEF Fields
    <3>2. run' = [run EXCEPT ![p] = r] /\ run[p].pc \in Active /\ UNCHANGED <<created, managed>>
      BY <1>3, <2>1 DEF Lookup, Goto, Active
    <3>. HIDE DEF r
    <3>. QED  BY <2>1, <3>1, <3>2, MovesOn
  <2>2. ASSUME NEW i \in ManagedBy(run[p].generator),
               run' = [run EXCEPT ![p].pc = "read", ![p].id = i]
        PROVE  ManagedInv'
    <3>. DEFINE r == [run[p] EXCEPT !.pc = "read", !.id = i]
    <3>1. r = [x \in Fields |-> r[x]] /\ r.pc = "read" /\ r.generator = run[p].generator
      BY <1>0 DEF Fields
    <3>2. run' = [run EXCEPT ![p] = r] /\ run[p].pc \in Active /\ UNCHANGED <<created, managed>>
      BY <1>3, <2>2 DEF Lookup, Active, ManagedInv, Shape
    <3>. QED  BY <3>1, <3>2, MovesOn
  <2>. QED  BY <1>3, <2>1, <2>2 DEF Lookup
<1>4. ASSUME NEW p \in Syncs, NEW pc \in {"done", "failed"}, run[p].pc \in Active,
             Goto(p, pc), UNCHANGED <<created, managed>>
      PROVE  ManagedInv'
  <2>. DEFINE r == [run[p] EXCEPT !.pc = pc]
  <2>1. r = [x \in Fields |-> r[x]] /\ r.pc = pc /\ r.generator = run[p].generator
    BY <1>0 DEF Fields
  <2>. QED  BY <1>4, <2>1, MovesOn DEF Goto
<1>5. ASSUME NEW p \in Syncs, Read(p) PROVE ManagedInv'
  <2>1. CASE \E pc \in {"done", "failed"} : Goto(p, pc)
    BY <1>4, <1>5, <2>1 DEF Read, Active
  <2>2. CASE run[p].apply /\ managed[run[p].id] # NoGenerator
    <3>. DEFINE calls == DiffCalls(TrackIds(content[run[p].id]), run[p].target,
                                   run[p].generator \in Ordered)
                r == [run[p] EXCEPT !.pc = "apply", !.calls = calls, !.changed = calls # <<>>]
    <3>1. run' = [run EXCEPT ![p].pc = "apply", ![p].calls = calls, ![p].changed = calls # <<>>]
      BY <1>5, <2>2 DEF Read
    <3>. HIDE DEF calls
    <3>2. run' = [run EXCEPT ![p] = r]
      BY <1>0, <3>1 DEF ManagedInv, Shape
    <3>3. r = [x \in Fields |-> r[x]] /\ r.pc = "apply" /\ r.generator = run[p].generator
      BY <1>0 DEF Fields
    <3>4. run[p].pc \in Active /\ UNCHANGED <<created, managed>>
      BY <1>5 DEF Read, Active
    <3>. HIDE DEF r
    <3>. QED  BY <3>2, <3>3, <3>4, MovesOn
  <2>. QED  BY <1>5, <2>1, <2>2 DEF Read
<1>6. ASSUME NEW p \in Syncs, Send(p) PROVE ManagedInv'
  <2>. DEFINE r == [run[p] EXCEPT !.calls = Tail(run[p].calls)]
  <2>1. r = [x \in Fields |-> r[x]] /\ r.pc = run[p].pc /\ r.generator = run[p].generator
    BY <1>0 DEF Fields
  <2>2. /\ run' = [run EXCEPT ![p] = r] /\ run[p].pc = "apply" /\ UNCHANGED <<created, managed>>
    BY <1>6 DEF Send, ManagedInv, Shape
  <2>. HIDE DEF r
  <2>. QED  BY <2>1, <2>2, MovesOn DEF Active
<1>7. ASSUME NEW p \in Syncs, Finish(p) \/ Fail(p) PROVE ManagedInv'
  BY <1>4, <1>7 DEF Finish, Fail, Active
<1>. QED
  BY <1>1, <1>2, <1>3, <1>5, <1>6, <1>7, ManagedCreates, ManagedRecords DEF Next, Step

(* However often runs for different generators interleave, fail and are     *)
(* taken up again, no generator has two managed playlists.                  *)
THEOREM ManagedOnce ==
  ASSUME OneProcessPerGenerator
  PROVE  Spec => []OneManagedPerGenerator
<1>1. ManagedInv /\ [Next]_vars => ManagedInv'
  BY ManagedStep
<1>2. ManagedInv => OneManagedPerGenerator
  BY DEF ManagedInv
<1>. QED  BY ManagedInit, <1>1, <1>2, PTL DEF Spec

-----------------------------------------------------------------------------
(* Induction over numbers and lists, over sets of them.                    *)

LEMMA LeastNatural ==
  ASSUME NEW T \in SUBSET Nat, T # {}
  PROVE  \E x \in T : \A y \in T : x <= y
<1>. DEFINE U == {0..x : x \in T}
<1>1. U \subseteq FiniteSubsetsOf(Nat) /\ U # {}
  <2>1. \A x \in T : IsFiniteSet(0..x) /\ 0..x \subseteq Nat
    BY FS_Interval
  <2>. QED  BY <2>1 DEF FiniteSubsetsOf
<1>2. PICK u \in U : \A v \in U : ~ (<<v, u>> \in StrictSubsetOrdering(Nat))
  <2>. HIDE DEF U
  <2>. QED  BY <1>1, WFMin, FS_StrictSubsetOrderingWellFounded
<1>3. PICK x \in T : u = 0..x
  BY <1>2
<1>4. ASSUME NEW y \in T PROVE x <= y
  <2>1. SUFFICES ASSUME y < x PROVE FALSE
    OBVIOUS
  <2>2. 0..y \subseteq 0..x /\ 0..y # 0..x
    <3>1. x \in 0..x /\ x \notin 0..y
      BY <2>1
    <3>. QED  BY <2>1, <3>1
  <2>3. <<0..y, 0..x>> \in StrictSubsetOrdering(Nat)
    BY <2>2 DEF StrictSubsetOrdering
  <2>. QED  BY <1>2, <1>3, <2>3
<1>. QED  BY <1>4

LEMMA AllNaturals ==
  ASSUME NEW B \in SUBSET Nat, 0 \in B, \A n \in B : n + 1 \in B
  PROVE  B = Nat
<1>1. SUFFICES ASSUME Nat \ B # {} PROVE FALSE
  OBVIOUS
<1>2. PICK x \in Nat \ B : \A y \in Nat \ B : x <= y
  BY <1>1, LeastNatural
<1>3. x # 0 /\ x - 1 \in Nat
  BY <1>2
<1>4. x - 1 \in B
  BY <1>2, <1>3
<1>. QED  BY <1>2, <1>3, <1>4

LEMMA AllSequences ==
  ASSUME NEW T, NEW B \in SUBSET Seq(T), <<>> \in B, \A s \in B, x \in T : Append(s, x) \in B
  PROVE  B = Seq(T)
<1>. DEFINE N == {n \in Nat : \A s \in Seq(T) : Len(s) = n => s \in B}
<1>1. 0 \in N
  BY EmptySeq
<1>2. ASSUME NEW n \in N, NEW s \in Seq(T), Len(s) = n + 1 PROVE s \in B
  <2>1. s # <<>>
    BY <1>2, EmptySeq
  <2>2. PICK r \in Seq(T), x \in T : s = Append(r, x)
    BY <2>1, SequenceEmptyOrAppend
  <2>3. Len(r) = n
    BY <1>2, <2>2, AppendProperties, LenProperties
  <2>. QED  BY <2>2, <2>3
<1>3. N = Nat
  <2>1. ASSUME NEW n \in N PROVE n + 1 \in N
    <3>1. n + 1 \in Nat
      OBVIOUS
    <3>2. \A s \in Seq(T) : Len(s) = n + 1 => s \in B
      <4>. HIDE DEF N
      <4>. QED  BY <1>2
    <3>. QED  BY <3>1, <3>2
  <2>2. N \in SUBSET Nat
    OBVIOUS
  <2>. HIDE DEF N
  <2>. QED  BY <1>1, <2>1, <2>2, AllNaturals
<1>. QED  BY <1>3, LenProperties

-----------------------------------------------------------------------------
(* The ids at given positions.                                             *)

IsKept(f, ids, P) ==
  f = [n \in 0..Len(ids) |->
         IF n = 0 THEN <<>>
         ELSE IF n \in P THEN Append(f[n - 1], ids[n]) ELSE f[n - 1]]

LEMMA KeptAppend ==
  ASSUME NEW T, NEW s \in Seq(T), NEW x \in T, NEW P, NEW f, IsKept(f, s, P)
  PROVE  \E g : /\ IsKept(g, Append(s, x), P)
                /\ g[Len(s) + 1] = IF Len(s) + 1 \in P THEN Append(f[Len(s)], x) ELSE f[Len(s)]
<1>. DEFINE m == Len(s) + 1
            top == IF m \in P THEN Append(f[Len(s)], x) ELSE f[Len(s)]
            g == [n \in 0..m |-> IF n = m THEN top ELSE f[n]]
<1>1. /\ Len(s) \in Nat /\ Len(Append(s, x)) = m /\ Append(s, x)[m] = x
      /\ \A n \in 1..Len(s) : Append(s, x)[n] = s[n]
  BY LenProperties, AppendProperties
<1>2. ASSUME NEW n \in 0..m
      PROVE  g[n] = IF n = 0 THEN <<>>
                    ELSE IF n \in P THEN Append(g[n - 1], Append(s, x)[n]) ELSE g[n - 1]
  <2>1. CASE n = m
    <3>1. n # 0 /\ n - 1 = Len(s) /\ n - 1 \in 0..m /\ n - 1 # m
      BY <1>1, <2>1
    <3>2. g[n - 1] = f[Len(s)] /\ g[n] = top
      BY <2>1, <3>1
    <3>. QED  BY <1>1, <2>1, <3>1, <3>2
  <2>2. CASE n # m /\ n # 0
    <3>1. n \in 1..Len(s) /\ n - 1 \in 0..m /\ n - 1 # m /\ n \in 0..Len(s)
      BY <1>1, <2>2
    <3>2. g[n] = f[n] /\ g[n - 1] = f[n - 1]
      BY <2>2, <3>1
    <3>3. f[n] = IF n \in P THEN Append(f[n - 1], s[n]) ELSE f[n - 1]
      BY <2>2, <3>1 DEF IsKept
    <3>. QED  BY <1>1, <2>2, <3>1, <3>2, <3>3
  <2>3. CASE n # m /\ n = 0
    <3>1. f[0] = <<>>
      BY <1>1 DEF IsKept
    <3>. QED  BY <2>3, <3>1
  <2>. QED  BY <2>1, <2>2, <2>3
<1>3. IsKept(g, Append(s, x), P)
  BY <1>1, <1>2 DEF IsKept
<1>4. g[m] = top
  BY <1>1
<1>. HIDE DEF g
<1>. QED  BY <1>3, <1>4

LEMMA KeptEmpty ==
  ASSUME NEW P
  PROVE  IsKept([n \in 0..0 |-> <<>>], <<>>, P)
BY EmptySeq DEF IsKept

LEMMA KeptExists ==
  ASSUME NEW T, NEW s \in Seq(T), NEW P
  PROVE  \E f : IsKept(f, s, P)
<1>. DEFINE B == {r \in Seq(T) : \E f : IsKept(f, r, P)}
<1>1. <<>> \in B
  BY KeptEmpty, EmptySeq
<1>2. \A r \in B, x \in T : Append(r, x) \in B
  BY KeptAppend, AppendProperties
<1>3. B = Seq(T)
  <2>1. B \in SUBSET Seq(T)
    OBVIOUS
  <2>. HIDE DEF B
  <2>. QED  BY <1>1, <1>2, <2>1, AllSequences
<1>. QED  BY <1>3

LEMMA KeptUnique ==
  ASSUME NEW T, NEW s \in Seq(T), NEW P, NEW f, NEW g, IsKept(f, s, P), IsKept(g, s, P)
  PROVE  f = g
<1>. DEFINE N == {n \in Nat : n <= Len(s) => f[n] = g[n]}
<1>0. Len(s) \in Nat
  BY LenProperties
<1>1. 0 \in N
  BY <1>0 DEF IsKept
<1>2. ASSUME NEW n \in N, n + 1 <= Len(s) PROVE f[n + 1] = g[n + 1]
  <2>1. n + 1 \in 0..Len(s) /\ n + 1 # 0 /\ (n + 1) - 1 = n /\ f[n] = g[n]
    BY <1>0, <1>2
  <2>2. f[n + 1] = IF n + 1 \in P THEN Append(f[n], s[n + 1]) ELSE f[n]
    BY <2>1 DEF IsKept
  <2>3. g[n + 1] = IF n + 1 \in P THEN Append(g[n], s[n + 1]) ELSE g[n]
    BY <2>1 DEF IsKept
  <2>. QED  BY <2>1, <2>2, <2>3
<1>3. N = Nat
  <2>1. N \in SUBSET Nat /\ \A n \in N : n + 1 \in N
    BY <1>2
  <2>. HIDE DEF N
  <2>. QED  BY <1>1, <2>1, AllNaturals
<1>4. \A n \in 0..Len(s) : f[n] = g[n]
  BY <1>0, <1>3
<1>5. f = [n \in 0..Len(s) |-> f[n]] /\ g = [n \in 0..Len(s) |-> g[n]]
  BY DEF IsKept
<1>. QED  BY <1>4, <1>5

LEMMA AtIs ==
  ASSUME NEW T, NEW s \in Seq(T), NEW P, NEW f, IsKept(f, s, P)
  PROVE  At(s, P) = f[Len(s)]
<1>. DEFINE g == CHOOSE h : IsKept(h, s, P)
<1>1. IsKept(g, s, P)
  OBVIOUS
<1>2. At(s, P) = g[Len(s)]
  BY DEF At, IsKept
<1>. HIDE DEF g
<1>. QED  BY <1>1, <1>2, KeptUnique

LEMMA AtEmpty ==
  ASSUME NEW P
  PROVE  At(<<>>, P) = <<>>
BY KeptEmpty, AtIs, EmptySeq

LEMMA AtAppend ==
  ASSUME NEW T, NEW s \in Seq(T), NEW x \in T, NEW P
  PROVE  At(Append(s, x), P) = IF Len(s) + 1 \in P THEN Append(At(s, P), x) ELSE At(s, P)
<1>1. PICK f : IsKept(f, s, P)
  BY KeptExists
<1>2. PICK g : /\ IsKept(g, Append(s, x), P)
               /\ g[Len(s) + 1] = IF Len(s) + 1 \in P THEN Append(f[Len(s)], x) ELSE f[Len(s)]
  BY <1>1, KeptAppend
<1>3. Append(s, x) \in Seq(T) /\ Len(Append(s, x)) = Len(s) + 1
  BY AppendProperties
<1>. QED  BY <1>1, <1>2, <1>3, AtIs

LEMMA AtSame ==
  ASSUME NEW T, NEW s \in Seq(T), NEW P, NEW Q, P \cap DOMAIN s = Q \cap DOMAIN s
  PROVE  At(s, P) = At(s, Q)
<1>1. PICK f : IsKept(f, s, P)
  BY KeptExists
<1>2. \A n \in 0..Len(s) : n # 0 => (n \in P <=> n \in Q)
  BY LenProperties
<1>3. IsKept(f, s, Q)
  BY <1>1, <1>2 DEF IsKept
<1>. QED  BY <1>1, <1>3, AtIs

-----------------------------------------------------------------------------
(* Filters and duplicates.                                                 *)

LEMMA ToSetAppend ==
  ASSUME NEW T, NEW s \in Seq(T), NEW x \in T
  PROVE  ToSet(Append(s, x)) = ToSet(s) \cup {x}
<1>1. /\ Len(s) \in Nat /\ DOMAIN s = 1..Len(s) /\ DOMAIN Append(s, x) = 1..(Len(s) + 1)
      /\ Append(s, x)[Len(s) + 1] = x /\ \A n \in 1..Len(s) : Append(s, x)[n] = s[n]
  BY LenProperties, AppendProperties
<1>2. 1..(Len(s) + 1) = (1..Len(s)) \cup {Len(s) + 1}
  BY <1>1
<1>. QED  BY <1>1, <1>2 DEF ToSet

LEMMA ToSetEmpty == ToSet(<<>>) = {}
BY DEF ToSet

LEMMA ToSetType ==
  ASSUME NEW T, NEW s \in Seq(T)
  PROVE  ToSet(s) \subseteq T /\ s \in Seq(ToSet(s)) /\ (s # <<>> => ToSet(s) # {})
<1>1. \A n \in DOMAIN s : s[n] \in T
  BY LenProperties, ElementOfSeq
<1>2. s \in Seq(ToSet(s))
  BY LenProperties, IsASeq DEF ToSet
<1>3. s # <<>> => 1 \in DOMAIN s
  BY LenProperties, EmptySeq
<1>. QED  BY <1>1, <1>2, <1>3 DEF ToSet

LEMMA ToSetConcat ==
  ASSUME NEW T, NEW s \in Seq(T), NEW r \in Seq(T)
  PROVE  ToSet(s \o r) = ToSet(s) \cup ToSet(r)
<1>0. Len(s) \in Nat /\ Len(r) \in Nat /\ DOMAIN s = 1..Len(s) /\ DOMAIN r = 1..Len(r)
  BY LenProperties
<1>1. /\ DOMAIN (s \o r) = 1..(Len(s) + Len(r))
      /\ \A n \in 1..(Len(s) + Len(r)) :
           (s \o r)[n] = IF n <= Len(s) THEN s[n] ELSE r[n - Len(s)]
  BY <1>0, ConcatProperties, LenProperties
<1>2. \A n \in 1..Len(s) : n \in 1..(Len(s) + Len(r)) /\ (s \o r)[n] = s[n]
  BY <1>0, <1>1
<1>3. \A n \in 1..Len(r) : n + Len(s) \in 1..(Len(s) + Len(r)) /\ (s \o r)[n + Len(s)] = r[n]
  BY <1>0, <1>1
<1>4. ToSet(s) \subseteq ToSet(s \o r)
  BY <1>0, <1>1, <1>2 DEF ToSet
<1>7. ToSet(r) \subseteq ToSet(s \o r)
  BY <1>0, <1>1, <1>3 DEF ToSet
<1>5. \A n \in 1..(Len(s) + Len(r)) : n \in 1..Len(s) \/ n - Len(s) \in 1..Len(r)
  BY <1>0
<1>6. ToSet(s \o r) \subseteq ToSet(s) \cup ToSet(r)
  BY <1>0, <1>1, <1>5 DEF ToSet
<1>. QED  BY <1>4, <1>6, <1>7

LEMMA InjectiveAppend ==
  ASSUME NEW T, NEW s \in Seq(T), NEW x \in T
  PROVE  IsInjective(Append(s, x)) <=> IsInjective(s) /\ x \notin ToSet(s)
<1>1. /\ Len(s) \in Nat /\ DOMAIN s = 1..Len(s) /\ DOMAIN Append(s, x) = 1..(Len(s) + 1)
      /\ Append(s, x)[Len(s) + 1] = x /\ \A n \in 1..Len(s) : Append(s, x)[n] = s[n]
  BY LenProperties, AppendProperties
<1>2. 1..(Len(s) + 1) = (1..Len(s)) \cup {Len(s) + 1} /\ Len(s) + 1 \notin 1..Len(s)
  BY <1>1
<1>. QED  BY <1>1, <1>2 DEF ToSet, IsInjective

LEMMA OnlyEmpty ==
  ASSUME NEW S
  PROVE  Only(<<>>, S) = <<>>
BY AtEmpty DEF Only

LEMMA OnlyAppend ==
  ASSUME NEW T, NEW s \in Seq(T), NEW x \in T, NEW S
  PROVE  Only(Append(s, x), S) = IF x \in S THEN Append(Only(s, S), x) ELSE Only(s, S)
<1>. DEFINE P == {n \in DOMAIN s : s[n] \in S}
            Q == {n \in DOMAIN Append(s, x) : Append(s, x)[n] \in S}
<1>1. /\ Len(s) \in Nat /\ DOMAIN s = 1..Len(s) /\ DOMAIN Append(s, x) = 1..(Len(s) + 1)
      /\ Append(s, x)[Len(s) + 1] = x /\ \A n \in 1..Len(s) : Append(s, x)[n] = s[n]
  BY LenProperties, AppendProperties
<1>2. P \cap DOMAIN s = Q \cap DOMAIN s /\ (Len(s) + 1 \in Q <=> x \in S)
  BY <1>1
<1>3. Only(Append(s, x), S) = At(Append(s, x), Q) /\ Only(s, S) = At(s, P)
  BY DEF Only
<1>. HIDE DEF P, Q
<1>4. At(s, Q) = At(s, P)
  BY <1>2, AtSame
<1>. QED  BY <1>2, <1>3, <1>4, AtAppend

LEMMA WithoutIsOnly ==
  ASSUME NEW T, NEW s \in Seq(T), NEW S
  PROVE  Without(s, S) = Only(s, T \ S)
<1>1. \A n \in DOMAIN s : s[n] \in T
  BY LenProperties, ElementOfSeq
<1>2. {n \in DOMAIN s : s[n] \notin S} = {n \in DOMAIN s : s[n] \in T \ S}
  BY <1>1
<1>. QED  BY <1>2 DEF Without, Only

LEMMA OnlySame ==
  ASSUME NEW T, NEW s \in Seq(T), NEW S, NEW U, S \cap ToSet(s) = U \cap ToSet(s)
  PROVE  Only(s, S) = Only(s, U)
<1>1. {n \in DOMAIN s : s[n] \in S} = {n \in DOMAIN s : s[n] \in U}
  BY DEF ToSet
<1>. QED  BY <1>1 DEF Only

LEMMA DedupedEmpty == Deduped(<<>>) = <<>>
BY AtEmpty DEF Deduped

LEMMA DedupedAppend ==
  ASSUME NEW T, NEW s \in Seq(T), NEW x \in T
  PROVE  Deduped(Append(s, x)) =
           IF x \in ToSet(s) THEN Deduped(s) ELSE Append(Deduped(s), x)
<1>. DEFINE P == {n \in DOMAIN s : \A m \in 1..(n - 1) : s[m] # s[n]}
            Q == {n \in DOMAIN Append(s, x) :
                    \A m \in 1..(n - 1) : Append(s, x)[m] # Append(s, x)[n]}
<1>1. /\ Len(s) \in Nat /\ DOMAIN s = 1..Len(s) /\ DOMAIN Append(s, x) = 1..(Len(s) + 1)
      /\ Append(s, x)[Len(s) + 1] = x /\ \A n \in 1..Len(s) : Append(s, x)[n] = s[n]
  BY LenProperties, AppendProperties
<1>2. Len(s) + 1 \in Q <=> x \notin ToSet(s)
  <2>1. Len(s) + 1 \in Q <=> \A m \in 1..Len(s) : s[m] # x
    BY <1>1
  <2>. QED  BY <1>1, <2>1 DEF ToSet
<1>3. ASSUME NEW n \in 1..Len(s)
      PROVE  n \in P <=> n \in Q
  <2>1. \A m \in 1..(n - 1) : m \in 1..Len(s)
    BY <1>1
  <2>2. n \in 1..(Len(s) + 1)
    BY <1>1
  <2>. QED  BY <1>1, <2>1, <2>2
<1>4. P \cap DOMAIN s = Q \cap DOMAIN s
  BY <1>1, <1>3
<1>5. Deduped(Append(s, x)) = At(Append(s, x), Q) /\ Deduped(s) = At(s, P)
  BY DEF Deduped
<1>. HIDE DEF P, Q
<1>6. At(s, Q) = At(s, P)
  BY <1>4, AtSame
<1>. QED  BY <1>2, <1>5, <1>6, AtAppend

LEMMA OnlyType ==
  ASSUME NEW T, NEW s \in Seq(T), NEW S
  PROVE  Only(s, S) \in Seq(T) /\ ToSet(Only(s, S)) = ToSet(s) \cap S
<1>. DEFINE B == {r \in Seq(T) : Only(r, S) \in Seq(T) /\ ToSet(Only(r, S)) = ToSet(r) \cap S}
<1>1. <<>> \in B
  BY EmptySeq, OnlyEmpty, ToSetEmpty
<1>2. ASSUME NEW r \in B, NEW x \in T PROVE Append(r, x) \in B
  <2>1. r \in Seq(T) /\ Only(r, S) \in Seq(T) /\ ToSet(Only(r, S)) = ToSet(r) \cap S
    OBVIOUS
  <2>2. /\ Append(r, x) \in Seq(T)
        /\ Only(Append(r, x), S) = IF x \in S THEN Append(Only(r, S), x) ELSE Only(r, S)
        /\ ToSet(Append(r, x)) = ToSet(r) \cup {x}
    BY <2>1, AppendProperties, OnlyAppend, ToSetAppend
  <2>3. /\ Append(Only(r, S), x) \in Seq(T)
        /\ ToSet(Append(Only(r, S), x)) = ToSet(Only(r, S)) \cup {x}
    BY <2>1, AppendProperties, ToSetAppend
  <2>. QED  BY <2>1, <2>2, <2>3
<1>3. B = Seq(T)
  <2>1. B \in SUBSET Seq(T)
    OBVIOUS
  <2>. HIDE DEF B
  <2>. QED  BY <1>1, <1>2, <2>1, AllSequences
<1>. QED  BY <1>3

LEMMA OnlyInjective ==
  ASSUME NEW T, NEW s \in Seq(T), NEW S, IsInjective(s)
  PROVE  IsInjective(Only(s, S))
<1>. DEFINE B == {r \in Seq(T) : IsInjective(r) => IsInjective(Only(r, S))}
<1>1. <<>> \in B
  BY EmptySeq, OnlyEmpty DEF IsInjective
<1>2. ASSUME NEW r \in B, NEW x \in T PROVE Append(r, x) \in B
  <2>1. r \in Seq(T) /\ (IsInjective(r) => IsInjective(Only(r, S)))
    OBVIOUS
  <2>2. /\ Append(r, x) \in Seq(T)
        /\ Only(Append(r, x), S) = IF x \in S THEN Append(Only(r, S), x) ELSE Only(r, S)
        /\ Only(r, S) \in Seq(T) /\ ToSet(Only(r, S)) = ToSet(r) \cap S
    BY <2>1, AppendProperties, OnlyAppend, OnlyType
  <2>3. /\ IsInjective(Append(r, x)) <=> IsInjective(r) /\ x \notin ToSet(r)
        /\ IsInjective(Append(Only(r, S), x)) <=>
             IsInjective(Only(r, S)) /\ x \notin ToSet(Only(r, S))
    BY <2>1, <2>2, InjectiveAppend
  <2>. QED  BY <2>1, <2>2, <2>3
<1>3. B = Seq(T)
  <2>1. B \in SUBSET Seq(T)
    OBVIOUS
  <2>. HIDE DEF B
  <2>. QED  BY <1>1, <1>2, <2>1, AllSequences
<1>. QED  BY <1>3

LEMMA OnlyAll ==
  ASSUME NEW T, NEW s \in Seq(T), NEW S, ToSet(s) \subseteq S
  PROVE  Only(s, S) = s
<1>. DEFINE B == {r \in Seq(T) : ToSet(r) \subseteq S => Only(r, S) = r}
<1>1. <<>> \in B
  BY EmptySeq, OnlyEmpty
<1>2. ASSUME NEW r \in B, NEW x \in T PROVE Append(r, x) \in B
  BY AppendProperties, OnlyAppend, ToSetAppend
<1>3. B = Seq(T)
  <2>1. B \in SUBSET Seq(T)
    OBVIOUS
  <2>. HIDE DEF B
  <2>. QED  BY <1>1, <1>2, <2>1, AllSequences
<1>. QED  BY <1>3

LEMMA OnlyNone ==
  ASSUME NEW T, NEW s \in Seq(T), NEW S, ToSet(s) \cap S = {}
  PROVE  Only(s, S) = <<>>
<1>1. Only(s, S) \in Seq(T) /\ ToSet(Only(s, S)) = {}
  BY OnlyType
<1>. QED  BY <1>1, ToSetType

LEMMA OnlyTwice ==
  ASSUME NEW T, NEW s \in Seq(T), NEW S, NEW U
  PROVE  Only(Only(s, S), U) = Only(s, S \cap U)
<1>. DEFINE B == {r \in Seq(T) : Only(Only(r, S), U) = Only(r, S \cap U)}
<1>1. <<>> \in B
  BY EmptySeq, OnlyEmpty
<1>2. ASSUME NEW r \in B, NEW x \in T PROVE Append(r, x) \in B
  <2>1. r \in Seq(T) /\ Only(Only(r, S), U) = Only(r, S \cap U) /\ Only(r, S) \in Seq(T)
    BY OnlyType
  <2>2. /\ Append(r, x) \in Seq(T)
        /\ Only(Append(r, x), S) = IF x \in S THEN Append(Only(r, S), x) ELSE Only(r, S)
        /\ Only(Append(r, x), S \cap U) =
             IF x \in S \cap U THEN Append(Only(r, S \cap U), x) ELSE Only(r, S \cap U)
    BY <2>1, AppendProperties, OnlyAppend
  <2>3. ASSUME NEW q \in Seq(T)
        PROVE  Only(Append(q, x), U) = IF x \in U THEN Append(Only(q, U), x) ELSE Only(q, U)
    BY OnlyAppend
  <2>4. Only(Append(Only(r, S), x), U) =
          IF x \in U THEN Append(Only(Only(r, S), U), x) ELSE Only(Only(r, S), U)
    BY <2>1, <2>3
  <2>5. Only(Only(Append(r, x), S), U) = Only(Append(r, x), S \cap U)
    <3>1. CASE x \in S /\ x \in U
      BY <2>1, <2>2, <2>4, <3>1
    <3>2. CASE x \in S /\ x \notin U
      BY <2>1, <2>2, <2>4, <3>2
    <3>3. CASE x \notin S
      BY <2>1, <2>2, <3>3
    <3>. QED  BY <3>1, <3>2, <3>3
  <2>. QED  BY <2>2, <2>5
<1>3. B = Seq(T)
  <2>1. B \in SUBSET Seq(T)
    OBVIOUS
  <2>. HIDE DEF B
  <2>. QED  BY <1>1, <1>2, <2>1, AllSequences
<1>. QED  BY <1>3

LEMMA ConcatAppend ==
  ASSUME NEW T, NEW s \in Seq(T), NEW r \in Seq(T), NEW x \in T
  PROVE  s \o Append(r, x) = Append(s \o r, x)
<1>1. <<x>> \in Seq(T)
  BY IsASeq
<1>2. Append(r, x) = r \o <<x>> /\ s \o r \in Seq(T) /\ Append(s \o r, x) = (s \o r) \o <<x>>
  BY AppendIsConcat, ConcatProperties
<1>. QED  BY <1>1, <1>2, ConcatAssociative

LEMMA OnlyConcat ==
  ASSUME NEW T, NEW s \in Seq(T), NEW r \in Seq(T), NEW S
  PROVE  Only(s \o r, S) = Only(s, S) \o Only(r, S)
<1>. DEFINE B == {q \in Seq(T) : Only(s \o q, S) = Only(s, S) \o Only(q, S)}
<1>0. Only(s, S) \in Seq(T)
  BY OnlyType
<1>1. <<>> \in B
  BY <1>0, EmptySeq, OnlyEmpty, ConcatEmptySeq
<1>2. ASSUME NEW q \in B, NEW x \in T PROVE Append(q, x) \in B
  <2>1. /\ q \in Seq(T) /\ Only(s \o q, S) = Only(s, S) \o Only(q, S)
        /\ Only(q, S) \in Seq(T) /\ s \o q \in Seq(T)
    BY OnlyType, ConcatProperties
  <2>2. Append(q, x) \in Seq(T) /\ s \o Append(q, x) = Append(s \o q, x)
    BY <2>1, AppendProperties, ConcatAppend
  <2>3. Only(s, S) \o Append(Only(q, S), x) = Append(Only(s, S) \o Only(q, S), x)
    BY <1>0, <2>1, ConcatAppend
  <2>4. Only(Append(q, x), S) = IF x \in S THEN Append(Only(q, S), x) ELSE Only(q, S)
    BY <2>1, OnlyAppend
  <2>5. Only(Append(s \o q, x), S) =
          IF x \in S THEN Append(Only(s \o q, S), x) ELSE Only(s \o q, S)
    <3>. DEFINE sq == s \o q
    <3>1. sq \in Seq(T)
      BY <2>1
    <3>. HIDE DEF sq
    <3>2. Only(Append(sq, x), S) = IF x \in S THEN Append(Only(sq, S), x) ELSE Only(sq, S)
      BY <3>1, OnlyAppend
    <3>. QED  BY <3>2 DEF sq
  <2>6. Only(s \o Append(q, x), S) = Only(s, S) \o Only(Append(q, x), S)
    BY <2>1, <2>2, <2>3, <2>4, <2>5
  <2>. QED  BY <2>2, <2>6
<1>3. B = Seq(T)
  <2>1. B \in SUBSET Seq(T)
    OBVIOUS
  <2>. HIDE DEF B
  <2>. QED  BY <1>1, <1>2, <2>1, AllSequences
<1>. QED  BY <1>3

(* What _dedupe returns: every id once, and the list itself if that is not  *)
(* shorter.                                                                 *)
LEMMA DedupedIs ==
  ASSUME NEW T, NEW s \in Seq(T)
  PROVE  /\ Deduped(s) \in Seq(T) /\ ToSet(Deduped(s)) = ToSet(s) /\ IsInjective(Deduped(s))
         /\ Len(Deduped(s)) <= Len(s) /\ (Len(Deduped(s)) = Len(s) => Deduped(s) = s)
<1>. DEFINE Good(r) ==
              /\ Deduped(r) \in Seq(T) /\ ToSet(Deduped(r)) = ToSet(r) /\ IsInjective(Deduped(r))
              /\ Len(Deduped(r)) <= Len(r) /\ (Len(Deduped(r)) = Len(r) => Deduped(r) = r)
            B == {r \in Seq(T) : Good(r)}
<1>1. <<>> \in B
  <2>. DEFINE e == <<>>
  <2>1. e \in Seq(T) /\ Deduped(e) = e /\ Len(e) = 0 /\ DOMAIN e = {}
    BY EmptySeq, DedupedEmpty
  <2>. HIDE DEF e
  <2>2. IsInjective(e)
    BY <2>1 DEF IsInjective
  <2>3. Good(e)
    BY <2>1, <2>2
  <2>. HIDE DEF Good
  <2>. QED  BY <2>1, <2>3 DEF e
<1>2. ASSUME NEW r \in B, NEW x \in T PROVE Append(r, x) \in B
  <2>0. /\ r \in Seq(T) /\ Deduped(r) \in Seq(T) /\ ToSet(Deduped(r)) = ToSet(r)
        /\ IsInjective(Deduped(r)) /\ Len(Deduped(r)) <= Len(r)
        /\ (Len(Deduped(r)) = Len(r) => Deduped(r) = r)
    OBVIOUS
  <2>. HIDE DEF B
  <2>1. /\ Append(r, x) \in Seq(T)
        /\ Len(Append(r, x)) = Len(r) + 1 /\ Len(r) \in Nat /\ Len(Deduped(r)) \in Nat
        /\ ToSet(Append(r, x)) = ToSet(r) \cup {x}
        /\ Deduped(Append(r, x)) = IF x \in ToSet(r) THEN Deduped(r) ELSE Append(Deduped(r), x)
    BY <2>0, AppendProperties, DedupedAppend, ToSetAppend, LenProperties
  <2>. USE DEF B
  <2>2. CASE x \in ToSet(r)
    <3>1. Deduped(Append(r, x)) = Deduped(r) /\ ToSet(Append(r, x)) = ToSet(r)
      BY <2>1, <2>2
    <3>2. Len(Deduped(r)) <= Len(Append(r, x)) /\ Len(Deduped(r)) # Len(Append(r, x))
      BY <2>0, <2>1
    <3>. QED  BY <2>0, <2>1, <3>1, <3>2
  <2>3. CASE x \notin ToSet(r)
    <3>. DEFINE d == Append(Deduped(r), x)
    <3>1. /\ d \in Seq(T) /\ ToSet(d) = ToSet(Deduped(r)) \cup {x}
          /\ Len(d) = Len(Deduped(r)) + 1
          /\ IsInjective(d) <=> IsInjective(Deduped(r)) /\ x \notin ToSet(Deduped(r))
      BY <2>0, <2>1, AppendProperties, InjectiveAppend, ToSetAppend
    <3>2. Deduped(Append(r, x)) = d
      BY <2>0, <2>1, <2>3
    <3>. HIDE DEF d
    <3>3. /\ Deduped(Append(r, x)) \in Seq(T) /\ IsInjective(Deduped(Append(r, x)))
          /\ ToSet(Deduped(Append(r, x))) = ToSet(Append(r, x))
      BY <2>0, <2>1, <2>3, <3>1, <3>2
    <3>4. /\ Len(d) <= Len(Append(r, x))
          /\ Len(d) = Len(Append(r, x)) => Len(Deduped(r)) = Len(r)
      BY <2>0, <2>1, <3>1
    <3>5. Len(d) = Len(Append(r, x)) => d = Append(r, x)
      BY <2>0, <2>1, <3>4 DEF d
    <3>. QED  BY <2>0, <2>1, <3>2, <3>3, <3>4, <3>5
  <2>. QED  BY <2>2, <2>3
<1>3. B = Seq(T)
  <2>1. B \in SUBSET Seq(T)
    OBVIOUS
  <2>. HIDE DEF B
  <2>. QED  BY <1>1, <1>2, <2>1, AllSequences
<1>. QED  BY <1>3

LEMMA InjectiveConcat ==
  ASSUME NEW T, NEW s \in Seq(T), NEW r \in Seq(T), IsInjective(s), IsInjective(r),
         ToSet(s) \cap ToSet(r) = {}
  PROVE  IsInjective(s \o r)
<1>0. Len(s) \in Nat /\ Len(r) \in Nat /\ DOMAIN s = 1..Len(s) /\ DOMAIN r = 1..Len(r)
  BY LenProperties
<1>1. /\ DOMAIN (s \o r) = 1..(Len(s) + Len(r))
      /\ \A n \in 1..(Len(s) + Len(r)) :
           (s \o r)[n] = IF n <= Len(s) THEN s[n] ELSE r[n - Len(s)]
  BY <1>0, ConcatProperties, LenProperties
<1>2. ASSUME NEW m \in 1..(Len(s) + Len(r)), NEW n \in 1..(Len(s) + Len(r)),
             (s \o r)[m] = (s \o r)[n]
      PROVE  m = n
  <2>1. CASE m <= Len(s) /\ n <= Len(s)
    <3>1. m \in DOMAIN s /\ n \in DOMAIN s /\ s[m] = s[n]
      BY <1>0, <1>1, <1>2, <2>1
    <3>. QED  BY <3>1 DEF IsInjective
  <2>2. CASE m > Len(s) /\ n > Len(s)
    <3>1. m - Len(s) \in DOMAIN r /\ n - Len(s) \in DOMAIN r /\ r[m - Len(s)] = r[n - Len(s)]
      BY <1>0, <1>1, <1>2, <2>2
    <3>2. m - Len(s) = n - Len(s)
      BY <3>1 DEF IsInjective
    <3>. QED  BY <1>0, <3>2
  <2>3. CASE m <= Len(s) /\ n > Len(s)
    <3>1. m \in DOMAIN s /\ n - Len(s) \in DOMAIN r /\ s[m] = r[n - Len(s)]
      BY <1>0, <1>1, <1>2, <2>3
    <3>. QED  BY <3>1 DEF ToSet
  <2>4. CASE m > Len(s) /\ n <= Len(s)
    <3>1. n \in DOMAIN s /\ m - Len(s) \in DOMAIN r /\ s[n] = r[m - Len(s)]
      BY <1>0, <1>1, <1>2, <2>4
    <3>. QED  BY <3>1 DEF ToSet
  <2>. QED  BY <1>0, <2>1, <2>2, <2>3, <2>4
<1>. QED  BY <1>1, <1>2 DEF IsInjective

LEMMA InjectiveLen ==
  ASSUME NEW T, NEW s \in Seq(T), IsInjective(s)
  PROVE  IsFiniteSet(ToSet(s)) /\ Cardinality(ToSet(s)) = Len(s)
<1>. DEFINE B == {r \in Seq(T) : IsInjective(r) =>
                    IsFiniteSet(ToSet(r)) /\ Cardinality(ToSet(r)) = Len(r)}
<1>1. <<>> \in B
  BY EmptySeq, ToSetEmpty, FS_EmptySet
<1>2. ASSUME NEW r \in B, NEW x \in T PROVE Append(r, x) \in B
  <2>1. SUFFICES ASSUME IsInjective(Append(r, x))
                 PROVE  /\ IsFiniteSet(ToSet(Append(r, x)))
                        /\ Cardinality(ToSet(Append(r, x))) = Len(Append(r, x))
    BY AppendProperties
  <2>2. IsInjective(r) /\ x \notin ToSet(r) /\ ToSet(Append(r, x)) = ToSet(r) \cup {x}
    BY <2>1, InjectiveAppend, ToSetAppend
  <2>3. IsFiniteSet(ToSet(r)) /\ Cardinality(ToSet(r)) = Len(r)
    BY <2>2
  <2>4. /\ IsFiniteSet(ToSet(r) \cup {x})
        /\ Cardinality(ToSet(r) \cup {x}) = Cardinality(ToSet(r)) + 1
    BY <2>2, <2>3, FS_AddElement
  <2>5. Len(Append(r, x)) = Len(r) + 1
    BY AppendProperties
  <2>. QED  BY <2>2, <2>3, <2>4, <2>5
<1>3. B = Seq(T)
  <2>1. B \in SUBSET Seq(T)
    OBVIOUS
  <2>. HIDE DEF B
  <2>. QED  BY <1>1, <1>2, <2>1, AllSequences
<1>. QED  BY <1>3

-----------------------------------------------------------------------------
(* The requests: chunks of at most MaxIdsPerCall ids that make up the list.  *)

LEMMA ChunkCount ==
  ASSUME NEW l \in Nat
  PROVE  /\ (l + MaxIdsPerCall - 1) \div MaxIdsPerCall \in Nat
         /\ l <= MaxIdsPerCall * ((l + MaxIdsPerCall - 1) \div MaxIdsPerCall)
         /\ MaxIdsPerCall * ((l + MaxIdsPerCall - 1) \div MaxIdsPerCall) < l + MaxIdsPerCall
<1>. DEFINE a == l + MaxIdsPerCall - 1
<1>1. a \in Nat /\ MaxIdsPerCall \in Nat \ {0}
  OBVIOUS
<1>. HIDE DEF a
<1>2. /\ a \div MaxIdsPerCall \in Nat /\ MaxIdsPerCall * (a \div MaxIdsPerCall) <= a
      /\ a < MaxIdsPerCall * (a \div MaxIdsPerCall) + MaxIdsPerCall
  BY <1>1
<1>3. MaxIdsPerCall * (a \div MaxIdsPerCall) \in Nat
  BY <1>1, <1>2
<1>4. l <= MaxIdsPerCall * (a \div MaxIdsPerCall)
  BY <1>1, <1>2, <1>3 DEF a
<1>5. MaxIdsPerCall * (a \div MaxIdsPerCall) < l + MaxIdsPerCall
  BY <1>1, <1>2, <1>3 DEF a
<1>. QED  BY <1>2, <1>4, <1>5 DEF a

LEMMA ChunkCountNext ==
  ASSUME NEW l \in Nat, l > MaxIdsPerCall
  PROVE  (l + MaxIdsPerCall - 1) \div MaxIdsPerCall =
           ((l - MaxIdsPerCall + MaxIdsPerCall - 1) \div MaxIdsPerCall) + 1
<1>. DEFINE a == l - MaxIdsPerCall + MaxIdsPerCall - 1
<1>1. a \in Nat /\ MaxIdsPerCall \in Nat \ {0} /\ l + MaxIdsPerCall - 1 = a + MaxIdsPerCall
  OBVIOUS
<1>. HIDE DEF a
<1>2. (a + MaxIdsPerCall) \div MaxIdsPerCall = (a \div MaxIdsPerCall) + 1
  BY <1>1
<1>. QED  BY <1>1, <1>2 DEF a

LEMMA ChunkCountOnce ==
  ASSUME NEW l \in Nat \ {0}, l <= MaxIdsPerCall
  PROVE  (l + MaxIdsPerCall - 1) \div MaxIdsPerCall = 1
<1>. DEFINE a == l - 1
<1>1. a \in Nat /\ MaxIdsPerCall \in Nat \ {0} /\ l + MaxIdsPerCall - 1 = a + MaxIdsPerCall
      /\ a < MaxIdsPerCall
  OBVIOUS
<1>. HIDE DEF a
<1>2. (a + MaxIdsPerCall) \div MaxIdsPerCall = (a \div MaxIdsPerCall) + 1
  BY <1>1
<1>3. a \div MaxIdsPerCall = 0
  BY <1>1
<1>. QED  BY <1>1, <1>2, <1>3

LEMMA ChunkedEmpty == Chunked(<<>>) = <<>>
<1>1. (0 + MaxIdsPerCall - 1) \div MaxIdsPerCall = 0
  <2>. DEFINE a == 0 + MaxIdsPerCall - 1
  <2>1. a \in Nat /\ MaxIdsPerCall \in Nat \ {0} /\ a < MaxIdsPerCall
    OBVIOUS
  <2>. HIDE DEF a
  <2>2. a \div MaxIdsPerCall = 0
    BY <2>1
  <2>. QED  BY <2>2 DEF a
<1>2. Len(<<>>) = 0
  BY EmptySeq
<1>. QED  BY <1>1, <1>2 DEF Chunked

First(s) == SubSeq(s, 1, IF MaxIdsPerCall < Len(s) THEN MaxIdsPerCall ELSE Len(s))

Rest(s) == SubSeq(s, (IF MaxIdsPerCall < Len(s) THEN MaxIdsPerCall ELSE Len(s)) + 1, Len(s))

LEMMA FirstAndRest ==
  ASSUME NEW T, NEW s \in Seq(T)
  PROVE  First(s) \in Seq(T) /\ Rest(s) \in Seq(T) /\ First(s) \o Rest(s) = s
<1>. DEFINE m == IF MaxIdsPerCall < Len(s) THEN MaxIdsPerCall ELSE Len(s)
<1>1. Len(s) \in Nat /\ m \in Nat /\ m <= Len(s) /\ \A i \in 1..Len(s) : s[i] \in T
  BY LenProperties, ElementOfSeq
<1>2. First(s) = SubSeq(s, 1, m) /\ Rest(s) = SubSeq(s, m + 1, Len(s))
  BY DEF First, Rest
<1>. HIDE DEF m
<1>3. First(s) \in Seq(T)
  <2>1. \A i \in 1..m : s[i] \in T
    BY <1>1
  <2>. QED  BY <1>1, <1>2, <2>1, SubSeqProperties
<1>4. Rest(s) \in Seq(T)
  <2>1. \A i \in (m + 1)..Len(s) : s[i] \in T
    BY <1>1
  <2>2. m + 1 \in Int /\ Len(s) \in Int
    BY <1>1
  <2>. HIDE DEF Rest
  <2>. QED  BY <1>2, <2>1, <2>2, SubSeqProperties
<1>5. SubSeq(s, 1, m) \o SubSeq(s, m + 1, Len(s)) = SubSeq(s, 1, Len(s))
  <2>1. 1 \in 1..(Len(s) + 1) /\ m \in (1 - 1)..Len(s) /\ Len(s) \in m..Len(s)
    BY <1>1
  <2>. QED  BY <2>1, ConcatAdjacentSubSeq
<1>. QED  BY <1>2, <1>3, <1>4, <1>5, SubSeqFull

LEMMA ChunkedIs ==
  ASSUME NEW T, NEW s \in Seq(T), s # <<>>
  PROVE  /\ Chunked(s) \in Seq(Seq(T)) /\ Chunked(s) # <<>>
         /\ Head(Chunked(s)) = First(s) /\ Tail(Chunked(s)) = Chunked(Rest(s))
<1>. DEFINE M == MaxIdsPerCall
            l == Len(s)
            k == (l + M - 1) \div M
            upto(n) == IF n * M < l THEN n * M ELSE l
<1>0. M \in Nat \ {0} /\ l \in Nat \ {0} /\ \A i \in 1..l : s[i] \in T
  BY LenProperties, ElementOfSeq, EmptySeq
<1>1. k \in Nat /\ l <= M * k /\ M * k < l + M
  BY <1>0, ChunkCount
<1>2. Chunked(s) = [n \in 1..k |-> SubSeq(s, (n - 1) * M + 1, upto(n))]
  BY DEF Chunked
<1>3. k # 0
  <2>. HIDE DEF k
  <2>. QED  BY <1>0, <1>1
<1>. HIDE DEF k, M, l
<1>4. ASSUME NEW n \in 1..k
      PROVE  /\ (n - 1) * M + 1 \in 1..l /\ upto(n) \in 1..l
             /\ SubSeq(s, (n - 1) * M + 1, upto(n)) \in Seq(T)
  <2>1. n - 1 \in Nat /\ (n - 1) * M \in Nat /\ n * M \in Nat /\ n * M = (n - 1) * M + M
    BY <1>0, <1>1
  <2>2. (n - 1) * M <= (k - 1) * M /\ (k - 1) * M = M * k - M
    BY <1>0, <1>1
  <2>3. (n - 1) * M + 1 \in 1..l
    BY <1>0, <1>1, <2>1, <2>2
  <2>4. upto(n) \in 1..l
    BY <1>0, <2>1
  <2>5. \A i \in ((n - 1) * M + 1)..upto(n) : s[i] \in T
    BY <1>0, <2>3, <2>4
  <2>. HIDE DEF upto
  <2>6. SubSeq(s, (n - 1) * M + 1, upto(n)) \in Seq(T)
    BY <1>0, <2>3, <2>4, <2>5, SubSeqProperties
  <2>. QED  BY <2>3, <2>4, <2>6
<1>5. /\ Chunked(s) \in Seq(Seq(T)) /\ Len(Chunked(s)) = k
      /\ \A n \in 1..k : Chunked(s)[n] = SubSeq(s, (n - 1) * M + 1, upto(n))
  <2>. DEFINE chunk(n) == SubSeq(s, (n - 1) * M + 1, upto(n))
  <2>1. Chunked(s) = [n \in 1..k |-> chunk(n)] /\ \A n \in 1..k : chunk(n) \in Seq(T)
    BY <1>2, <1>4
  <2>. HIDE DEF chunk
  <2>2. Chunked(s) \in Seq(Seq(T)) /\ Len(Chunked(s)) = k
    BY <1>1, <2>1, IsASeq, LenProperties
  <2>. QED  BY <2>1, <2>2 DEF chunk
<1>6. Chunked(s) # <<>>
  BY <1>3, <1>5, EmptySeq
<1>7. Head(Chunked(s)) = First(s)
  <2>1. 1 \in 1..k /\ (1 - 1) * M + 1 = 1 /\ 1 * M = M
    BY <1>0, <1>1, <1>3
  <2>2. Chunked(s)[1] = SubSeq(s, 1, IF M < l THEN M ELSE l)
    BY <1>5, <2>1
  <2>3. Head(Chunked(s)) = Chunked(s)[1]
    BY <1>5, <1>6
  <2>. QED  BY <2>2, <2>3 DEF First, M, l
<1>8. Tail(Chunked(s)) = Chunked(Rest(s))
  <2>0. /\ Tail(Chunked(s)) \in Seq(Seq(T)) /\ Len(Tail(Chunked(s))) = k - 1
        /\ \A n \in 1..(k - 1) : Tail(Chunked(s))[n] = Chunked(s)[n + 1]
    <3>1. Len(Tail(Chunked(s))) = k - 1
      BY <1>5, <1>6, HeadTailProperties
    <3>. QED  BY <1>5, <1>6, <3>1, HeadTailProperties
  <2>1. CASE l <= M
    <3>1. Rest(s) = <<>>
      <4>1. Rest(s) = SubSeq(s, l + 1, l) /\ l + 1 \in Int /\ l \in Int /\ l < l + 1
        <5>1. ~ (M < l) /\ l + 1 \in Int /\ l \in Int /\ l < l + 1
          BY <1>0, <2>1
        <5>. QED  BY <5>1 DEF Rest, l, M
      <4>. QED  BY <4>1, SubSeqEmpty
    <3>2. k = 1
      BY <1>0, <2>1, ChunkCountOnce DEF k, M
    <3>3. Len(Tail(Chunked(s))) = 0
      BY <2>0, <3>2
    <3>. QED  BY <2>0, <3>1, <3>3, ChunkedEmpty, EmptySeq
  <2>2. CASE l > M
    <3>. DEFINE r == SubSeq(s, M + 1, l)
                ups(n) == IF n * M < l - M THEN n * M ELSE l - M
    <3>1. Rest(s) = r
      BY <1>0, <2>2 DEF Rest, l, M
    <3>2. r \in Seq(T) /\ Len(r) = l - M
      <4>1. M + 1 \in Int /\ l \in Int /\ \A i \in (M + 1)..l : s[i] \in T
        BY <1>0
      <4>2. M + 1 <= l /\ l - (M + 1) + 1 = l - M
        BY <1>0, <2>2
      <4>. QED  BY <4>1, <4>2, SubSeqProperties
    <3>. HIDE DEF r
    <3>3. k = ((l - M + M - 1) \div M) + 1
      BY <1>0, <2>2, ChunkCountNext DEF k, M
    <3>4. (l - M + M - 1) \div M = k - 1
      <4>1. l - M \in Nat
        BY <1>0, <2>2
      <4>2. (l - M + M - 1) \div M \in Nat
        BY <4>1, ChunkCount DEF M
      <4>. QED  BY <3>3, <4>2
    <3>5. Chunked(r) = [n \in 1..(k - 1) |-> SubSeq(r, (n - 1) * M + 1, ups(n))]
      BY <3>2, <3>4 DEF Chunked, M
    <3>6. ASSUME NEW n \in 1..(k - 1)
          PROVE  Chunked(s)[n + 1] = SubSeq(r, (n - 1) * M + 1, ups(n))
      <4>1. n \in Nat /\ n - 1 \in Nat /\ (n - 1) * M \in Nat /\ n * M \in Nat
            /\ n * M = (n - 1) * M + M /\ (n + 1) * M = n * M + M /\ n + 1 \in 1..k
            /\ (n + 1) - 1 = n
        BY <1>0, <1>1
      <4>2. n * M <= (k - 1) * M /\ (k - 1) * M = M * k - M
        BY <1>0, <1>1
      <4>3. (n - 1) * M + 1 \in 1..(l - M) /\ ups(n) \in 1..(l - M)
        BY <1>0, <1>1, <2>2, <4>1, <4>2
      <4>4. (M + 1) + ((n - 1) * M + 1) - 1 = n * M + 1 /\ (M + 1) + ups(n) - 1 = upto(n + 1)
        BY <1>0, <2>2, <4>1
      <4>5. M + 1 \in 1..l /\ l \in 1..l /\ l - (M + 1) + 1 = l - M
        BY <1>0, <2>2
      <4>6. Chunked(s)[n + 1] = SubSeq(s, n * M + 1, upto(n + 1))
        BY <1>5, <4>1
      <4>. HIDE DEF upto, ups
      <4>7. SubSeq(SubSeq(s, M + 1, l), (n - 1) * M + 1, ups(n)) =
              SubSeq(s, (M + 1) + ((n - 1) * M + 1) - 1, (M + 1) + ups(n) - 1)
        <5>. DEFINE i == M + 1
                    from == (n - 1) * M + 1
                    to == ups(n)
        <5>1. from \in 1..(l - i + 1) /\ to \in 1..(l - i + 1) /\ i \in 1..Len(s) /\ l \in 1..Len(s)
          BY <4>3, <4>5 DEF l
        <5>. HIDE DEF i, from, to
        <5>2. SubSeq(SubSeq(s, i, l), from, to) = SubSeq(s, i + from - 1, i + to - 1)
          BY <5>1, SubSeqOfSubSeq
        <5>. QED  BY <5>2 DEF i, from, to
      <4>. QED  BY <4>4, <4>6, <4>7 DEF r
    <3>7. \A n \in 1..(k - 1) : Tail(Chunked(s))[n] = SubSeq(r, (n - 1) * M + 1, ups(n))
      BY <2>0, <3>6
    <3>8. Tail(Chunked(s)) = [n \in 1..(k - 1) |-> Tail(Chunked(s))[n]]
      BY <2>0, LenProperties
    <3>. HIDE DEF ups
    <3>. QED  BY <3>1, <3>5, <3>7, <3>8
  <2>. QED  BY <1>0, <2>1, <2>2
<1>. QED  BY <1>5, <1>6, <1>7, <1>8

LEMMA HeadConcat ==
  ASSUME NEW T, NEW s \in Seq(T), NEW r \in Seq(T), s # <<>>
  PROVE  s \o r # <<>> /\ Head(s \o r) = Head(s) /\ Tail(s \o r) = Tail(s) \o r
<1>1. /\ Len(s) \in Nat \ {0} /\ Len(r) \in Nat /\ s \o r \in Seq(T) /\ Len(s \o r) = Len(s) + Len(r)
      /\ \A i \in 1..(Len(s) + Len(r)) : (s \o r)[i] = IF i <= Len(s) THEN s[i] ELSE r[i - Len(s)]
  BY ConcatProperties, LenProperties, EmptySeq
<1>2. s \o r # <<>>
  BY <1>1, EmptySeq
<1>3. Head(s \o r) = (s \o r)[1] /\ Head(s) = s[1]
  BY <1>1, <1>2
<1>4. (s \o r)[1] = s[1]
  BY <1>1
<1>5. /\ Tail(s) \in Seq(T) /\ Len(Tail(s)) = Len(s) - 1
      /\ \A i \in 1..Len(Tail(s)) : Tail(s)[i] = s[i + 1]
  BY HeadTailProperties
<1>6. /\ Tail(s \o r) \in Seq(T) /\ Len(Tail(s \o r)) = Len(s) + Len(r) - 1
      /\ \A i \in 1..(Len(s) + Len(r) - 1) : Tail(s \o r)[i] = (s \o r)[i + 1]
  <2>. DEFINE q == s \o r
  <2>. HIDE DEF q
  <2>1. q \in Seq(T) /\ q # <<>> /\ Len(q) = Len(s) + Len(r)
    BY <1>1, <1>2 DEF q
  <2>2. /\ Tail(q) \in Seq(T) /\ Len(Tail(q)) = Len(q) - 1
        /\ \A i \in 1..Len(Tail(q)) : Tail(q)[i] = q[i + 1]
    BY <2>1, HeadTailProperties
  <2>3. Len(Tail(q)) = Len(s) + Len(r) - 1
    BY <2>1, <2>2
  <2>. QED  BY <2>2, <2>3 DEF q
<1>7. /\ Tail(s) \o r \in Seq(T) /\ Len(Tail(s) \o r) = Len(s) - 1 + Len(r)
      /\ \A i \in 1..(Len(s) - 1 + Len(r)) :
           (Tail(s) \o r)[i] = IF i <= Len(s) - 1 THEN Tail(s)[i] ELSE r[i - (Len(s) - 1)]
  BY <1>5, ConcatProperties
<1>8. ASSUME NEW i \in 1..(Len(s) + Len(r) - 1)
      PROVE  Tail(s \o r)[i] = (Tail(s) \o r)[i]
  <2>1. /\ i + 1 \in 1..(Len(s) + Len(r)) /\ i \in 1..(Len(s) - 1 + Len(r))
        /\ (i + 1) - Len(s) = i - (Len(s) - 1)
    BY <1>1
  <2>2. CASE i <= Len(s) - 1
    <3>1. i + 1 <= Len(s) /\ i \in 1..Len(Tail(s))
      BY <1>1, <1>5, <2>2
    <3>. QED  BY <1>1, <1>5, <1>6, <1>7, <2>1, <2>2, <3>1
  <2>3. CASE i > Len(s) - 1
    <3>1. ~ (i + 1 <= Len(s)) /\ ~ (i <= Len(s) - 1)
      BY <1>1, <2>3
    <3>. QED  BY <1>1, <1>6, <1>7, <2>1, <3>1
  <2>. QED  BY <1>1, <2>2, <2>3
<1>9. Len(Tail(s \o r)) = Len(Tail(s) \o r)
  BY <1>1, <1>6, <1>7
<1>10. Tail(s \o r) = Tail(s) \o r
  BY <1>6, <1>7, <1>8, <1>9, SeqEqual
<1>. QED  BY <1>2, <1>3, <1>4, <1>10

LEMMA CallsEmpty ==
  ASSUME NEW op
  PROVE  Calls(op, <<>>) = <<>>
BY ChunkedEmpty, EmptySeq DEF Calls

LEMMA CallsIs ==
  ASSUME NEW op \in {"remove", "add"}, NEW s \in Seq(Tracks), s # <<>>
  PROVE  /\ Calls(op, s) \in Seq(Call) /\ Calls(op, s) # <<>>
         /\ Head(Calls(op, s)) = [op |-> op, tracks |-> First(s)]
         /\ Tail(Calls(op, s)) = Calls(op, Rest(s))
<1>. DEFINE C == Chunked(s)
            D == Chunked(Rest(s))
            call(t) == [op |-> op, tracks |-> t]
            K == Calls(op, s)
<1>1. C \in Seq(Seq(Tracks)) /\ C # <<>> /\ Head(C) = First(s) /\ Tail(C) = D
  BY ChunkedIs
<1>2. \A t \in Seq(Tracks) : call(t) \in Call
  BY DEF Call, CallOf
<1>3. K = [n \in DOMAIN C |-> call(C[n])] /\ Calls(op, Rest(s)) = [n \in DOMAIN D |-> call(D[n])]
  BY DEF Calls
<1>. HIDE DEF C, D, call, K
<1>4. Len(C) \in Nat \ {0} /\ DOMAIN C = 1..Len(C) /\ \A n \in 1..Len(C) : C[n] \in Seq(Tracks)
  BY <1>1, LenProperties, ElementOfSeq, EmptySeq
<1>5. K \in Seq(Call) /\ Len(K) = Len(C) /\ \A n \in 1..Len(C) : K[n] = call(C[n])
  BY <1>2, <1>3, <1>4
<1>6. K # <<>>
  BY <1>4, <1>5, EmptySeq
<1>7. Head(K) = call(First(s))
  <2>1. Head(K) = K[1] /\ Head(C) = C[1] /\ 1 \in 1..Len(C)
    BY <1>1, <1>4, <1>5, <1>6
  <2>. QED  BY <1>1, <1>5, <2>1
<1>8. /\ Tail(C) \in Seq(Seq(Tracks)) /\ Len(Tail(C)) = Len(C) - 1
      /\ \A n \in 1..(Len(C) - 1) : Tail(C)[n] = C[n + 1]
  <2>1. Len(Tail(C)) = Len(C) - 1
    BY <1>1, HeadTailProperties
  <2>. QED  BY <1>1, <2>1, HeadTailProperties
<1>9. /\ Tail(K) \in Seq(Call) /\ Len(Tail(K)) = Len(C) - 1
      /\ \A n \in 1..(Len(C) - 1) : Tail(K)[n] = K[n + 1]
  <2>1. Len(Tail(K)) = Len(C) - 1
    BY <1>5, <1>6, HeadTailProperties
  <2>. QED  BY <1>5, <1>6, <2>1, HeadTailProperties
<1>10. \A n \in 1..(Len(C) - 1) : n + 1 \in 1..Len(C)
  BY <1>4
<1>11. \A n \in 1..(Len(C) - 1) : Tail(K)[n] = call(D[n])
  BY <1>1, <1>5, <1>8, <1>9, <1>10
<1>12. DOMAIN D = 1..(Len(C) - 1) /\ DOMAIN Tail(K) = 1..(Len(C) - 1)
       /\ Tail(K) = [n \in DOMAIN Tail(K) |-> Tail(K)[n]]
  BY <1>1, <1>8, <1>9, LenProperties
<1>13. Tail(K) = Calls(op, Rest(s))
  BY <1>3, <1>11, <1>12
<1>. QED  BY <1>5, <1>6, <1>7, <1>13 DEF K, call

LEMMA CallsType ==
  ASSUME NEW op \in {"remove", "add"}, NEW s \in Seq(Tracks)
  PROVE  Calls(op, s) \in Seq(Call) /\ (Calls(op, s) = <<>> <=> s = <<>>)
<1>1. CASE s = <<>>
  BY <1>1, CallsEmpty, EmptySeq
<1>2. CASE s # <<>>
  BY <1>2, CallsIs
<1>. QED  BY <1>1, <1>2

-----------------------------------------------------------------------------
(* What the requests of a diff come to.                                    *)

Items == Tracks \cup {LocalFile}

PlayableItems == (Tracks \ Unplayable) \cup {LocalFile}

LEMMA ElementsType ==
  ASSUME NEW T, NEW U, NEW s \in Seq(T), ToSet(s) \subseteq U
  PROVE  s \in Seq(U)
<1>1. s \in Seq(ToSet(s))
  BY ToSetType
<1>2. \A W : s \in Seq(W) /\ W \subseteq U => s \in Seq(U)
  BY SeqMonotonic
<1>. QED  BY <1>1, <1>2

LEMMA WithoutType ==
  ASSUME NEW T, NEW s \in Seq(T), NEW S
  PROVE  Without(s, S) \in Seq(T) /\ ToSet(Without(s, S)) = ToSet(s) \ S
<1>1. Without(s, S) = Only(s, T \ S) /\ ToSet(s) \subseteq T
  BY WithoutIsOnly, ToSetType
<1>2. Only(s, T \ S) \in Seq(T) /\ ToSet(Only(s, T \ S)) = ToSet(s) \cap (T \ S)
  BY OnlyType
<1>. QED  BY <1>1, <1>2

LEMMA WithoutConcat ==
  ASSUME NEW T, NEW s \in Seq(T), NEW r \in Seq(T), NEW S
  PROVE  Without(s \o r, S) = Without(s, S) \o Without(r, S)
<1>1. s \o r \in Seq(T)
  BY ConcatProperties
<1>. DEFINE q == s \o r
<1>2. Without(q, S) = Only(q, T \ S)
  <2>1. q \in Seq(T)
    BY <1>1
  <2>. HIDE DEF q
  <2>. QED  BY <2>1, WithoutIsOnly
<1>3. Without(s, S) = Only(s, T \ S) /\ Without(r, S) = Only(r, T \ S)
  BY WithoutIsOnly
<1>4. Only(s \o r, T \ S) = Only(s, T \ S) \o Only(r, T \ S)
  BY OnlyConcat
<1>. QED  BY <1>2, <1>3, <1>4

LEMMA WithoutTwice ==
  ASSUME NEW T, NEW s \in Seq(T), NEW S, NEW U
  PROVE  Without(Without(s, S), U) = Without(s, S \cup U)
<1>1. Without(s, S) = Only(s, T \ S) /\ Without(s, S \cup U) = Only(s, T \ (S \cup U))
  BY WithoutIsOnly
<1>2. Only(s, T \ S) \in Seq(T)
  BY OnlyType
<1>3. Without(Only(s, T \ S), U) = Only(Only(s, T \ S), T \ U)
  BY <1>2, WithoutIsOnly
<1>4. (T \ S) \cap (T \ U) = T \ (S \cup U)
  OBVIOUS
<1>. QED  BY <1>1, <1>3, <1>4, OnlyTwice

LEMMA WithoutNothing ==
  ASSUME NEW T, NEW s \in Seq(T), NEW S, ToSet(s) \cap S = {}
  PROVE  Without(s, S) = s
<1>1. Without(s, S) = Only(s, T \ S) /\ ToSet(s) \subseteq T \ S
  BY WithoutIsOnly, ToSetType
<1>. QED  BY <1>1, OnlyAll

LEMMA WithoutEverything ==
  ASSUME NEW T, NEW s \in Seq(T), NEW S, ToSet(s) \subseteq S
  PROVE  Without(s, S) = <<>>
<1>1. Without(s, S) \in Seq(T) /\ ToSet(Without(s, S)) = {}
  BY WithoutType
<1>. QED  BY <1>1, ToSetType

LEMMA PlayableAreItems == Seq(PlayableItems) \subseteq Seq(Items) /\ Seq(Tracks) \subseteq Seq(Items)
<1>1. PlayableItems \subseteq Items /\ Tracks \subseteq Items
  BY DEF PlayableItems, Items
<1>. QED  BY <1>1, SeqMonotonic

LEMMA TrackIdsType ==
  ASSUME NEW items \in Seq(PlayableItems)
  PROVE  /\ TrackIds(items) \in Seq(Tracks)
         /\ ToSet(TrackIds(items)) = ToSet(items) \ {LocalFile}
         /\ ToSet(TrackIds(items)) \cap Unplayable = {}
<1>1. /\ TrackIds(items) \in Seq(PlayableItems)
      /\ ToSet(TrackIds(items)) = ToSet(items) \ {LocalFile}
      /\ ToSet(items) \subseteq PlayableItems
  BY WithoutType, ToSetType DEF TrackIds
<1>2. ToSet(TrackIds(items)) \subseteq Tracks \ Unplayable
  BY <1>1 DEF PlayableItems
<1>3. ToSet(TrackIds(items)) \subseteq Tracks
  BY <1>2
<1>. HIDE DEF TrackIds
<1>. QED  BY <1>1, <1>2, <1>3, ElementsType

(* What is left of the requests makes the playlist what the target asks     *)
(* for.                                                                     *)
Remaining(items, calls, target, ordered) ==
  \E rem, add \in Seq(Tracks) :
    /\ calls = Calls("remove", rem) \o Calls("add", add)
    /\ Realized(Without(items, ToSet(rem)) \o Without(add, Unplayable), target, ordered)

(* The ids of a playlist from which rem was removed and to which add was    *)
(* added.                                                                   *)
LEMMA IdsAfterwards ==
  ASSUME NEW items \in Seq(PlayableItems), NEW S, NEW add \in Seq(Tracks)
  PROVE  /\ Without(items, S) \o Without(add, Unplayable) \in Seq(PlayableItems)
         /\ TrackIds(Without(items, S) \o Without(add, Unplayable)) =
              Without(items, S \cup {LocalFile}) \o Without(add, Unplayable)
<1>. DEFINE kept == Without(items, S)
            new == Without(add, Unplayable)
<1>1. kept \in Seq(PlayableItems)
  BY WithoutType
<1>2. new \in Seq(Tracks) /\ ToSet(new) = ToSet(add) \ Unplayable /\ ToSet(add) \subseteq Tracks
  BY WithoutType, ToSetType
<1>3. ToSet(new) \subseteq PlayableItems /\ ToSet(new) \cap {LocalFile} = {}
  BY <1>2 DEF PlayableItems
<1>4. Without(kept, {LocalFile}) = Without(items, S \cup {LocalFile})
  BY WithoutTwice
<1>. HIDE DEF kept, new
<1>5. new \in Seq(PlayableItems)
  BY <1>2, <1>3, ElementsType
<1>6. kept \o new \in Seq(PlayableItems)
  BY <1>1, <1>5, ConcatProperties
<1>7. Without(kept \o new, {LocalFile}) = Without(kept, {LocalFile}) \o Without(new, {LocalFile})
  <2>1. \A s, r \in Seq(PlayableItems), D \in SUBSET Items :
          Without(s \o r, D) = Without(s, D) \o Without(r, D)
    BY WithoutConcat
  <2>2. {LocalFile} \in SUBSET Items
    BY DEF Items
  <2>. QED  BY <1>1, <1>5, <2>1, <2>2
<1>8. Without(new, {LocalFile}) = new
  BY <1>5, <1>3, WithoutNothing
<1>. QED  BY <1>4, <1>6, <1>7, <1>8 DEF TrackIds, kept, new

LEMMA RewriteRealizes ==
  ASSUME NEW items \in Seq(PlayableItems), NEW target \in Seq(Tracks), NEW ordered
  PROVE  Realized(Without(items, ToSet(TrackIds(items))) \o Without(target, Unplayable),
                  target, ordered)
<1>. DEFINE current == TrackIds(items)
            after == Without(items, ToSet(current)) \o Without(target, Unplayable)
<1>1. TrackIds(after) = Without(items, ToSet(current) \cup {LocalFile}) \o Without(target, Unplayable)
  BY IdsAfterwards
<1>2. Without(items, ToSet(current) \cup {LocalFile}) = <<>>
  <2>1. ToSet(items) \subseteq ToSet(current) \cup {LocalFile}
    BY TrackIdsType
  <2>. HIDE DEF current
  <2>. QED  BY <2>1, WithoutEverything
<1>3. Without(target, Unplayable) \in Seq(Tracks)
  BY WithoutType
<1>4. TrackIds(after) = Without(target, Unplayable)
  BY <1>1, <1>2, <1>3, ConcatEmptySeq
<1>. HIDE DEF after
<1>5. Realized(after, target, ordered)
  BY <1>4 DEF Realized
<1>. QED  BY <1>5 DEF after

LEMMA PiecemealRealizes ==
  ASSUME NEW items \in Seq(PlayableItems), NEW target \in Seq(Tracks), IsInjective(target),
         NEW ordered, ~ NeedsRewrite(TrackIds(items), target, ordered)
  PROVE  Realized(Without(items, ToSet(TrackIds(items)) \ ToSet(target))
                    \o Without(Without(target, ToSet(TrackIds(items))), Unplayable),
                  target, ordered)
<1>. DEFINE current == TrackIds(items)
            occurrences == Only(current, ToSet(target))
            kept == Deduped(occurrences)
            adds == Without(target, ToSet(current))
            new == Without(adds, Unplayable)
            drop == ToSet(current) \ ToSet(target)
            after == Without(items, drop) \o new
<1>1. /\ current \in Seq(Tracks) /\ ToSet(current) = ToSet(items) \ {LocalFile}
      /\ ToSet(current) \cap Unplayable = {}
  BY TrackIdsType
<1>2. Len(occurrences) = Len(kept) /\ (ordered => kept \o adds = target)
  BY DEF NeedsRewrite
<1>3. current = Without(items, {LocalFile})
  BY DEF TrackIds
<1>. HIDE DEF current
<1>4. occurrences \in Seq(Tracks) /\ ToSet(occurrences) = ToSet(current) \cap ToSet(target)
  BY <1>1, OnlyType
<1>5. adds \in Seq(Tracks) /\ ToSet(adds) = ToSet(target) \ ToSet(current)
  BY WithoutType
<1>. HIDE DEF adds
<1>6. new \in Seq(Tracks) /\ ToSet(new) = ToSet(adds) \ Unplayable
  BY <1>5, WithoutType
<1>7. TrackIds(after) = Without(items, drop \cup {LocalFile}) \o new
  BY <1>5, IdsAfterwards
<1>8. Without(items, drop \cup {LocalFile}) = occurrences
  <2>1. Without(items, {LocalFile} \cup drop) = Without(current, drop)
    <3>1. \A S, U : Without(Without(items, S), U) = Without(items, S \cup U)
      BY WithoutTwice
    <3>. QED  BY <1>3, <3>1
  <2>2. Without(current, drop) = Only(current, Tracks \ drop)
    BY <1>1, WithoutIsOnly
  <2>3. Only(current, Tracks \ drop) = occurrences
    <3>1. (Tracks \ drop) \cap ToSet(current) = ToSet(target) \cap ToSet(current)
      BY <1>1, ToSetType
    <3>. QED  BY <1>1, <3>1, OnlySame
  <2>4. {LocalFile} \cup drop = drop \cup {LocalFile}
    OBVIOUS
  <2>. QED  BY <2>1, <2>2, <2>3, <2>4
<1>. HIDE DEF occurrences
<1>9. occurrences = kept /\ IsInjective(kept) /\ ToSet(kept) = ToSet(occurrences) /\ kept \in Seq(Tracks)
  BY <1>2, <1>4, DedupedIs
<1>10. TrackIds(after) = kept \o new
  BY <1>7, <1>8, <1>9
<1>. HIDE DEF kept, new, after, drop
<1>11. CASE ordered
  <2>1. Without(target, Unplayable) = Without(kept, Unplayable) \o Without(adds, Unplayable)
    <3>1. \A s, r \in Seq(Tracks) :
            Without(s \o r, Unplayable) = Without(s, Unplayable) \o Without(r, Unplayable)
      BY WithoutConcat
    <3>. QED  BY <1>2, <1>5, <1>9, <1>11, <3>1
  <2>2. Without(kept, Unplayable) = kept
    BY <1>1, <1>4, <1>9, WithoutNothing
  <2>3. TrackIds(after) = Without(target, Unplayable)
    BY <1>10, <2>1, <2>2 DEF new
  <2>4. Realized(after, target, ordered)
    BY <1>11, <2>3 DEF Realized
  <2>. QED  BY <2>4 DEF after, new, adds, drop, current
<1>12. CASE ~ordered
  <2>. DEFINE playable == Without(target, Unplayable)
  <2>1. /\ playable \in Seq(Tracks) /\ ToSet(playable) = ToSet(target) \ Unplayable
    BY WithoutType
  <2>2. IsInjective(playable)
    <3>1. playable = Only(target, Tracks \ Unplayable)
      BY WithoutIsOnly
    <3>. QED  BY <3>1, OnlyInjective
  <2>3. IsInjective(new)
    <3>1. adds = Only(target, Tracks \ ToSet(current)) /\ new = Only(adds, Tracks \ Unplayable)
      BY <1>5, WithoutIsOnly DEF adds, new
    <3>. QED  BY <1>5, <3>1, OnlyInjective
  <2>4. ToSet(kept) \cap ToSet(new) = {}
    BY <1>4, <1>5, <1>6, <1>9
  <2>5. kept \o new \in Seq(Tracks) /\ IsInjective(kept \o new)
    BY <1>6, <1>9, <2>3, <2>4, InjectiveConcat, ConcatProperties
  <2>6. ToSet(kept \o new) = ToSet(kept) \cup ToSet(new)
    BY <1>6, <1>9, ToSetConcat
  <2>7. ToSet(kept \o new) = ToSet(playable)
    BY <1>1, <1>4, <1>5, <1>6, <1>9, <2>1, <2>6
  <2>. HIDE DEF playable
  <2>. DEFINE all == kept \o new
  <2>8. all \in Seq(Tracks) /\ IsInjective(all) /\ ToSet(all) = ToSet(playable)
    BY <2>5, <2>7
  <2>. HIDE DEF all
  <2>9. Len(all) = Len(playable)
    BY <2>1, <2>2, <2>8, InjectiveLen
  <2>10. Realized(after, target, ordered)
    BY <1>10, <1>12, <2>8, <2>9 DEF Realized, all, playable
  <2>. QED  BY <2>10 DEF after, new, adds, drop, current
<1>. QED  BY <1>11, <1>12

(* The requests compute_diff comes up with do what they are for, whatever   *)
(* is in the playlist.                                                      *)
LEMMA DiffRealizes ==
  ASSUME NEW items \in Seq(PlayableItems), NEW target \in Seq(Tracks), IsInjective(target),
         NEW ordered
  PROVE  Remaining(items, DiffCalls(TrackIds(items), target, ordered), target, ordered)
<1>. DEFINE current == TrackIds(items)
<1>1. current \in Seq(Tracks)
  BY TrackIdsType
<1>2. CASE NeedsRewrite(current, target, ordered)
  <2>1. Deduped(current) \in Seq(Tracks) /\ ToSet(Deduped(current)) = ToSet(current)
    <3>. HIDE DEF current
    <3>. QED  BY <1>1, DedupedIs
  <2>2. DiffCalls(current, target, ordered) =
          Calls("remove", Deduped(current)) \o Calls("add", target)
    BY <1>2 DEF DiffCalls
  <2>3. Realized(Without(items, ToSet(Deduped(current))) \o Without(target, Unplayable),
                 target, ordered)
    BY <2>1, RewriteRealizes
  <2>. HIDE DEF current
  <2>4. Remaining(items, DiffCalls(current, target, ordered), target, ordered)
    BY <2>1, <2>2, <2>3 DEF Remaining
  <2>. QED  BY <2>4 DEF current
<1>3. CASE ~ NeedsRewrite(current, target, ordered)
  <2>. DEFINE gone == Without(current, ToSet(target))
              rem == Deduped(gone)
              adds == Without(target, ToSet(current))
  <2>1. rem \in Seq(Tracks) /\ ToSet(rem) = ToSet(current) \ ToSet(target)
    <3>. HIDE DEF current
    <3>1. gone \in Seq(Tracks) /\ ToSet(gone) = ToSet(current) \ ToSet(target)
      BY <1>1, WithoutType
    <3>. HIDE DEF gone
    <3>. QED  BY <3>1, DedupedIs
  <2>2. DiffCalls(current, target, ordered) = Calls("remove", rem) \o Calls("add", adds)
    BY <1>3 DEF DiffCalls
  <2>3. adds \in Seq(Tracks)
    BY WithoutType
  <2>4. Realized(Without(items, ToSet(rem)) \o Without(adds, Unplayable), target, ordered)
    BY <1>3, <2>1, PiecemealRealizes
  <2>. HIDE DEF current, rem, adds
  <2>5. Remaining(items, DiffCalls(current, target, ordered), target, ordered)
    BY <2>1, <2>2, <2>3, <2>4 DEF Remaining
  <2>. QED  BY <2>5 DEF current
<1>. QED  BY <1>2, <1>3

LEMMA NoneRealizes ==
  ASSUME NEW items \in Seq(PlayableItems), NEW target, NEW ordered,
         Remaining(items, <<>>, target, ordered)
  PROVE  Realized(items, target, ordered)
<1>1. PICK rem \in Seq(Tracks), add \in Seq(Tracks) :
        /\ <<>> = Calls("remove", rem) \o Calls("add", add)
        /\ Realized(Without(items, ToSet(rem)) \o Without(add, Unplayable), target, ordered)
  BY DEF Remaining
<1>2. rem = <<>> /\ add = <<>>
  <2>1. Calls("remove", rem) \in Seq(Call) /\ Calls("add", add) \in Seq(Call)
    BY CallsType
  <2>2. Calls("remove", rem) = <<>> /\ Calls("add", add) = <<>>
    <3>1. \A s, t \in Seq(Call) : s \o t = <<>> => s = <<>> /\ t = <<>>
      BY ConcatEqualIffEmpty
    <3>. QED  BY <1>1, <2>1, <3>1
  <2>. QED  BY <2>2, CallsType
<1>3. Without(items, ToSet(<<>>)) = items /\ Without(<<>>, Unplayable) = <<>>
  <2>1. Without(items, ToSet(<<>>)) = items
    BY ToSetEmpty, WithoutNothing
  <2>2. Without(<<>>, Unplayable) = <<>>
    <3>1. <<>> \in Seq(Tracks) /\ ToSet(<<>>) \subseteq Unplayable
      BY EmptySeq, ToSetEmpty
    <3>. QED  BY <3>1, WithoutEverything
  <2>. QED  BY <2>1, <2>2
<1>4. items \o <<>> = items
  BY ConcatEmptySeq
<1>. QED  BY <1>1, <1>2, <1>3, <1>4

LEMMA SentType ==
  ASSUME NEW items \in Seq(PlayableItems), NEW call \in Call
  PROVE  Sent(call, items) \in Seq(PlayableItems)
<1>1. Without(items, ToSet(call.tracks)) \in Seq(PlayableItems)
  BY WithoutType
<1>2. call.tracks \in Seq(Tracks)
  BY DEF Call, CallOf
<1>3. items \o Without(call.tracks, Unplayable) \in Seq(PlayableItems)
  <2>1. Without(items, {}) = items
    BY WithoutNothing
  <2>2. Without(items, {}) \o Without(call.tracks, Unplayable) \in Seq(PlayableItems)
    BY <1>2, IdsAfterwards
  <2>. QED  BY <2>1, <2>2
<1>. QED  BY <1>1, <1>3 DEF Sent

LEMMA SentRealizes ==
  ASSUME NEW items \in Seq(PlayableItems), NEW calls, calls # <<>>, NEW target, NEW ordered,
         Remaining(items, calls, target, ordered)
  PROVE  Remaining(Sent(Head(calls), items), Tail(calls), target, ordered)
<1>1. PICK rem \in Seq(Tracks), add \in Seq(Tracks) :
        /\ calls = Calls("remove", rem) \o Calls("add", add)
        /\ Realized(Without(items, ToSet(rem)) \o Without(add, Unplayable), target, ordered)
  BY DEF Remaining
<1>2. Calls("remove", rem) \in Seq(Call) /\ Calls("add", add) \in Seq(Call)
  BY CallsType
<1>3. CASE rem # <<>>
  <2>1. /\ Calls("remove", rem) # <<>>
        /\ Head(Calls("remove", rem)) = [op |-> "remove", tracks |-> First(rem)]
        /\ Tail(Calls("remove", rem)) = Calls("remove", Rest(rem))
    BY <1>3, CallsIs
  <2>2. /\ Head(calls) = [op |-> "remove", tracks |-> First(rem)]
        /\ Tail(calls) = Calls("remove", Rest(rem)) \o Calls("add", add)
    <3>1. \A s, t \in Seq(Call) :
            s # <<>> => Head(s \o t) = Head(s) /\ Tail(s \o t) = Tail(s) \o t
      BY HeadConcat
    <3>. QED  BY <1>1, <1>2, <2>1, <3>1
  <2>3. Sent(Head(calls), items) = Without(items, ToSet(First(rem)))
    BY <2>2 DEF Sent
  <2>4. /\ First(rem) \in Seq(Tracks) /\ Rest(rem) \in Seq(Tracks)
        /\ ToSet(rem) = ToSet(First(rem)) \cup ToSet(Rest(rem))
    <3>1. First(rem) \in Seq(Tracks) /\ Rest(rem) \in Seq(Tracks) /\ First(rem) \o Rest(rem) = rem
      BY FirstAndRest
    <3>2. \A s, r \in Seq(Tracks) : ToSet(s \o r) = ToSet(s) \cup ToSet(r)
      BY ToSetConcat
    <3>. QED  BY <3>1, <3>2
  <2>5. Without(Without(items, ToSet(First(rem))), ToSet(Rest(rem))) = Without(items, ToSet(rem))
    <3>1. \A S, U : Without(Without(items, S), U) = Without(items, S \cup U)
      BY WithoutTwice
    <3>. QED  BY <2>4, <3>1
  <2>. QED  BY <1>1, <2>2, <2>3, <2>4, <2>5 DEF Remaining
<1>4. CASE rem = <<>>
  <2>1. calls = Calls("add", add)
    <3>1. Calls("remove", rem) = <<>>
      BY <1>4, CallsEmpty
    <3>. QED  BY <1>1, <1>2, <3>1, ConcatEmptySeq
  <2>2. add # <<>>
    BY <2>1, CallsType
  <2>3. Head(calls) = [op |-> "add", tracks |-> First(add)] /\ Tail(calls) = Calls("add", Rest(add))
    BY <2>1, <2>2, CallsIs
  <2>4. First(add) \in Seq(Tracks) /\ Rest(add) \in Seq(Tracks) /\ First(add) \o Rest(add) = add
    BY FirstAndRest
  <2>. DEFINE new == Without(First(add), Unplayable)
              more == Without(Rest(add), Unplayable)
  <2>5. Sent(Head(calls), items) = items \o new
    <3>1. Head(calls).op # "remove" /\ Head(calls).tracks = First(add)
      BY <2>3
    <3>. QED  BY <3>1 DEF Sent
  <2>6. Without(items, ToSet(rem)) = items
    BY <1>4, ToSetEmpty, WithoutNothing
  <2>7. Without(add, Unplayable) = new \o more
    <3>1. \A s, r \in Seq(Tracks) :
            Without(s \o r, Unplayable) = Without(s, Unplayable) \o Without(r, Unplayable)
      BY WithoutConcat
    <3>. QED  BY <2>4, <3>1
  <2>8. /\ items \in Seq(Items) /\ new \in Seq(Items) /\ more \in Seq(Items)
        /\ items \o new \in Seq(Items)
    <3>1. new \in Seq(Tracks) /\ more \in Seq(Tracks)
      BY <2>4, WithoutType
    <3>. HIDE DEF new, more
    <3>2. items \in Seq(Items) /\ new \in Seq(Items) /\ more \in Seq(Items)
      BY <3>1, PlayableAreItems
    <3>. QED  BY <3>2, ConcatProperties
  <2>. HIDE DEF new, more
  <2>9. (items \o new) \o more = items \o (new \o more)
    BY <2>8, ConcatAssociative
  <2>10. Without(items \o new, ToSet(<<>>)) = items \o new
    <3>1. \A s \in Seq(Items) : Without(s, {}) = s
      BY WithoutNothing
    <3>. QED  BY <2>8, <3>1, ToSetEmpty
  <2>11. Realized(Without(items \o new, ToSet(<<>>)) \o more, target, ordered)
    BY <1>1, <2>6, <2>7, <2>9, <2>10
  <2>12. Tail(calls) = Calls("remove", <<>>) \o Calls("add", Rest(add))
    <3>1. Calls("add", Rest(add)) \in Seq(Call) /\ Calls("remove", <<>>) = <<>>
      BY <2>4, CallsType, CallsEmpty
    <3>. QED  BY <2>3, <3>1, ConcatEmptySeq
  <2>13. <<>> \in Seq(Tracks)
    BY EmptySeq
  <2>. QED  BY <2>4, <2>5, <2>11, <2>12, <2>13 DEF Remaining, more
<1>. QED  BY <1>3, <1>4

(* A run that has nothing to send found a playlist that is not empty.       *)
LEMMA NothingToSend ==
  ASSUME NEW target \in Seq(Tracks), target # <<>>, NEW ordered
  PROVE  DiffCalls(TrackIds(<<>>), target, ordered) # <<>>
<1>1. TrackIds(<<>>) = <<>>
  BY EmptySeq, ToSetEmpty, WithoutEverything DEF TrackIds
<1>2. Calls("add", target) \in Seq(Call) /\ Calls("add", target) # <<>>
  BY CallsType
<1>3. Deduped(<<>>) = <<>> /\ Without(target, ToSet(<<>>)) = target
      /\ Deduped(Without(<<>>, ToSet(target))) = <<>>
  <2>1. Without(target, {}) = target
    BY WithoutNothing
  <2>2. Without(<<>>, ToSet(target)) = <<>>
    BY EmptySeq, ToSetEmpty, WithoutEverything
  <2>. QED  BY <2>1, <2>2, ToSetEmpty, DedupedEmpty
<1>4. Calls("remove", <<>>) = <<>>
  BY CallsEmpty
<1>5. DiffCalls(<<>>, target, ordered) = <<>> \o Calls("add", target)
  BY <1>3, <1>4 DEF DiffCalls
<1>. QED  BY <1>1, <1>2, <1>5, ConcatEmptySeq

-----------------------------------------------------------------------------
(* Types, and with them that a playlist has only items that can be played  *)
(* and a run at work has a target without repetitions and the playlist it  *)
(* is about.                                                               *)

Sound(r) ==
  /\ r.pc \in {"record", "read", "apply"} => r.id \in Ids
  /\ r.pc \in Active => r.target # <<>> /\ IsInjective(r.target)

Playlists ==
  /\ created \subseteq Ids
  /\ content \in [Ids -> Seq(PlayableItems)]
  /\ managed \in [Ids -> Generators \cup {NoGenerator}]
  /\ snapshots \in [Ids -> Seq(Seq(Tracks))]
  /\ \A i \in Ids : Len(snapshots[i]) <= SnapshotsKept
  /\ faults \in 0..MaxFaults
  /\ starts \in 0..MaxStarts

TypeInv ==
  /\ Playlists
  /\ run \in [Syncs -> Run]
  /\ \A p \in Syncs : Sound(run[p])

LEMMA TypeInit == Init => TypeInv
<1>. SUFFICES ASSUME Init PROVE TypeInv
  OBVIOUS
<1>1. NoRun \in Run /\ NoRun.pc = "idle"
  BY EmptySeq DEF NoRun, Run
<1>2. Sound(NoRun)
  BY <1>1 DEF Sound, Active
<1>3. Playlists
  BY EmptySeq DEF Init, Playlists
<1>. QED  BY <1>1, <1>2, <1>3 DEF Init, TypeInv

LEMMA RunTyped ==
  ASSUME TypeInv, NEW p \in Syncs, NEW r \in Run, Sound(r), run' = [run EXCEPT ![p] = r],
         Playlists'
  PROVE  TypeInv'
BY DEF TypeInv

LEMMA PushedType ==
  ASSUME NEW target \in Seq(Tracks), NEW kept \in Seq(Seq(Tracks))
  PROVE  /\ Pushed(target, kept) \in Seq(Seq(Tracks)) /\ Pushed(target, kept) # <<>>
         /\ Len(Pushed(target, kept)) <= SnapshotsKept /\ Head(Pushed(target, kept)) = target
<1>. DEFINE all == <<target>> \o kept
            n == IF Len(kept) + 1 < SnapshotsKept THEN Len(kept) + 1 ELSE SnapshotsKept
            q == SubSeq(all, 1, n)
<1>1. <<target>> \in Seq(Seq(Tracks)) /\ Len(<<target>>) = 1 /\ <<target>>[1] = target
  OBVIOUS
<1>2. all \in Seq(Seq(Tracks)) /\ Len(all) = Len(kept) + 1 /\ all[1] = target /\ Len(kept) \in Nat
  <2>1. Len(all) = Len(<<target>>) + Len(kept) /\ all \in Seq(Seq(Tracks)) /\ Len(kept) \in Nat
    BY <1>1, ConcatProperties, LenProperties
  <2>2. 1 \in 1..(Len(<<target>>) + Len(kept))
    BY <1>1, <2>1
  <2>3. all[1] = <<target>>[1]
    BY <1>1, <2>2, ConcatProperties
  <2>. QED  BY <1>1, <2>1, <2>3
<1>. HIDE DEF all
<1>3. n \in 1..Len(all) /\ n <= SnapshotsKept
  BY <1>2
<1>. HIDE DEF n
<1>4. q \in Seq(Seq(Tracks)) /\ Len(q) = n /\ q[1] = all[1]
  <2>1. \A i \in 1..n : all[i] \in Seq(Tracks)
    BY <1>2, <1>3, ElementOfSeq
  <2>2. 1 \in Int /\ n \in Int /\ 1 <= n /\ n - 1 + 1 = n /\ 1 \in 1..n /\ 1 + 1 - 1 = 1
    BY <1>2, <1>3
  <2>3. q \in Seq(Seq(Tracks)) /\ Len(q) = n
    BY <2>1, <2>2, SubSeqProperties
  <2>4. q[1] = all[1 + 1 - 1]
    BY <2>1, <2>2, SubSeqProperties
  <2>. QED  BY <2>2, <2>3, <2>4
<1>5. Pushed(target, kept) = q
  BY DEF Pushed, all, n
<1>. HIDE DEF q
<1>6. q # <<>> /\ Head(q) = q[1]
  BY <1>3, <1>4, EmptySeq
<1>. QED  BY <1>2, <1>3, <1>4, <1>5, <1>6

LEMMA RemainingType ==
  ASSUME NEW items, NEW calls, NEW target, NEW ordered,
         Remaining(items, calls, target, ordered)
  PROVE  calls \in Seq(Call)
BY CallsType, ConcatProperties DEF Remaining

LEMMA TypeStep == TypeInv /\ [Next]_vars => TypeInv'
<1>. SUFFICES ASSUME TypeInv, [Next]_vars PROVE TypeInv'
  OBVIOUS
<1>1. CASE UNCHANGED vars
  BY <1>1 DEF vars, TypeInv, Playlists
<1>2. ASSUME NEW p \in Syncs, NEW g \in GeneratorsOf[p], NEW target \in Targets,
             NEW apply \in BOOLEAN, Start(p, g, target, apply)
      PROVE  TypeInv'
  <2>. DEFINE d == Deduped(target)
              r == [NoRun EXCEPT !.pc = "lookup", !.generator = g, !.target = d, !.apply = apply]
  <2>1. d \in Seq(Tracks) /\ IsInjective(d) /\ d # <<>>
    <3>1. target \in Seq(Tracks) /\ target # <<>>
      BY <1>2 DEF Start
    <3>2. d \in Seq(Tracks) /\ IsInjective(d) /\ ToSet(d) = ToSet(target)
      BY <3>1, DedupedIs
    <3>3. d # <<>>
      BY <3>1, <3>2, ToSetType, ToSetEmpty
    <3>. QED  BY <3>2, <3>3
  <2>2. run' = [run EXCEPT ![p] = r]
    BY <1>2 DEF Start
  <2>. HIDE DEF d
  <2>3. r \in Run /\ r.pc = "lookup" /\ r.target = d
    BY <2>1, EmptySeq DEF Run, NoRun, Active
  <2>4. Sound(r)
    BY <2>1, <2>3 DEF Sound
  <2>5. Playlists'
    BY <1>2 DEF Start, TypeInv, Playlists
  <2>. HIDE DEF r
  <2>. QED  BY <2>2, <2>3, <2>4, <2>5, RunTyped
<1>3. ASSUME NEW p \in Syncs, NEW pc \in {"lookup", "create", "done", "failed"}, Goto(p, pc),
             run[p].pc \in Active, Playlists'
      PROVE  TypeInv'
  <2>. DEFINE r == [run[p] EXCEPT !.pc = pc]
  <2>1. run[p] \in Run /\ Sound(run[p])
    BY DEF TypeInv
  <2>2. r \in Run /\ r.pc = pc /\ r.target = run[p].target
    BY <2>1 DEF Run, Active
  <2>3. Sound(r)
    BY <1>3, <2>1, <2>2 DEF Sound
  <2>4. run' = [run EXCEPT ![p] = r]
    BY <1>3 DEF Goto
  <2>. HIDE DEF r
  <2>. QED  BY <1>3, <2>2, <2>3, <2>4, RunTyped
<1>4. ASSUME NEW p \in Syncs, NEW pc \in {"record", "read"}, NEW i \in Ids,
             run' = [run EXCEPT ![p].pc = pc, ![p].id = i], run[p].pc \in Active, Playlists'
      PROVE  TypeInv'
  <2>. DEFINE r == [run[p] EXCEPT !.pc = pc, !.id = i]
  <2>1. run[p] \in Run /\ Sound(run[p])
    BY DEF TypeInv
  <2>2. r \in Run /\ r.pc = pc /\ r.target = run[p].target /\ r.id = i
    BY <2>1 DEF Run, Active
  <2>3. Sound(r)
    BY <1>4, <2>1, <2>2 DEF Sound
  <2>4. run' = [run EXCEPT ![p] = r]
    BY <1>4 DEF TypeInv
  <2>. HIDE DEF r
  <2>. QED  BY <1>4, <2>2, <2>3, <2>4, RunTyped
<1>5. ASSUME NEW p \in Syncs, Lookup(p) PROVE TypeInv'
  <2>1. Playlists' /\ run[p].pc \in Active
    BY <1>5 DEF Lookup, TypeInv, Playlists, Active
  <2>2. CASE ManagedBy(run[p].generator) = {}
    <3>1. \E pc \in {"create", "done"} : Goto(p, pc)
      BY <1>5, <2>2 DEF Lookup
    <3>. QED  BY <1>3, <2>1, <3>1
  <2>3. CASE ManagedBy(run[p].generator) # {}
    <3>1. \E i \in Ids : run' = [run EXCEPT ![p].pc = "read", ![p].id = i]
      BY <1>5, <2>3 DEF Lookup, ManagedBy
    <3>. QED  BY <1>4, <2>1, <3>1
  <2>. QED  BY <2>2, <2>3
<1>6. ASSUME NEW p \in Syncs, CreatePlaylist(p) PROVE TypeInv'
  <2>1. PICK i \in Ids \ created :
          /\ created' = created \cup {i}
          /\ run' = [run EXCEPT ![p].pc = "record", ![p].id = i]
    BY <1>6 DEF CreatePlaylist
  <2>2. Playlists' /\ run[p].pc \in Active
    BY <1>6, <2>1 DEF CreatePlaylist, TypeInv, Playlists, Active
  <2>. QED  BY <1>4, <2>1, <2>2
<1>7. ASSUME NEW p \in Syncs, RecordCreated(p) PROVE TypeInv'
  <2>1. run[p].generator \in Generators \cup {NoGenerator}
    BY DEF TypeInv, Run
  <2>2. Playlists' /\ run[p].pc \in Active
    BY <1>7, <2>1 DEF RecordCreated, TypeInv, Playlists, Active
  <2>3. Goto(p, "lookup")
    BY <1>7 DEF RecordCreated
  <2>. QED  BY <1>3, <2>2, <2>3
<1>8. ASSUME NEW p \in Syncs, Read(p) PROVE TypeInv'
  <2>1. Playlists' /\ run[p].pc = "read" /\ run[p].pc \in Active
    BY <1>8 DEF Read, TypeInv, Playlists, Active
  <2>2. CASE \E pc \in {"done", "failed"} : Goto(p, pc)
    BY <1>3, <2>1, <2>2
  <2>3. CASE run[p].apply /\ managed[run[p].id] # NoGenerator
    <3>. DEFINE calls == DiffCalls(TrackIds(content[run[p].id]), run[p].target,
                                   run[p].generator \in Ordered)
                r == [run[p] EXCEPT !.pc = "apply", !.calls = calls, !.changed = calls # <<>>]
    <3>1. run[p] \in Run /\ Sound(run[p])
      BY DEF TypeInv
    <3>2. run[p].id \in Ids /\ run[p].target \in Seq(Tracks) /\ IsInjective(run[p].target)
      BY <2>1, <3>1 DEF Sound, Run
    <3>3. content[run[p].id] \in Seq(PlayableItems)
      BY <3>2 DEF TypeInv, Playlists
    <3>4. calls \in Seq(Call)
      BY <3>2, <3>3, DiffRealizes, RemainingType
    <3>5. run' = [run EXCEPT ![p].pc = "apply", ![p].calls = calls, ![p].changed = calls # <<>>]
      BY <1>8, <2>3 DEF Read
    <3>. HIDE DEF calls
    <3>6. run' = [run EXCEPT ![p] = r]
      BY <3>1, <3>5 DEF TypeInv
    <3>7. r \in Run /\ r.pc = "apply" /\ r.id = run[p].id /\ r.target = run[p].target
      BY <3>1, <3>4 DEF Run, Active
    <3>8. Sound(r)
      BY <2>1, <3>1, <3>2, <3>7 DEF Sound
    <3>. HIDE DEF r
    <3>. QED  BY <2>1, <3>6, <3>7, <3>8, RunTyped
  <2>. QED  BY <1>8, <2>2, <2>3 DEF Read
<1>9. ASSUME NEW p \in Syncs, Send(p) PROVE TypeInv'
  <2>. DEFINE r == [run[p] EXCEPT !.calls = Tail(run[p].calls)]
              call == Head(run[p].calls)
  <2>1. run[p] \in Run /\ Sound(run[p]) /\ run[p].pc = "apply" /\ run[p].calls # <<>>
    BY <1>9 DEF TypeInv, Send
  <2>2. /\ run[p].id \in Ids /\ run[p].calls \in Seq(Call) /\ content[run[p].id] \in Seq(PlayableItems)
    BY <2>1 DEF Sound, Run, TypeInv, Playlists
  <2>3. call \in Call /\ Tail(run[p].calls) \in Seq(Call)
    BY <2>1, <2>2, HeadTailProperties
  <2>4. content' = [content EXCEPT ![run[p].id] = Sent(call, content[run[p].id])]
    BY <1>9 DEF Send
  <2>. HIDE DEF call
  <2>5. Sent(call, content[run[p].id]) \in Seq(PlayableItems)
    BY <2>2, <2>3, SentType
  <2>6. Playlists'
    BY <1>9, <2>2, <2>4, <2>5 DEF Send, TypeInv, Playlists
  <2>7. r \in Run /\ r.pc = "apply" /\ r.id = run[p].id /\ r.target = run[p].target
    BY <2>1, <2>3 DEF Run
  <2>8. Sound(r)
    BY <2>1, <2>7 DEF Sound
  <2>9. run' = [run EXCEPT ![p] = r]
    BY <1>9 DEF Send, TypeInv
  <2>. HIDE DEF r
  <2>. QED  BY <2>6, <2>7, <2>8, <2>9, RunTyped
<1>10. ASSUME NEW p \in Syncs, Finish(p) PROVE TypeInv'
  <2>. DEFINE i == run[p].id
              kept == Pushed(run[p].target, snapshots[i])
  <2>1. run[p] \in Run /\ Sound(run[p]) /\ run[p].pc = "apply" /\ run[p].pc \in Active
    BY <1>10 DEF TypeInv, Finish, Active
  <2>2. i \in Ids /\ run[p].target \in Seq(Tracks) /\ snapshots[i] \in Seq(Seq(Tracks))
    BY <2>1 DEF Sound, Run, TypeInv, Playlists
  <2>3. kept \in Seq(Seq(Tracks)) /\ Len(kept) <= SnapshotsKept
    BY <2>2, PushedType
  <2>4. snapshots' = IF run[p].changed THEN [snapshots EXCEPT ![i] = kept] ELSE snapshots
    BY <1>10 DEF Finish
  <2>. HIDE DEF kept
  <2>5. Playlists'
    <3>1. UNCHANGED <<created, content, managed, faults, starts>>
      BY <1>10 DEF Finish
    <3>2. CASE run[p].changed
      <4>1. snapshots' = [snapshots EXCEPT ![i] = kept]
        BY <2>4, <3>2
      <4>. QED  BY <2>2, <2>3, <3>1, <4>1 DEF TypeInv, Playlists
    <3>3. CASE ~ run[p].changed
      BY <2>4, <3>1, <3>3 DEF TypeInv, Playlists
    <3>. QED  BY <3>2, <3>3
  <2>6. Goto(p, "done")
    BY <1>10 DEF Finish
  <2>. QED  BY <1>3, <2>1, <2>5, <2>6
<1>11. ASSUME NEW p \in Syncs, Fail(p) PROVE TypeInv'
  <2>1. Playlists' /\ run[p].pc \in Active /\ Goto(p, "failed")
    BY <1>11 DEF Fail, Fault, TypeInv, Playlists
  <2>. QED  BY <1>3, <2>1
<1>12. ASSUME NEW i \in Ids, Edit(i) PROVE TypeInv'
  <2>1. PICK items \in BoundedSeq(PlayableItems, MaxItems) : content' = [content EXCEPT ![i] = items]
    BY <1>12 DEF Edit, PlayableItems
  <2>2. items \in Seq(PlayableItems)
    <3>1. PICK m \in 0..MaxItems : items \in [1..m -> PlayableItems]
      BY <2>1 DEF BoundedSeq, SeqOf
    <3>. QED  BY <3>1
  <2>3. Playlists'
    BY <1>12, <2>1, <2>2 DEF Edit, Fault, TypeInv, Playlists
  <2>. QED  BY <1>12, <2>3 DEF Edit, TypeInv
<1>. QED
  BY <1>1, <1>2, <1>5, <1>6, <1>7, <1>8, <1>9, <1>10, <1>11, <1>12 DEF Next, Step

(* Every playlist, record and run has its type, whatever interleaves and    *)
(* fails.                                                                   *)
THEOREM TypeCorrectness == Spec => []TypeOK
<1>1. TypeInv => TypeOK
  <2>1. SUFFICES ASSUME TypeInv PROVE TypeOK
    OBVIOUS
  <2>2. Seq(PlayableItems) \subseteq Playlist
    BY PlayableAreItems DEF Playlist, Items
  <2>3. content \in [Ids -> Playlist]
    <3>1. content \in [Ids -> Seq(PlayableItems)]
      BY <2>1 DEF TypeInv, Playlists
    <3>. QED  BY <2>2, <3>1
  <2>. QED  BY <2>1, <2>3 DEF TypeInv, Playlists, TypeOK
<1>. QED  BY TypeInit, TypeStep, <1>1, PTL DEF Spec

-----------------------------------------------------------------------------
(* A run at work on a playlist has it for itself: it is recorded for the   *)
(* run's generator.  What it still has to send realizes its target, and    *)
(* when it has nothing to send from the start the playlist is not empty.   *)
Placed ==
  \A p \in Syncs : run[p].pc \in {"read", "apply"} => managed[run[p].id] = run[p].generator

Applied ==
  \A p \in Syncs : run[p].pc = "apply" =>
    /\ Remaining(content[run[p].id], run[p].calls, run[p].target, run[p].generator \in Ordered)
    /\ run[p].calls # <<>> => run[p].changed
    /\ ~ run[p].changed => content[run[p].id] # <<>>

Blank(i) == content[i] = <<>> /\ snapshots[i] = <<>>

Held(i) == HoldsSnapshot(i, managed[i] \in Ordered)

BeingChanged(i) == \E p \in Syncs : run[p].pc = "apply" /\ run[p].id = i /\ run[p].changed

(* As long as nothing fails, a playlist that no run is changing is as its   *)
(* newest snapshot says, or has not been touched.                           *)
Current ==
  faults = 0 =>
    \A i \in Ids :
      /\ managed[i] = NoGenerator => Blank(i)
      /\ Blank(i) \/ BeingChanged(i) \/ Held(i)

SyncInv == TypeInv /\ ManagedInv /\ Placed /\ Applied /\ Current

LEMMA SyncInit == Init => SyncInv
<1>. SUFFICES ASSUME Init PROVE SyncInv
  OBVIOUS
<1>1. \A p \in Syncs : run[p].pc = "idle"
  BY DEF Init, NoRun
<1>2. Placed /\ Applied
  BY <1>1 DEF Placed, Applied
<1>3. Current
  BY DEF Init, Current, Blank
<1>. QED  BY <1>2, <1>3, TypeInit, ManagedInit DEF SyncInv

(* A run at work has its playlist for itself.                              *)
LEMMA OnItsOwn ==
  ASSUME OneProcessPerGenerator, SyncInv, NEW p \in Syncs, NEW q \in Syncs, p # q,
         run[p].pc \in {"read", "apply"}, run[q].pc \in {"read", "apply"}
  PROVE  run[p].id # run[q].id
<1>1. run[p].generator \in GeneratorsOf[p] /\ run[q].generator \in GeneratorsOf[q]
  BY DEF SyncInv, ManagedInv, Shape, Active
<1>2. run[p].generator # run[q].generator
  BY <1>1 DEF OneProcessPerGenerator
<1>. QED  BY <1>2 DEF SyncInv, Placed

LEMMA AtWork ==
  ASSUME SyncInv, NEW p \in Syncs, run[p].pc \in {"read", "apply"}
  PROVE  /\ run[p] \in Run /\ run[p].id \in Ids /\ managed[run[p].id] = run[p].generator
         /\ run[p].generator \in Generators /\ run[p].generator # NoGenerator
         /\ run[p].target \in Seq(Tracks) /\ run[p].target # <<>> /\ IsInjective(run[p].target)
         /\ content[run[p].id] \in Seq(PlayableItems) /\ snapshots[run[p].id] \in Seq(Seq(Tracks))
<1>1. run[p].generator \in GeneratorsOf[p]
  BY DEF SyncInv, ManagedInv, Shape, Active
<1>2. run[p].generator \in Generators /\ run[p].generator # NoGenerator
  BY <1>1
<1>3. run[p] \in Run /\ Sound(run[p]) /\ run[p].pc \in Active
  BY DEF SyncInv, TypeInv, Active
<1>4. run[p].id \in Ids /\ run[p].target \in Seq(Tracks) /\ run[p].target # <<>>
      /\ IsInjective(run[p].target)
  BY <1>3 DEF Sound, Run
<1>. QED  BY <1>2, <1>3, <1>4 DEF SyncInv, Placed, TypeInv, Playlists

(* A step of a run that leaves the playlists and what is recorded alone.    *)
LEMMA LeavesAlone ==
  ASSUME SyncInv, NEW p \in Syncs, UNCHANGED <<content, managed, snapshots>>,
         \A q \in Syncs \ {p} : run'[q] = run[q],
         run'[p].pc # "apply",
         run'[p].pc = "read" => managed[run'[p].id] = run'[p].generator,
         faults' = 0 => faults = 0 /\ run[p].pc # "apply"
  PROVE  Placed' /\ Applied' /\ Current'
<1>1. Placed'
  BY DEF SyncInv, Placed
<1>2. Applied'
  <2>1. ASSUME NEW q \in Syncs, run'[q].pc = "apply"
        PROVE  q # p /\ run'[q] = run[q] /\ run[q].pc = "apply"
    BY <2>1
  <2>. QED  BY <2>1 DEF SyncInv, Applied
<1>3. Current'
  <2>1. SUFFICES ASSUME faults' = 0, NEW i \in Ids
                 PROVE  /\ managed'[i] = NoGenerator => Blank(i)'
                        /\ Blank(i)' \/ BeingChanged(i)' \/ Held(i)'
    BY DEF Current
  <2>2. /\ managed[i] = NoGenerator => Blank(i)
        /\ Blank(i) \/ BeingChanged(i) \/ Held(i)
    BY <2>1 DEF SyncInv, Current
  <2>3. Blank(i)' <=> Blank(i)
    BY DEF Blank
  <2>4. Held(i)' <=> Held(i)
    BY DEF Held, HoldsSnapshot
  <2>5. BeingChanged(i) => BeingChanged(i)'
    <3>1. \A q \in Syncs : run[q].pc = "apply" => run'[q] = run[q]
      BY <2>1
    <3>. QED  BY <3>1 DEF BeingChanged
  <2>. QED  BY <2>2, <2>3, <2>4, <2>5
<1>. QED  BY <1>1, <1>2, <1>3

LEMMA SyncMoves ==
  ASSUME SyncInv, NEW p \in Syncs,
         \/ \E g \in GeneratorsOf[p], target \in Targets, apply \in BOOLEAN :
              Start(p, g, target, apply)
         \/ Lookup(p) \/ CreatePlaylist(p) \/ Fail(p)
         \/ Read(p) /\ \E pc \in {"done", "failed"} : Goto(p, pc)
  PROVE  Placed' /\ Applied' /\ Current'
<1>1. /\ DOMAIN run = Syncs /\ faults \in Nat
      /\ \A q \in Syncs : run[q] = [x \in Fields |-> run[q][x]]
  BY DEF SyncInv, TypeInv, ManagedInv, Shape, Playlists
<1>2. /\ UNCHANGED <<content, managed, snapshots>>
      /\ \A q \in Syncs \ {p} : run'[q] = run[q]
  BY <1>1 DEF Start, Lookup, CreatePlaylist, Fail, Read, Goto
<1>3. faults' = 0 => faults = 0 /\ run[p].pc # "apply"
  <2>1. CASE Fail(p)
    <3>1. faults' # 0
      BY <1>1, <2>1 DEF Fail, Fault
    <3>. QED  BY <3>1
  <2>2. CASE ~ Fail(p)
    <3>1. faults' = faults
      BY <2>2 DEF Start, Lookup, CreatePlaylist, Read
    <3>2. run[p].pc # "apply"
      BY <2>2 DEF Start, Lookup, CreatePlaylist, Read, Active
    <3>. QED  BY <3>1, <3>2
  <2>. QED  BY <2>1, <2>2
<1>4. run'[p].pc # "apply" /\ (run'[p].pc = "read" => managed[run'[p].id] = run'[p].generator)
  <2>1. CASE \E g \in GeneratorsOf[p], target \in Targets, apply \in BOOLEAN :
               Start(p, g, target, apply)
    <3>1. run'[p].pc = "lookup"
      BY <1>1, <2>1 DEF Start, NoRun
    <3>. QED  BY <3>1
  <2>2. CASE CreatePlaylist(p)
    <3>1. run'[p].pc = "record"
      BY <1>1, <2>2 DEF CreatePlaylist, Fields
    <3>. QED  BY <3>1
  <2>3. ASSUME NEW pc \in {"create", "done", "failed"}, Goto(p, pc)
        PROVE  run'[p].pc = pc
    BY <1>1, <2>3 DEF Goto, Fields
  <2>4. CASE Fail(p) \/ \E pc \in {"done", "failed"} : Goto(p, pc)
    BY <2>3, <2>4 DEF Fail
  <2>5. CASE Lookup(p)
    <3>1. CASE ManagedBy(run[p].generator) = {}
      BY <2>3, <2>5, <3>1 DEF Lookup
    <3>2. CASE ManagedBy(run[p].generator) # {}
      <4>1. PICK i \in ManagedBy(run[p].generator) :
              run' = [run EXCEPT ![p].pc = "read", ![p].id = i]
        BY <2>5, <3>2 DEF Lookup
      <4>2. run'[p].pc = "read" /\ run'[p].id = i /\ run'[p].generator = run[p].generator
        BY <1>1, <4>1 DEF Fields
      <4>. QED  BY <4>2 DEF ManagedBy
    <3>. QED  BY <3>1, <3>2
  <2>. QED  BY <2>1, <2>2, <2>4, <2>5
<1>. QED  BY <1>2, <1>3, <1>4, LeavesAlone

LEMMA SyncRecords ==
  ASSUME OneProcessPerGenerator, SyncInv, NEW p \in Syncs, RecordCreated(p)
  PROVE  Placed' /\ Applied' /\ Current'
<1>. DEFINE i == run[p].id
            g == run[p].generator
<1>1. /\ DOMAIN run = Syncs /\ \A q \in Syncs : run[q] = [x \in Fields |-> run[q][x]]
      /\ managed \in [Ids -> Generators \cup {NoGenerator}]
  BY DEF SyncInv, TypeInv, ManagedInv, Shape, Playlists
<1>2. /\ run[p].pc = "record" /\ UNCHANGED <<content, snapshots, faults>>
      /\ managed' = [managed EXCEPT ![i] = g] /\ run' = [run EXCEPT ![p].pc = "lookup"]
  BY DEF RecordCreated, Goto
<1>3. run'[p].pc = "lookup" /\ \A q \in Syncs \ {p} : run'[q] = run[q]
  BY <1>1, <1>2 DEF Fields
<1>4. i \in Ids /\ managed[i] = NoGenerator
  BY <1>2 DEF SyncInv, ManagedInv, Shape, Unmanaged
<1>5. g \in Generators
  BY <1>2 DEF SyncInv, ManagedInv, Shape, Active
<1>6. managed'[i] = g /\ \A j \in Ids \ {i} : managed'[j] = managed[j]
  BY <1>1, <1>2, <1>4
<1>7. ASSUME NEW q \in Syncs, run'[q].pc \in {"read", "apply"}
      PROVE  /\ q # p /\ run'[q] = run[q] /\ run[q].pc \in {"read", "apply"}
             /\ run[q].id # i /\ run[q].id \in Ids
  <2>1. q # p /\ run'[q] = run[q] /\ run[q].pc \in {"read", "apply"}
    BY <1>3, <1>7
  <2>2. run[q].id \in Ids /\ managed[run[q].id] # NoGenerator
    BY <2>1, AtWork
  <2>. QED  BY <1>4, <2>1, <2>2
<1>8. Placed'
  BY <1>6, <1>7 DEF SyncInv, Placed
<1>9. Applied'
  <2>1. \A q \in Syncs : run'[q].pc = "apply" => run'[q] = run[q] /\ run[q].pc = "apply"
    BY <1>7
  <2>. QED  BY <1>2, <2>1 DEF SyncInv, Applied
<1>10. Current'
  <2>1. SUFFICES ASSUME faults' = 0, NEW j \in Ids
                 PROVE  /\ managed'[j] = NoGenerator => Blank(j)'
                        /\ Blank(j)' \/ BeingChanged(j)' \/ Held(j)'
    BY DEF Current
  <2>2. /\ managed[j] = NoGenerator => Blank(j)
        /\ Blank(j) \/ BeingChanged(j) \/ Held(j)
    BY <1>2, <2>1 DEF SyncInv, Current
  <2>3. Blank(j)' <=> Blank(j)
    BY <1>2 DEF Blank
  <2>4. BeingChanged(j) => BeingChanged(j)'
    <3>1. \A q \in Syncs : run[q].pc = "apply" => run'[q] = run[q]
      BY <1>2, <1>3
    <3>. QED  BY <3>1 DEF BeingChanged
  <2>5. CASE j = i
    BY <1>4, <1>5, <1>6, <2>2, <2>3, <2>5
  <2>6. CASE j # i
    <3>1. Held(j)' <=> Held(j)
      BY <1>2, <1>6, <2>6 DEF Held, HoldsSnapshot
    <3>. QED  BY <1>6, <2>2, <2>3, <2>4, <2>6, <3>1
  <2>. QED  BY <2>5, <2>6
<1>. QED  BY <1>8, <1>9, <1>10

LEMMA SyncReads ==
  ASSUME SyncInv, NEW p \in Syncs, Read(p), run[p].apply, managed[run[p].id] # NoGenerator
  PROVE  Placed' /\ Applied' /\ Current'
<1>. DEFINE i == run[p].id
            ordered == run[p].generator \in Ordered
            calls == DiffCalls(TrackIds(content[i]), run[p].target, ordered)
<1>1. /\ DOMAIN run = Syncs /\ \A q \in Syncs : run[q] = [x \in Fields |-> run[q][x]]
  BY DEF SyncInv, ManagedInv, Shape
<1>2. /\ run[p].pc = "read" /\ UNCHANGED <<content, managed, snapshots, faults>>
      /\ run' = [run EXCEPT ![p].pc = "apply", ![p].calls = calls, ![p].changed = calls # <<>>]
  BY DEF Read
<1>3. /\ i \in Ids /\ managed[i] = run[p].generator /\ content[i] \in Seq(PlayableItems)
      /\ run[p].target \in Seq(Tracks) /\ run[p].target # <<>> /\ IsInjective(run[p].target)
  BY <1>2, AtWork
<1>4. Remaining(content[i], calls, run[p].target, ordered)
  BY <1>3, DiffRealizes
<1>5. calls = <<>> => content[i] # <<>>
  BY <1>3, NothingToSend
<1>. HIDE DEF calls
<1>6. \A q \in Syncs \ {p} : run'[q] = run[q]
  BY <1>1, <1>2
<1>7. /\ run'[p].pc = "apply" /\ run'[p].calls = calls /\ run'[p].changed = (calls # <<>>)
      /\ run'[p].id = i /\ run'[p].generator = run[p].generator /\ run'[p].target = run[p].target
  BY <1>1, <1>2 DEF Fields
<1>8. Placed'
  <2>1. ASSUME NEW q \in Syncs, run'[q].pc \in {"read", "apply"}
        PROVE  managed[run'[q].id] = run'[q].generator
    <3>1. CASE q = p
      BY <1>3, <1>7, <3>1
    <3>2. CASE q # p
      BY <1>6, <2>1, <3>2 DEF SyncInv, Placed
    <3>. QED  BY <3>1, <3>2
  <2>. QED  BY <1>2, <2>1 DEF Placed
<1>9. Applied'
  <2>1. ASSUME NEW q \in Syncs, run'[q].pc = "apply"
        PROVE  /\ Remaining(content[run'[q].id], run'[q].calls, run'[q].target,
                            run'[q].generator \in Ordered)
               /\ run'[q].calls # <<>> => run'[q].changed
               /\ ~ run'[q].changed => content[run'[q].id] # <<>>
    <3>1. CASE q = p
      BY <1>4, <1>5, <1>7, <3>1
    <3>2. CASE q # p
      BY <1>6, <2>1, <3>2 DEF SyncInv, Applied
    <3>. QED  BY <3>1, <3>2
  <2>. QED  BY <1>2, <2>1 DEF Applied
<1>10. Current'
  <2>1. SUFFICES ASSUME faults' = 0, NEW j \in Ids
                 PROVE  /\ managed'[j] = NoGenerator => Blank(j)'
                        /\ Blank(j)' \/ BeingChanged(j)' \/ Held(j)'
    BY DEF Current
  <2>2. /\ managed[j] = NoGenerator => Blank(j)
        /\ Blank(j) \/ BeingChanged(j) \/ Held(j)
    BY <1>2, <2>1 DEF SyncInv, Current
  <2>3. (Blank(j)' <=> Blank(j)) /\ (Held(j)' <=> Held(j))
    BY <1>2 DEF Blank, Held, HoldsSnapshot
  <2>4. BeingChanged(j) => BeingChanged(j)'
    <3>1. \A q \in Syncs : run[q].pc = "apply" => run'[q] = run[q]
      BY <1>2, <1>6
    <3>. QED  BY <3>1 DEF BeingChanged
  <2>. QED  BY <1>2, <2>2, <2>3, <2>4
<1>. QED  BY <1>8, <1>9, <1>10

LEMMA SyncSends ==
  ASSUME OneProcessPerGenerator, SyncInv, NEW p \in Syncs, Send(p)
  PROVE  Placed' /\ Applied' /\ Current'
<1>. DEFINE i == run[p].id
            left == Tail(run[p].calls)
            after == Sent(Head(run[p].calls), content[i])
<1>1. /\ DOMAIN run = Syncs /\ \A q \in Syncs : run[q] = [x \in Fields |-> run[q][x]]
      /\ DOMAIN content = Ids
  BY DEF SyncInv, TypeInv, ManagedInv, Shape, Playlists
<1>2. /\ run[p].pc = "apply" /\ run[p].calls # <<>> /\ UNCHANGED <<managed, snapshots, faults>>
      /\ content' = [content EXCEPT ![i] = after] /\ run' = [run EXCEPT ![p].calls = left]
  BY DEF Send
<1>3. /\ i \in Ids /\ managed[i] = run[p].generator /\ managed[i] # NoGenerator
      /\ content[i] \in Seq(PlayableItems)
  BY <1>2, AtWork
<1>4. /\ Remaining(content[i], run[p].calls, run[p].target, run[p].generator \in Ordered)
      /\ run[p].changed
  BY <1>2 DEF SyncInv, Applied
<1>5. Remaining(after, left, run[p].target, run[p].generator \in Ordered)
  BY <1>2, <1>3, <1>4, SentRealizes
<1>. HIDE DEF left, after
<1>6. /\ \A q \in Syncs \ {p} : run'[q] = run[q]
      /\ content'[i] = after /\ \A j \in Ids \ {i} : content'[j] = content[j]
  BY <1>1, <1>2, <1>3
<1>7. /\ run'[p].pc = "apply" /\ run'[p].calls = left /\ run'[p].changed = run[p].changed
      /\ run'[p].id = i /\ run'[p].generator = run[p].generator /\ run'[p].target = run[p].target
  BY <1>1, <1>2 DEF Fields
<1>8. Placed'
  <2>1. ASSUME NEW q \in Syncs, run'[q].pc \in {"read", "apply"}
        PROVE  managed[run'[q].id] = run'[q].generator
    <3>1. CASE q = p
      BY <1>3, <1>7, <3>1
    <3>2. CASE q # p
      BY <1>6, <2>1, <3>2 DEF SyncInv, Placed
    <3>. QED  BY <3>1, <3>2
  <2>. QED  BY <1>2, <2>1 DEF Placed
<1>9. Applied'
  <2>1. ASSUME NEW q \in Syncs, run'[q].pc = "apply"
        PROVE  /\ Remaining(content'[run'[q].id], run'[q].calls, run'[q].target,
                            run'[q].generator \in Ordered)
               /\ run'[q].calls # <<>> => run'[q].changed
               /\ ~ run'[q].changed => content'[run'[q].id] # <<>>
    <3>1. CASE q = p
      BY <1>4, <1>5, <1>6, <1>7, <3>1
    <3>2. CASE q # p
      <4>1. run'[q] = run[q] /\ run[q].pc = "apply"
        BY <1>6, <2>1, <3>2
      <4>2. run[q].id \in Ids \ {i}
        BY <1>2, <3>2, <4>1, OnItsOwn, AtWork
      <4>3. content'[run[q].id] = content[run[q].id]
        BY <1>6, <4>2
      <4>. QED  BY <4>1, <4>3 DEF SyncInv, Applied
    <3>. QED  BY <3>1, <3>2
  <2>. QED  BY <2>1 DEF Applied
<1>10. Current'
  <2>1. SUFFICES ASSUME faults' = 0, NEW j \in Ids
                 PROVE  /\ managed'[j] = NoGenerator => Blank(j)'
                        /\ Blank(j)' \/ BeingChanged(j)' \/ Held(j)'
    BY DEF Current
  <2>2. /\ managed[j] = NoGenerator => Blank(j)
        /\ Blank(j) \/ BeingChanged(j) \/ Held(j)
    BY <1>2, <2>1 DEF SyncInv, Current
  <2>3. CASE j = i
    <3>1. BeingChanged(i)'
      BY <1>4, <1>7 DEF BeingChanged
    <3>. QED  BY <1>2, <1>3, <2>3, <3>1
  <2>4. CASE j # i
    <3>1. (Blank(j)' <=> Blank(j)) /\ (Held(j)' <=> Held(j))
      BY <1>2, <1>6, <2>4 DEF Blank, Held, HoldsSnapshot
    <3>2. BeingChanged(j) => BeingChanged(j)'
      <4>1. ASSUME NEW q \in Syncs, run[q].id = j, run[q].pc = "apply"
            PROVE  run'[q] = run[q]
        BY <1>6, <2>4, <4>1
      <4>. QED  BY <4>1 DEF BeingChanged
    <3>. QED  BY <1>2, <2>2, <3>1, <3>2
  <2>. QED  BY <2>3, <2>4
<1>. QED  BY <1>8, <1>9, <1>10

(* Where Finish leaves the playlist, recorded or not.                       *)
LEMMA FinishHolds ==
  ASSUME OneProcessPerGenerator, SyncInv, NEW p \in Syncs, Finish(p), faults = 0
  PROVE  HoldsSnapshot(run[p].id, run[p].generator \in Ordered)'
<1>. DEFINE i == run[p].id
            ordered == run[p].generator \in Ordered
<1>1. /\ run[p].pc = "apply" /\ run[p].calls = <<>> /\ content' = content
      /\ run' = [run EXCEPT ![p].pc = "done"]
  BY DEF Finish, Goto
<1>2. /\ i \in Ids /\ managed[i] = run[p].generator /\ managed[i] # NoGenerator
      /\ content[i] \in Seq(PlayableItems) /\ snapshots[i] \in Seq(Seq(Tracks))
      /\ run[p].target \in Seq(Tracks)
  BY <1>1, AtWork
<1>3. Realized(content[i], run[p].target, ordered)
  <2>1. Remaining(content[i], <<>>, run[p].target, ordered)
    BY <1>1 DEF SyncInv, Applied
  <2>. QED  BY <1>2, <2>1, NoneRealizes
<1>4. run'[p].id = i /\ run'[p].generator = run[p].generator
  <2>1. /\ DOMAIN run = Syncs /\ run[p] = [x \in Fields |-> run[p][x]]
    BY DEF SyncInv, ManagedInv, Shape
  <2>. QED  BY <1>1, <2>1 DEF Fields
<1>5. snapshots'[i] # <<>> /\ Realized(content[i], Head(snapshots'[i]), ordered)
  <2>1. CASE run[p].changed
    <3>. DEFINE kept == Pushed(run[p].target, snapshots[i])
    <3>1. kept # <<>> /\ Head(kept) = run[p].target
      BY <1>2, PushedType
    <3>2. snapshots' = [snapshots EXCEPT ![i] = kept]
      BY <2>1 DEF Finish
    <3>. HIDE DEF kept
    <3>3. snapshots'[i] = kept
      BY <1>2, <3>2 DEF SyncInv, TypeInv, Playlists
    <3>. QED  BY <1>3, <3>1, <3>3
  <2>2. CASE ~ run[p].changed
    <3>1. content[i] # <<>>
      BY <1>1, <2>2 DEF SyncInv, Applied
    <3>2. ~ Blank(i)
      BY <3>1 DEF Blank
    <3>3. ~ BeingChanged(i)
      <4>1. ASSUME NEW q \in Syncs, run[q].pc = "apply", run[q].id = i
            PROVE  q = p
        BY <1>1, <4>1, OnItsOwn
      <4>. QED  BY <2>2, <4>1 DEF BeingChanged
    <3>4. Held(i)
      BY <1>2, <3>2, <3>3 DEF SyncInv, Current
    <3>5. snapshots' = snapshots
      BY <2>2 DEF Finish
    <3>. QED  BY <1>2, <3>4, <3>5 DEF Held, HoldsSnapshot
  <2>. QED  BY <2>1, <2>2
<1>. QED  BY <1>1, <1>4, <1>5 DEF HoldsSnapshot

LEMMA SyncFinishes ==
  ASSUME OneProcessPerGenerator, SyncInv, NEW p \in Syncs, Finish(p)
  PROVE  Placed' /\ Applied' /\ Current'
<1>. DEFINE i == run[p].id
<1>1. /\ DOMAIN run = Syncs /\ \A q \in Syncs : run[q] = [x \in Fields |-> run[q][x]]
      /\ DOMAIN snapshots = Ids
  BY DEF SyncInv, TypeInv, ManagedInv, Shape, Playlists
<1>2. /\ run[p].pc = "apply" /\ UNCHANGED <<content, managed, faults>>
      /\ run' = [run EXCEPT ![p].pc = "done"]
      /\ snapshots' = IF run[p].changed THEN [snapshots EXCEPT ![i] = Pushed(run[p].target, snapshots[i])]
                                        ELSE snapshots
  BY DEF Finish, Goto
<1>3. i \in Ids /\ managed[i] = run[p].generator /\ managed[i] # NoGenerator
  BY <1>2, AtWork
<1>4. /\ run'[p].pc = "done" /\ run'[p].id = i /\ run'[p].generator = run[p].generator
      /\ \A q \in Syncs \ {p} : run'[q] = run[q]
      /\ \A j \in Ids \ {i} : snapshots'[j] = snapshots[j]
  BY <1>1, <1>2 DEF Fields
<1>5. Placed'
  BY <1>2, <1>4 DEF SyncInv, Placed
<1>6. Applied'
  <2>1. \A q \in Syncs : run'[q].pc = "apply" => run'[q] = run[q] /\ run[q].pc = "apply"
    BY <1>4
  <2>. QED  BY <1>2, <2>1 DEF SyncInv, Applied
<1>7. Current'
  <2>1. SUFFICES ASSUME faults' = 0, NEW j \in Ids
                 PROVE  /\ managed'[j] = NoGenerator => Blank(j)'
                        /\ Blank(j)' \/ BeingChanged(j)' \/ Held(j)'
    BY DEF Current
  <2>2. /\ managed[j] = NoGenerator => Blank(j)
        /\ Blank(j) \/ BeingChanged(j) \/ Held(j)
    BY <1>2, <2>1 DEF SyncInv, Current
  <2>3. CASE j = i
    <3>1. HoldsSnapshot(run[p].id, run[p].generator \in Ordered)'
      BY <1>2, <2>1, FinishHolds
    <3>2. Held(i)'
      BY <1>2, <1>3, <1>4, <3>1 DEF Held, HoldsSnapshot
    <3>. QED  BY <1>2, <1>3, <2>3, <3>2
  <2>4. CASE j # i
    <3>1. (Blank(j)' <=> Blank(j)) /\ (Held(j)' <=> Held(j))
      BY <1>2, <1>4, <2>4 DEF Blank, Held, HoldsSnapshot
    <3>2. BeingChanged(j) => BeingChanged(j)'
      <4>1. ASSUME NEW q \in Syncs, run[q].id = j
            PROVE  run'[q] = run[q]
        BY <1>4, <2>4, <4>1
      <4>. QED  BY <4>1 DEF BeingChanged
    <3>. QED  BY <1>2, <2>2, <3>1, <3>2
  <2>. QED  BY <2>3, <2>4
<1>. QED  BY <1>5, <1>6, <1>7

LEMMA SyncStep == OneProcessPerGenerator /\ SyncInv /\ [Next]_vars => SyncInv'
<1>. SUFFICES ASSUME OneProcessPerGenerator, SyncInv, [Next]_vars PROVE SyncInv'
  OBVIOUS
<1>1. TypeInv' /\ ManagedInv'
  BY TypeStep, ManagedStep DEF SyncInv
<1>2. CASE UNCHANGED vars
  <2>1. Placed' /\ Applied' /\ Current'
    BY <1>2 DEF SyncInv, vars, Placed, Applied, Current, Blank, BeingChanged, Held, HoldsSnapshot
  <2>. QED  BY <1>1, <2>1 DEF SyncInv
<1>3. ASSUME NEW p \in Syncs, Step(p) \/ Fail(p)
                \/ \E g \in GeneratorsOf[p], target \in Targets, apply \in BOOLEAN :
                     Start(p, g, target, apply)
      PROVE  Placed' /\ Applied' /\ Current'
  <2>1. CASE Read(p)
    <3>1. CASE run[p].apply /\ managed[run[p].id] # NoGenerator
      BY <2>1, <3>1, SyncReads
    <3>2. CASE ~ (run[p].apply /\ managed[run[p].id] # NoGenerator)
      <4>1. \E pc \in {"done", "failed"} : Goto(p, pc)
        BY <2>1, <3>2 DEF Read
      <4>. QED  BY <2>1, <4>1, SyncMoves
    <3>. QED  BY <3>1, <3>2
  <2>2. CASE ~ Read(p)
    BY <1>3, <2>2, SyncMoves, SyncRecords, SyncSends, SyncFinishes DEF Step
  <2>. QED  BY <2>1, <2>2
<1>4. ASSUME NEW i \in Ids, Edit(i) PROVE Placed' /\ Applied' /\ Current'
  <2>1. /\ \A p \in Syncs : run[p].pc \notin Active
        /\ UNCHANGED <<managed, run>> /\ faults' = faults + 1 /\ faults \in Nat
    BY <1>4 DEF Edit, Fault, SyncInv, TypeInv, Playlists
  <2>2. Placed' /\ Applied'
    BY <2>1 DEF Placed, Applied, Active
  <2>3. Current'
    BY <2>1 DEF Current
  <2>. QED  BY <2>2, <2>3
<1>5. CASE Next
  BY <1>1, <1>3, <1>4, <1>5 DEF Next, SyncInv
<1>. QED  BY <1>2, <1>5

(* "changes are overwritten": wherever earlier runs failed and whatever was *)
(* edited in between, a run that gets to its end has made the playlist what *)
(* its target asks for, for targets, playlists and chunks of any length.    *)
THEOREM SyncRealizes ==
  ASSUME OneProcessPerGenerator
  PROVE  Spec => SyncRealizesTarget
<1>1. ASSUME SyncInv, NEW p \in Syncs, Finish(p)
      PROVE  Realized(content[run[p].id], run[p].target, run[p].generator \in Ordered)
  <2>1. run[p].pc = "apply" /\ run[p].calls = <<>>
    BY <1>1 DEF Finish
  <2>2. content[run[p].id] \in Seq(PlayableItems)
    BY <1>1, <2>1, AtWork
  <2>3. Remaining(content[run[p].id], <<>>, run[p].target, run[p].generator \in Ordered)
    BY <1>1, <2>1 DEF SyncInv, Applied
  <2>. QED  BY <2>2, <2>3, NoneRealizes
<1>2. SyncInv /\ [Next]_vars =>
        [\A p \in Syncs :
           Finish(p) => Realized(content[run[p].id], run[p].target, run[p].generator \in Ordered)]_vars
  BY <1>1
<1>3. SyncInv /\ [Next]_vars => SyncInv'
  BY SyncStep
<1>. QED  BY SyncInit, <1>2, <1>3, PTL DEF Spec, SyncRealizesTarget

(* When nothing fails and nobody edits it, a playlist a run is done with    *)
(* is what its newest snapshot says: also when the run found nothing to     *)
(* change, and so recorded none.                                            *)
THEOREM SnapshotsAreCurrent ==
  ASSUME OneProcessPerGenerator
  PROVE  Spec => SnapshotIsCurrent
<1>1. SyncInv /\ [Next]_vars =>
        [\A p \in Syncs :
           Finish(p) /\ faults = 0 =>
             HoldsSnapshot(run[p].id, run[p].generator \in Ordered)']_vars
  BY FinishHolds
<1>2. SyncInv /\ [Next]_vars => SyncInv'
  BY SyncStep
<1>. QED  BY SyncInit, <1>1, <1>2, PTL DEF Spec, SnapshotIsCurrent
=============================================================================
