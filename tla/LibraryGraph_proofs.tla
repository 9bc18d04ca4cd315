------------------------ MODULE LibraryGraph_proofs ------------------------
(***************************************************************************)
(* The properties of LibraryGraph, for any users, tracks and dates.  The   *)
(* inductive invariant has three parts besides the types: what is flagged, *)
(* queued or liked was served to the token it is filed under; what is      *)
(* known of a track under one token is no later than the pages still       *)
(* queued for it, nor than the library as it is; and these pages are in    *)
(* the order of their dates.                                               *)
(***************************************************************************)
EXTENDS LibraryGraph, TLAPS

USE LibraryAssumption

(* A queued page is of the library of its bearer.                           *)
PagesServed ==
  \A i \in 1..Len(stores) : stores[i].track \in served[Bearer(stores[i].user)]

FlagsServed == flagged \subseteq served[Owner]

Ownership == PagesServed /\ FlagsServed /\ NoGhostOwnership

(* The pages of one track under one token, queued as the user liked it.     *)
PagesInOrder ==
  \A i, j \in 1..Len(stores) :
    i < j /\ stores[i].track = stores[j].track
          /\ Bearer(stores[i].user) = Bearer(stores[j].user)
      => stores[i].at <= stores[j].at

(* What the graph says of a track under a token, by edge or by flag.        *)
Known(u, t, d) == liked[u][t] <= d /\ (u = Owner => flag[t] <= d)

KnownAfter(u, t, d) == liked'[u][t] <= d /\ (u = Owner => flag'[t] <= d)

KnownBeforePages ==
  \A i \in 1..Len(stores) : Known(Bearer(stores[i].user), stores[i].track, stores[i].at)

PagesBeforeLibrary ==
  \A i \in 1..Len(stores) :
    LET u == Bearer(stores[i].user)
        t == stores[i].track
    IN stores[i].at <= now /\ (library[u][t] # 0 => stores[i].at <= library[u][t])

KnownBeforeLibrary ==
  \A u \in Users, t \in Tracks :
    Known(u, t, now) /\ (library[u][t] # 0 => Known(u, t, library[u][t]))

LibraryBeforeNow == \A u \in Users, t \in Tracks : library[u][t] <= now

Chronology ==
  /\ PagesInOrder /\ KnownBeforePages /\ PagesBeforeLibrary
  /\ KnownBeforeLibrary /\ LibraryBeforeNow

-----------------------------------------------------------------------------
(* The queue.                                                               *)
LEMMA Taken ==
  ASSUME NEW S, NEW s \in Seq(S), s # <<>>
  PROVE  /\ Head(s) = s[1] /\ Head(s) \in S /\ 1 \in 1..Len(s)
         /\ Tail(s) \in Seq(S)
         /\ Len(Tail(s)) = Len(s) - 1
         /\ \A i \in 1..Len(Tail(s)) : Tail(s)[i] = s[i + 1] /\ i + 1 \in 1..Len(s)
  OBVIOUS

LEMMA Queued ==
  ASSUME NEW S, NEW s \in Seq(S), NEW e \in S
  PROVE  /\ Append(s, e) \in Seq(S)
         /\ Len(Append(s, e)) = Len(s) + 1
         /\ Append(s, e)[Len(s) + 1] = e
         /\ \A i \in 1..Len(s) : Append(s, e)[i] = s[i]
  OBVIOUS

LEMMA PageFields ==
  ASSUME TypeOK, NEW i \in 1..Len(stores)
  PROVE  /\ stores[i] \in PageType
         /\ stores[i].user \in Users \cup {Legacy} /\ Bearer(stores[i].user) \in Users
         /\ stores[i].track \in Tracks /\ stores[i].at \in Dates /\ stores[i].at # 0
<1>1. stores[i] \in PageType
  BY DEF TypeOK
<1> QED
  BY <1>1 DEF PageType, Bearer

-----------------------------------------------------------------------------
LEMMA TypeInit == Init => TypeOK
<1> SUFFICES ASSUME Init PROVE TypeOK
  OBVIOUS
<1>1. stores \in Seq(PageType) /\ Len(stores) <= MaxPages
  BY DEF Init
<1>2. 0 \in Dates
  BY DEF Dates
<1>3. /\ library \in [Users -> [Tracks -> Dates]]
      /\ liked \in [Users -> [Tracks -> Dates]]
      /\ served \in [Users -> SUBSET Tracks]
  BY <1>2 DEF Init
<1>4. flag \in [Tracks -> Dates] /\ \A t \in Tracks : flag[t] # 0 <=> t \in flagged
  BY <1>2 DEF Init
<1> QED
  BY <1>1, <1>2, <1>3, <1>4 DEF Init, TypeOK

LEMMA TypeNext == TypeOK /\ [Next]_vars => TypeOK'
<1> SUFFICES ASSUME TypeOK, [Next]_vars PROVE TypeOK'
  OBVIOUS
<1> USE DEF TypeOK, Dates
<1>1. ASSUME NEW u \in Users, NEW t \in Tracks, Like(u, t) PROVE TypeOK'
  BY <1>1 DEF Like
<1>2. ASSUME NEW u \in Users, NEW t \in Tracks, Unlike(u, t) PROVE TypeOK'
  BY <1>2 DEF Unlike
<1>3. ASSUME NEW user \in Users \cup {Legacy}, NEW t \in Tracks, Fetch_Page(user, t)
      PROVE  TypeOK'
  <2> DEFINE page == [user |-> user, track |-> t, at |-> library[Bearer(user)][t]]
  <2>1. Bearer(user) \in Users
    BY DEF Bearer
  <2>2. page \in PageType
    BY <1>3, <2>1 DEF Fetch_Page, PageType
  <2>3. stores' \in Seq(PageType) /\ Len(stores') <= MaxPages
    BY <1>3, <2>2, Queued DEF Fetch_Page
  <2>4. served' \in [Users -> SUBSET Tracks]
    BY <1>3, <2>1 DEF Fetch_Page
  <2> QED
    BY <1>3, <2>3, <2>4 DEF Fetch_Page
<1>4. CASE Store_Page
  <2> DEFINE page == Head(stores)
  <2>1. /\ stores' \in Seq(PageType) /\ Len(stores') <= MaxPages
        /\ page \in PageType
    BY <1>4, Taken DEF Store_Page
  <2>2. page.track \in Tracks /\ page.at \in Dates /\ page.at # 0
        /\ page.user \in Users \cup {Legacy}
    BY <2>1 DEF PageType
  <2>3. flagged' \subseteq Tracks /\ flag' \in [Tracks -> Dates]
        /\ \A t \in Tracks : flag'[t] # 0 <=> t \in flagged'
    BY <1>4, <2>2 DEF Store_Page, LegacyProps
  <2>4. liked' \in [Users -> [Tracks -> Dates]]
    BY <1>4, <2>2 DEF Store_Page, Edges
  <2> QED
    BY <1>4, <2>1, <2>3, <2>4 DEF Store_Page
<1>5. CASE Migrate_Guard
  BY <1>5 DEF Migrate_Guard
<1>6. CASE Migrate_Lift
  <2>1. \A t \in Tracks : Lift(t) \in Dates
    BY DEF Lift
  <2> QED
    BY <1>6, <2>1 DEF Migrate_Lift
<1>7. CASE Migrate_Fails
  BY <1>7 DEF Migrate_Fails
<1>8. CASE Migrate_Drop
  BY <1>8 DEF Migrate_Drop
<1>9. CASE UNCHANGED vars
  BY <1>9 DEF vars
<1> QED
  BY <1>1, <1>2, <1>3, <1>4, <1>5, <1>6, <1>7, <1>8, <1>9 DEF Next

(* The graph keeps its types, and the two legacy properties of a node come  *)
(* and go together.                                                         *)
THEOREM LibraryTypes == Spec => []TypeOK
  BY TypeInit, TypeNext, PTL DEF Spec

-----------------------------------------------------------------------------
LEMMA OwnershipInit == Init => Ownership
  BY DEF Init, Ownership, PagesServed, FlagsServed, NoGhostOwnership

LEMMA OwnershipNext == TypeOK /\ TypeOK' /\ Ownership /\ [Next]_vars => Ownership'
<1> SUFFICES ASSUME TypeOK, TypeOK', Ownership, [Next]_vars PROVE Ownership'
  OBVIOUS
<1> USE DEF Ownership, PagesServed, FlagsServed, NoGhostOwnership
<1>1. ASSUME NEW u \in Users, NEW t \in Tracks, Like(u, t) \/ Unlike(u, t) PROVE Ownership'
  BY <1>1 DEF Like, Unlike
<1>2. ASSUME NEW user \in Users \cup {Legacy}, NEW t \in Tracks, Fetch_Page(user, t)
      PROVE  Ownership'
  <2> DEFINE page == [user |-> user, track |-> t, at |-> library[Bearer(user)][t]]
  <2>1. Bearer(user) \in Users
    BY DEF Bearer
  <2>2. page \in PageType
    BY <1>2, <2>1 DEF Fetch_Page, PageType, TypeOK, Dates
  <2>3. /\ \A u \in Users : served[u] \subseteq served'[u]
        /\ t \in served'[Bearer(user)]
    BY <1>2, <2>1 DEF Fetch_Page, TypeOK
  <2>4. ASSUME NEW i \in 1..Len(stores')
        PROVE  stores'[i].track \in served'[Bearer(stores'[i].user)]
    <3>1. CASE i = Len(stores) + 1
      BY <1>2, <2>2, <2>3, <3>1, Queued DEF Fetch_Page, TypeOK
    <3>2. CASE i \in 1..Len(stores)
      <4>1. stores'[i] = stores[i]
        BY <1>2, <2>2, <3>2, Queued DEF Fetch_Page, TypeOK
      <4> QED
        BY <2>3, <3>2, <4>1, PageFields
    <3>3. Len(stores') = Len(stores) + 1
      BY <1>2, <2>2, Queued DEF Fetch_Page, TypeOK
    <3>4. Len(stores) \in Nat
      BY DEF TypeOK
    <3> QED
      BY <3>1, <3>2, <3>3, <3>4
  <2>5. liked' = liked /\ flagged' = flagged
    BY <1>2 DEF Fetch_Page
  <2> QED
    BY <2>3, <2>4, <2>5
<1>3. CASE Store_Page
  <2>1. /\ stores # <<>> /\ stores \in Seq(PageType) /\ served' = served
        /\ stores' = Tail(stores) /\ 1 \in 1..Len(stores) /\ Head(stores) = stores[1]
    BY <1>3, Taken DEF Store_Page, TypeOK
  <2>2. PagesServed'
    BY <2>1, Taken
  <2>3. Head(stores).track \in served[Bearer(Head(stores).user)]
    BY <2>1
  <2>4. FlagsServed'
    BY <1>3, <2>1, <2>3 DEF Store_Page, LegacyProps, Bearer
  <2>5. NoGhostOwnership'
    <3>1. Head(stores).user \in Users \cup {Legacy} /\ Head(stores).track \in Tracks
      BY <2>1, PageFields
    <3>2. CASE Head(stores).user = Legacy
      BY <1>3, <2>1, <3>2 DEF Store_Page, Edges
    <3>3. CASE Head(stores).user # Legacy
      <4>1. liked' = [liked EXCEPT ![Head(stores).user][Head(stores).track] = Head(stores).at]
        BY <1>3, <3>3 DEF Store_Page, Edges
      <4>2. Bearer(Head(stores).user) = Head(stores).user
        BY <3>3 DEF Bearer
      <4> QED
        BY <2>1, <2>3, <3>1, <4>1, <4>2 DEF TypeOK
    <3> QED
      BY <3>2, <3>3
  <2> QED
    BY <2>2, <2>4, <2>5
<1>4. CASE Migrate_Guard \/ Migrate_Fails
  BY <1>4 DEF Migrate_Guard, Migrate_Fails
<1>5. CASE Migrate_Lift
  <2>1. \A t \in Tracks : Lift(t) # 0 => t \in served[Owner]
    BY DEF Lift
  <2>2. /\ \A t \in Tracks : liked'[Owner][t] = Lift(t)
        /\ \A u \in Users \ {Owner} : liked'[u] = liked[u]
    BY <1>5 DEF Migrate_Lift, TypeOK
  <2>3. NoGhostOwnership'
    BY <1>5, <2>1, <2>2 DEF Migrate_Lift
  <2> QED
    BY <1>5, <2>3 DEF Migrate_Lift
<1>6. CASE Migrate_Drop
  BY <1>6 DEF Migrate_Drop
<1>7. CASE UNCHANGED vars
  BY <1>7 DEF vars
<1> QED
  BY <1>1, <1>2, <1>3, <1>4, <1>5, <1>6, <1>7 DEF Next

(* A LIKED edge of a user is of a track served to that user's token, for    *)
(* any users and libraries: although the guard of 0001 and its transaction  *)
(* are two steps.                                                           *)
THEOREM NoGhosts == Spec => []NoGhostOwnership
<1>1. Init => TypeOK /\ Ownership
  BY TypeInit, OwnershipInit
<1>2. (TypeOK /\ Ownership) /\ [Next]_vars => (TypeOK /\ Ownership)'
  BY TypeNext, OwnershipNext
<1>3. TypeOK /\ Ownership => NoGhostOwnership
  BY DEF Ownership
<1> QED
  BY <1>1, <1>2, <1>3, PTL DEF Spec
-----------------------------------------------------------------------------
LEMMA ChronologyInit == Init => Chronology
  BY DEF Init, Chronology, PagesInOrder, KnownBeforePages, PagesBeforeLibrary,
         KnownBeforeLibrary, LibraryBeforeNow, Known

LEMMA ChronologyLike ==
  ASSUME TypeOK, Chronology, NEW u \in Users, NEW t \in Tracks, Like(u, t)
  PROVE  Chronology'
<1>1. /\ now' = now + 1 /\ now \in Nat
      /\ \A v \in Users, s \in Tracks :
           library'[v][s] = IF v = u /\ s = t THEN now + 1 ELSE library[v][s]
      /\ stores' = stores /\ liked' = liked /\ flag' = flag
  BY DEF Like, TypeOK, Dates
<1>2. PagesInOrder' /\ KnownBeforePages'
  BY <1>1 DEF Chronology, PagesInOrder, KnownBeforePages, Known
<1>3. PagesBeforeLibrary'
  <2> SUFFICES ASSUME NEW i \in 1..Len(stores)
               PROVE  /\ stores[i].at <= now'
                      /\ LET v == Bearer(stores[i].user)
                             s == stores[i].track
                         IN library'[v][s] # 0 => stores[i].at <= library'[v][s]
    BY <1>1 DEF PagesBeforeLibrary
  <2>1. stores[i].at <= now /\ stores[i].at \in Nat
    BY PageFields DEF Chronology, PagesBeforeLibrary, Dates
  <2> QED
    BY <1>1, <2>1, PageFields DEF Chronology, PagesBeforeLibrary
<1>4. KnownBeforeLibrary'
  <2>1. \A v \in Users, s \in Tracks : liked[v][s] \in Nat /\ flag[s] \in Nat
    BY DEF TypeOK, Dates
  <2> QED
    BY <1>1, <2>1 DEF Chronology, KnownBeforeLibrary, Known
<1>5. LibraryBeforeNow'
  <2>1. \A v \in Users, s \in Tracks : library[v][s] \in Nat
    BY DEF TypeOK, Dates
  <2> QED
    BY <1>1, <2>1 DEF Chronology, LibraryBeforeNow
<1> QED
  BY <1>2, <1>3, <1>4, <1>5 DEF Chronology

LEMMA ChronologyUnlike ==
  ASSUME TypeOK, Chronology, NEW u \in Users, NEW t \in Tracks, Unlike(u, t)
  PROVE  Chronology'
<1>1. /\ now' = now /\ now \in Nat
      /\ \A v \in Users, s \in Tracks :
           library'[v][s] = IF v = u /\ s = t THEN 0 ELSE library[v][s]
      /\ stores' = stores /\ liked' = liked /\ flag' = flag
  BY DEF Unlike, TypeOK, Dates
<1>2. PagesInOrder' /\ KnownBeforePages'
  BY <1>1 DEF Chronology, PagesInOrder, KnownBeforePages, Known
<1>3. PagesBeforeLibrary'
  BY <1>1, PageFields DEF Chronology, PagesBeforeLibrary
<1>4. KnownBeforeLibrary' /\ LibraryBeforeNow'
  BY <1>1 DEF Chronology, KnownBeforeLibrary, LibraryBeforeNow, Known
<1> QED
  BY <1>2, <1>3, <1>4 DEF Chronology

LEMMA ChronologyFetch ==
  ASSUME TypeOK, Chronology, NEW user \in Users \cup {Legacy}, NEW t \in Tracks,
         Fetch_Page(user, t)
  PROVE  Chronology'
<1> DEFINE u == Bearer(user)
           page == [user |-> user, track |-> t, at |-> library[u][t]]
           n == Len(stores)
<1>1. u \in Users
  BY DEF Bearer
<1>2. page \in PageType
  BY <1>1 DEF Fetch_Page, PageType, TypeOK, Dates
<1>3. /\ n \in Nat /\ Len(stores') = n + 1
      /\ stores'[n + 1] = page
      /\ \A i \in 1..n : stores'[i] = stores[i]
      /\ 1..Len(stores') = (1..n) \cup {n + 1}
  BY <1>2, Queued DEF Fetch_Page, TypeOK
<1>4. library' = library /\ now' = now /\ liked' = liked /\ flag' = flag /\ library[u][t] # 0
  BY DEF Fetch_Page
<1>5. page.user = user /\ page.track = t /\ page.at = library[u][t]
  OBVIOUS
<1> HIDE DEF page, n
<1>6. PagesInOrder'
  <2> SUFFICES ASSUME NEW i \in (1..n) \cup {n + 1}, NEW j \in (1..n) \cup {n + 1}, i < j,
                      stores'[i].track = stores'[j].track,
                      Bearer(stores'[i].user) = Bearer(stores'[j].user)
               PROVE  stores'[i].at <= stores'[j].at
    BY <1>3 DEF PagesInOrder
  <2>1. i \in 1..n
    BY <1>3
  <2>2. CASE j \in 1..n
    BY <1>3, <2>1, <2>2 DEF Chronology, PagesInOrder, n
  <2>3. CASE j = n + 1
    <3>1. stores[i].track = t /\ Bearer(stores[i].user) = u
      BY <1>3, <1>5, <2>1, <2>3
    <3>2. stores[i].at <= library[u][t]
      BY <1>4, <2>1, <3>1 DEF Chronology, PagesBeforeLibrary, n
    <3> QED
      BY <1>3, <1>5, <2>1, <2>3, <3>2
  <2> QED
    BY <2>2, <2>3
<1>7. KnownBeforePages'
  <2>1. Known(u, t, library[u][t])
    BY <1>1, <1>4 DEF Chronology, KnownBeforeLibrary
  <2> QED
    BY <1>3, <1>4, <1>5, <2>1 DEF Chronology, KnownBeforePages, Known, n
<1>8. PagesBeforeLibrary'
  <2>1. library[u][t] <= now /\ library[u][t] \in Nat
    BY <1>1 DEF Chronology, LibraryBeforeNow, TypeOK, Dates
  <2> QED
    BY <1>3, <1>4, <1>5, <2>1 DEF Chronology, PagesBeforeLibrary, n
<1>9. KnownBeforeLibrary' /\ LibraryBeforeNow'
  BY <1>4 DEF Chronology, KnownBeforeLibrary, LibraryBeforeNow, Known
<1> QED
  BY <1>6, <1>7, <1>8, <1>9 DEF Chronology

(* Storing the first page of the queue: what the graph knows afterwards is  *)
(* what it knew or the date of that page, which no later page precedes.     *)
LEMMA StoredKnows ==
  ASSUME TypeOK, Store_Page
  PROVE  LET page == stores[1]
         IN /\ 1 \in 1..Len(stores)
            /\ \A u \in Users, t \in Tracks :
                 liked'[u][t] = IF u = page.user /\ t = page.track THEN page.at ELSE liked[u][t]
            /\ \A t \in Tracks :
                 flag'[t] = IF page.user = Legacy /\ t = page.track THEN page.at ELSE flag[t]
            /\ library' = library /\ now' = now
<1>1. Head(stores) = stores[1] /\ 1 \in 1..Len(stores)
  BY Taken DEF Store_Page, TypeOK
<1>2. stores[1].user \in Users \cup {Legacy} /\ stores[1].track \in Tracks
  BY <1>1, PageFields
<1> QED
  BY <1>1, <1>2 DEF Store_Page, Edges, LegacyProps, TypeOK

LEMMA ChronologyStore ==
  ASSUME TypeOK, Chronology, Store_Page
  PROVE  Chronology'
<1> DEFINE page == stores[1]
           b == Bearer(page.user)
<1>1. /\ 1 \in 1..Len(stores)
      /\ \A u \in Users, t \in Tracks :
           liked'[u][t] = IF u = page.user /\ t = page.track THEN page.at ELSE liked[u][t]
      /\ \A t \in Tracks :
           flag'[t] = IF page.user = Legacy /\ t = page.track THEN page.at ELSE flag[t]
      /\ library' = library /\ now' = now
  BY StoredKnows
<1>2. /\ page.user \in Users \cup {Legacy} /\ b \in Users
      /\ page.track \in Tracks /\ page.at \in Nat
  BY <1>1, PageFields DEF Dates
<1>3. /\ Len(stores') = Len(stores) - 1 /\ Len(stores) \in Nat
      /\ \A i \in 1..Len(stores') : stores'[i] = stores[i + 1] /\ i + 1 \in 1..Len(stores)
  BY Taken DEF Store_Page, TypeOK
<1>4. ASSUME NEW u \in Users, NEW t \in Tracks, NEW d \in Nat, Known(u, t, d),
             u = b /\ t = page.track => page.at <= d
      PROVE  KnownAfter(u, t, d)
  BY <1>1, <1>2, <1>4 DEF Known, KnownAfter, Bearer
<1> HIDE DEF page, b
<1>5. PagesInOrder'
  BY <1>3 DEF Chronology, PagesInOrder
<1>6. KnownBeforePages'
  <2> SUFFICES ASSUME NEW i \in 1..Len(stores')
               PROVE  KnownAfter(Bearer(stores'[i].user), stores'[i].track, stores'[i].at)
    BY DEF KnownBeforePages, Known, KnownAfter
  <2>1. stores'[i] = stores[i + 1] /\ i + 1 \in 1..Len(stores) /\ 1 < i + 1
    BY <1>3
  <2> DEFINE q == stores[i + 1]
  <2>2. Bearer(q.user) \in Users /\ q.track \in Tracks /\ q.at \in Nat
    BY <2>1, PageFields DEF Dates
  <2>3. Known(Bearer(q.user), q.track, q.at)
    BY <2>1 DEF Chronology, KnownBeforePages
  <2>4. Bearer(q.user) = b /\ q.track = page.track => page.at <= q.at
    BY <1>1, <2>1 DEF Chronology, PagesInOrder, b, page
  <2>5. KnownAfter(Bearer(q.user), q.track, q.at)
    BY <1>4, <2>2, <2>3, <2>4
  <2> QED
    BY <2>1, <2>5
<1>7. PagesBeforeLibrary'
  <2> SUFFICES ASSUME NEW i \in 1..Len(stores')
               PROVE  LET u == Bearer(stores'[i].user)
                          t == stores'[i].track
                      IN stores'[i].at <= now /\ (library[u][t] # 0 => stores'[i].at <= library[u][t])
    BY <1>1 DEF PagesBeforeLibrary
  <2>1. stores'[i] = stores[i + 1] /\ i + 1 \in 1..Len(stores)
    BY <1>3
  <2> QED
    BY <2>1 DEF Chronology, PagesBeforeLibrary
<1>8. KnownBeforeLibrary' /\ LibraryBeforeNow'
  <2>1. page.at <= now /\ (library[b][page.track] # 0 => page.at <= library[b][page.track])
    BY <1>1 DEF Chronology, PagesBeforeLibrary, page, b
  <2>2. now \in Nat /\ \A u \in Users, t \in Tracks : library[u][t] \in Nat
    BY DEF TypeOK, Dates
  <2>3. ASSUME NEW u \in Users, NEW t \in Tracks
        PROVE  KnownAfter(u, t, now) /\ (library[u][t] # 0 => KnownAfter(u, t, library[u][t]))
    <3>1. Known(u, t, now) /\ (library[u][t] # 0 => Known(u, t, library[u][t]))
      BY DEF Chronology, KnownBeforeLibrary
    <3>2. KnownAfter(u, t, now)
      BY <1>4, <2>1, <2>2, <3>1
    <3>3. library[u][t] # 0 => KnownAfter(u, t, library[u][t])
      BY <1>4, <2>1, <2>2, <3>1
    <3> QED
      BY <3>2, <3>3
  <2> QED
    BY <1>1, <2>3 DEF Chronology, KnownBeforeLibrary, LibraryBeforeNow, Known, KnownAfter
<1> QED
  BY <1>5, <1>6, <1>7, <1>8 DEF Chronology

(* The migrations bring nothing new: a lifted date was known by its flag.   *)
LEMMA ChronologyMigrate ==
  ASSUME TypeOK, Chronology,
         Migrate_Guard \/ Migrate_Lift \/ Migrate_Fails \/ Migrate_Drop
  PROVE  Chronology'
<1>1. stores' = stores /\ library' = library /\ now' = now
  BY DEF Migrate_Guard, Migrate_Lift, Migrate_Fails, Migrate_Drop
<1>2. now \in Nat /\ \A u \in Users, t \in Tracks : library[u][t] \in Nat
  BY DEF TypeOK, Dates
<1>3. ASSUME NEW u \in Users, NEW t \in Tracks, NEW d \in Nat, Known(u, t, d)
      PROVE  KnownAfter(u, t, d)
  <2>1. CASE Migrate_Guard \/ Migrate_Fails
    BY <1>3, <2>1 DEF Migrate_Guard, Migrate_Fails, Known, KnownAfter
  <2>2. CASE Migrate_Lift
    BY <1>3, <2>2 DEF Migrate_Lift, Lift, Known, KnownAfter, TypeOK
  <2>3. CASE Migrate_Drop
    BY <1>3, <2>3 DEF Migrate_Drop, Known, KnownAfter, TypeOK
  <2> QED
    BY <2>1, <2>2, <2>3
<1>4. PagesInOrder' /\ PagesBeforeLibrary' /\ LibraryBeforeNow'
  BY <1>1 DEF Chronology, PagesInOrder, PagesBeforeLibrary, LibraryBeforeNow
<1>5. KnownBeforePages'
  <2> SUFFICES ASSUME NEW i \in 1..Len(stores)
               PROVE  KnownAfter(Bearer(stores[i].user), stores[i].track, stores[i].at)
    BY <1>1 DEF KnownBeforePages, Known, KnownAfter
  <2>1. Bearer(stores[i].user) \in Users /\ stores[i].track \in Tracks /\ stores[i].at \in Nat
    BY PageFields DEF Dates
  <2>2. Known(Bearer(stores[i].user), stores[i].track, stores[i].at)
    BY DEF Chronology, KnownBeforePages
  <2> QED
    BY <1>3, <2>1, <2>2
<1>6. KnownBeforeLibrary'
  BY <1>1, <1>2, <1>3 DEF Chronology, KnownBeforeLibrary, Known, KnownAfter
<1> QED
  BY <1>4, <1>5, <1>6 DEF Chronology

LEMMA ChronologyNext == TypeOK /\ Chronology /\ [Next]_vars => Chronology'
<1> SUFFICES ASSUME TypeOK, Chronology, [Next]_vars PROVE Chronology'
  OBVIOUS
<1>1. CASE UNCHANGED vars
  BY <1>1 DEF vars, Chronology, PagesInOrder, KnownBeforePages, PagesBeforeLibrary,
              KnownBeforeLibrary, LibraryBeforeNow, Known
<1> QED
  BY <1>1, ChronologyLike, ChronologyUnlike, ChronologyFetch, ChronologyStore,
     ChronologyMigrate DEF Next

(* When a user liked a track is never forgotten nor set back, for any       *)
(* number of pages in flight and any number of runs of the migrations.      *)
THEOREM LikesOnlyAdvance == Spec => LikesNeverGoBack
<1>1. Init => TypeOK /\ Chronology
  BY TypeInit, ChronologyInit
<1>2. (TypeOK /\ Chronology) /\ [Next]_vars => (TypeOK /\ Chronology)'
  BY TypeNext, ChronologyNext
<1>3. ASSUME TypeOK, Chronology, [Next]_vars, NEW u \in Users, NEW t \in Tracks
      PROVE  liked'[u][t] >= liked[u][t]
  <2>1. liked[u][t] \in Nat
    BY <1>3 DEF TypeOK, Dates
  <2>2. CASE Store_Page
    <3>1. CASE u = stores[1].user /\ t = stores[1].track
      <4>1. Known(u, t, stores[1].at)
        BY <1>3, <2>2, <3>1, StoredKnows DEF Chronology, KnownBeforePages, Bearer
      <4> QED
        BY <1>3, <2>1, <2>2, <3>1, <4>1, StoredKnows DEF Known
    <3>2. CASE ~(u = stores[1].user /\ t = stores[1].track)
      BY <1>3, <2>1, <2>2, <3>2, StoredKnows
    <3> QED
      BY <3>1, <3>2
  <2>3. CASE Migrate_Lift
    BY <1>3, <2>1, <2>3 DEF Migrate_Lift, Lift, TypeOK, Dates
  <2>4. CASE UNCHANGED liked
    BY <2>1, <2>4
  <2>5. Store_Page \/ Migrate_Lift \/ UNCHANGED liked
    BY <1>3 DEF Next, Like, Unlike, Fetch_Page, Migrate_Guard, Migrate_Fails, Migrate_Drop, vars
  <2> QED
    BY <2>2, <2>3, <2>4, <2>5
<1>4. TypeOK /\ Chronology /\ [Next]_vars
        => [\A u \in Users, t \in Tracks : liked'[u][t] >= liked[u][t]]_vars
  BY <1>3
<1> QED
  BY <1>1, <1>2, <1>4, PTL DEF Spec, LikesNeverGoBack
=============================================================================
