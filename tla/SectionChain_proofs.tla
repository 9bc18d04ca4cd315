------------------------- MODULE SectionChain_proofs -------------------------
(***************************************************************************)
(* Theorems about SectionChain, for every number of sections, sessions and *)
(* positions.                                                              *)
(***************************************************************************)
EXTENDS SectionChain, SequenceTheorems, FiniteSetTheorems, TLAPS

-----------------------------------------------------------------------------
(* Types.                                                                  *)

(* StartOf answers the start of one of the nodes, or Open without a node.  *)
LEMMA StartOfNode ==
  ASSUME NEW nodes
  PROVE  /\ nodes = {} => StartOf(nodes) = Open
         /\ nodes # {} => \E n \in nodes : StartOf(nodes) = section[n].start
BY DEF StartOf

LEMMA StartOfType ==
  ASSUME section \in [Ids -> Section], NEW nodes \in SUBSET Ids
  PROVE  StartOf(nodes) \in Ms \cup {Open}
BY StartOfNode DEF Section

LEMMA OpenType == Open \in Int /\ Open = -1 /\ Unknown = -1 /\ Open \notin Ms /\ Unknown \notin Orders
BY PositionAssumption DEF Open, Unknown, Ms, Orders

(* What an insert does to the graph keeps its types.                       *)
LEMMA TypeInsert ==
  ASSUME TypeOK, NEW i \in Ids, NEW at \in Ms, NEW end \in Ms \cup {Open},
         NEW order \in Orders, InsertSection(i, at, end, order)
  PROVE  /\ live' \subseteq Ids
         /\ section' \in [Ids -> Section]
         /\ next' \subseteq Ids \X Ids
<1>1. LatestBefore(at) \subseteq live /\ EarliestAfter(at) \subseteq live
  BY DEF LatestBefore, EarliestAfter
<1>2. live' \subseteq Ids
  BY DEF TypeOK, InsertSection
<1>3. section' \in [Ids -> Section]
  <2>1. NewSection(at, end, order) \in Section
    <3>1. StartOf(EarliestAfter(at)) \in Ms \cup {Open}
      BY <1>1, StartOfType DEF TypeOK
    <3>. QED  BY <3>1 DEF NewSection, Section
  <2>2. \A j \in Ids : [section[j] EXCEPT !.end = at] \in Section
    BY DEF TypeOK, Section
  <2>. QED  BY <2>1, <2>2 DEF TypeOK, InsertSection
<1>4. next' \subseteq Ids \X Ids
  BY <1>1 DEF TypeOK, InsertSection, Chained
<1>. QED  BY <1>2, <1>3, <1>4

(* So does a delete.                                                       *)
LEMMA TypeDelete ==
  ASSUME TypeOK, NEW i \in Ids, DeleteSection(i)
  PROVE  /\ live' \subseteq Ids
         /\ section' \in [Ids -> Section]
         /\ next' \subseteq Ids \X Ids
<1>1. Previous(i) \subseteq live /\ Following(i) \subseteq live
  BY DEF Previous, Following
<1>2. StartOf(Following(i)) \in Ms \cup {Open}
  BY <1>1, StartOfType DEF TypeOK
<1>3. Blank \in Section
  BY PositionAssumption DEF Blank, Section, Ms, Orders
<1>4. \A j \in Ids : [section[j] EXCEPT !.end = StartOf(Following(i))] \in Section
  BY <1>2 DEF TypeOK, Section
<1>5. section' \in [Ids -> Section]
  BY <1>3, <1>4 DEF TypeOK, DeleteSection, Remaining
<1>6. next' \subseteq Ids \X Ids
  BY <1>1 DEF TypeOK, DeleteSection, Bridged
<1>. QED  BY <1>5, <1>6 DEF TypeOK, DeleteSection

(* So does a nudge.                                                        *)
LEMMA TypeMove ==
  ASSUME TypeOK, NEW i \in Ids, NEW at \in Ms, MoveSection(i, at)
  PROVE  /\ live' \subseteq Ids
         /\ section' \in [Ids -> Section]
         /\ next' \subseteq Ids \X Ids
<1>1. \A j \in Ids : /\ [section[j] EXCEPT !.start = at] \in Section
                     /\ [section[j] EXCEPT !.end = at] \in Section
  BY DEF TypeOK, Section
<1>. QED  BY <1>1 DEF TypeOK, MoveSection

(* What a session finds on its undo stack.                                 *)
LEMMA TopType ==
  ASSUME TypeOK, NEW s \in Sessions, stack[s] # <<>>
  PROVE  /\ Len(stack[s]) \in Nat \ {0}
         /\ Top(s) \in Record
         /\ Popped(s) \in Seq(Record)
<1>1. stack[s] \in Seq(Record)
  BY DEF TypeOK
<1>2. Len(stack[s]) \in Nat /\ Len(stack[s]) # 0
  BY <1>1, EmptySeq, LenProperties
<1>3. \A n \in 1..Len(stack[s]) : stack[s][n] \in Record
  BY <1>1, ElementOfSeq
<1>4. Popped(s) \in Seq(Record)
  BY <1>2, <1>3, SubSeqProperties DEF Popped
<1>. QED  BY <1>2, <1>3, <1>4 DEF Top

LEMMA GiveBackType ==
  ASSUME TypeOK, NEW s \in Sessions, NEW k \in Orders, GiveBack(s, k)
  PROVE  cached' \in [Sessions -> 0..(MaxOrder + 1) \cup {Unknown}]
BY PositionAssumption DEF TypeOK, GiveBack, Orders, Unknown

LEMMA TypeInit == Init => TypeOK
<1>1. Blank \in Section
  BY PositionAssumption DEF Blank, Section, Ms, Orders
<1>2. <<>> \in Seq(Record)
  BY EmptySeq
<1>. QED  BY <1>1, <1>2 DEF Init, TypeOK

(* The shapes survive what a session does.                                 *)
LEMMA TypeSession ==
  ASSUME TypeOK, NEW s \in Sessions,
         \/ Capture(s)
         \/ Undo_Section(s) \/ Undo_Pin(s)
         \/ \E delta \in {Step, -Step} : Nudge(s, delta)
         \/ EndSession(s)
  PROVE  TypeOK'
<1>. USE OpenType
<1>1. ASSUME NEW k \in Orders, ClaimSectionOrder(s, k) PROVE TypeOK'
  <2>1. k + 1 \in 0..(MaxOrder + 1)
    BY PositionAssumption DEF Orders
  <2>. QED  BY <1>1, <2>1 DEF TypeOK, ClaimSectionOrder
<1>2. ASSUME NEW at \in Ms, AddSection_Fails(s, at) PROVE TypeOK'
  <2>1. claim[s] \in Orders
    BY <1>2 DEF TypeOK, AddSection_Fails
  <2>2. cached' \in [Sessions -> 0..(MaxOrder + 1) \cup {Unknown}]
    BY <1>2, <2>1, GiveBackType DEF AddSection_Fails
  <2>. QED  BY <1>2, <2>2 DEF TypeOK, AddSection_Fails
<1>3. ASSUME NEW i \in Ids, NEW at \in Ms, NEW end \in ExplicitEnds \cup {Open},
             AddSection(s, i, at, end)
      PROVE TypeOK'
  <2>1. claim[s] \in Orders
    BY <1>3 DEF TypeOK, AddSection
  <2>2. end \in Ms \cup {Open}
    BY PositionAssumption DEF Ms
  <2>3. /\ live' \subseteq Ids
        /\ section' \in [Ids -> Section]
        /\ next' \subseteq Ids \X Ids
    BY <1>3, <2>1, <2>2, TypeInsert DEF AddSection
  <2>4. [kind |-> "section", id |-> i, at |-> at, order |-> claim[s]] \in Record
    BY <2>1 DEF Record
  <2>5. Append(stack[s], [kind |-> "section", id |-> i, at |-> at, order |-> claim[s]])
          \in Seq(Record)
    BY <2>4, AppendProperties DEF TypeOK
  <2>. QED  BY <1>3, <2>3, <2>5 DEF TypeOK, AddSection
<1>4. ASSUME NEW i \in Ids, NEW at \in Ms, AddPin(s, i, at) PROVE TypeOK'
  <2>1. [kind |-> "pin", id |-> i, at |-> at, order |-> 0] \in Record
    BY PositionAssumption DEF Record, Orders
  <2>2. Append(stack[s], [kind |-> "pin", id |-> i, at |-> at, order |-> 0]) \in Seq(Record)
    BY <2>1, AppendProperties DEF TypeOK
  <2>. QED  BY <1>4, <2>2 DEF TypeOK, AddPin
<1>5. ASSUME Undo_Section(s) PROVE TypeOK'
  <2>1. Top(s) \in Record /\ Popped(s) \in Seq(Record)
    BY <1>5, TopType DEF Undo_Section
  <2>2. Top(s).id \in Ids /\ Top(s).order \in Orders
    BY <2>1 DEF Record
  <2>3. /\ live' \subseteq Ids
        /\ section' \in [Ids -> Section]
        /\ next' \subseteq Ids \X Ids
    BY <1>5, <2>2, TypeDelete DEF Undo_Section
  <2>4. cached' \in [Sessions -> 0..(MaxOrder + 1) \cup {Unknown}]
    BY <1>5, <2>2, GiveBackType DEF Undo_Section
  <2>. QED  BY <1>5, <2>1, <2>3, <2>4 DEF TypeOK, Undo_Section
<1>6. ASSUME Undo_Pin(s) PROVE TypeOK'
  <2>1. Popped(s) \in Seq(Record)
    BY <1>6, TopType DEF Undo_Pin
  <2>. QED  BY <1>6, <2>1 DEF TypeOK, Undo_Pin
<1>7. ASSUME NEW delta \in {Step, -Step}, Nudge(s, delta) PROVE TypeOK'
  <2>. DEFINE at == NudgedTo(s, delta)
              moved == [stack[s] EXCEPT ![Len(stack[s])] = [Top(s) EXCEPT !.at = at]]
  <2>1. Top(s) \in Record /\ Len(stack[s]) \in Nat \ {0} /\ stack[s] \in Seq(Record)
    BY <1>7, TopType DEF Nudge, TypeOK
  <2>2. at \in Ms
    BY <1>7, <2>1, PositionAssumption DEF Nudge, NudgedTo, Record, Ms
  <2>3. [Top(s) EXCEPT !.at = at] \in Record
    BY <2>1, <2>2 DEF Record
  <2>4. moved \in Seq(Record)
    <3>1. Len(stack[s]) \in 1..Len(stack[s])
      BY <2>1
    <3>. HIDE DEF at
    <3>. QED  BY <2>1, <2>3, <3>1, ExceptSeq
  <2>5. stack' \in [Sessions -> Seq(Record)]
    BY <1>7, <2>4 DEF TypeOK, Nudge
  <2>6. /\ live' \subseteq Ids
        /\ section' \in [Ids -> Section]
        /\ next' \subseteq Ids \X Ids
        /\ pin' \in [Ids -> Ms \cup {Open}]
    <3>1. Top(s).id \in Ids
      BY <2>1 DEF Record
    <3>2. CASE Top(s).kind = "section"
      BY <1>7, <2>2, <3>1, <3>2, TypeMove DEF Nudge, TypeOK
    <3>3. CASE Top(s).kind # "section"
      BY <1>7, <2>2, <3>1, <3>3 DEF Nudge, TypeOK
    <3>. QED  BY <3>2, <3>3
  <2>. QED  BY <1>7, <2>5, <2>6 DEF TypeOK, Nudge
<1>8. ASSUME EndSession(s) PROVE TypeOK'
  <2>1. <<>> \in Seq(Record)
    BY EmptySeq
  <2>. QED  BY <1>8, <2>1 DEF TypeOK, EndSession
<1>. QED  BY <1>1, <1>2, <1>3, <1>4, <1>5, <1>6, <1>7, <1>8 DEF Capture

LEMMA TypeNext == TypeOK /\ [Next]_vars => TypeOK'
<1>. SUFFICES ASSUME TypeOK, [Next]_vars PROVE TypeOK'
  OBVIOUS
<1>1. CASE CrawlTrack
  BY <1>1 DEF TypeOK, CrawlTrack
<1>2. CASE UNCHANGED vars
  BY <1>2 DEF TypeOK, vars
<1>. QED  BY <1>1, <1>2, TypeSession DEF Next

(* Every variable keeps its shape, whatever the sessions do.               *)
THEOREM SectionTypes == Spec => []TypeOK
BY TypeInit, TypeNext, PTL DEF Spec

-----------------------------------------------------------------------------
(* The chain.                                                              *)

(* b starts next after a.                                                  *)
Adjacent(a, b) ==
  /\ a \in live /\ b \in live
  /\ section[a].start < section[b].start
  /\ ~\E k \in live : /\ section[a].start < section[k].start
                      /\ section[k].start < section[b].start

(* An end is explicit only if it was given; a deleted section leaves       *)
(* nothing behind.                                                         *)
ExplicitGiven == \A i \in live : section[i].explicit => section[i].end # Open
DeadAreBlank  == \A i \in Ids \ live : section[i] = Blank

ChainInv ==
  /\ ChainIsTimeOrder
  /\ DerivedEnds
  /\ EndNotBeforeStart
  /\ ExplicitGiven
  /\ DeadAreBlank

LEMMA ChainEdges ==
  ASSUME TypeOK, ChainIsTimeOrder
  PROVE  \A a, b \in Ids : <<a, b>> \in next <=> Adjacent(a, b)
BY DEF TypeOK, ChainIsTimeOrder, Adjacent

LEMMA EdgesChain ==
  ASSUME TypeOK', \A i, j \in live' : section'[i].start = section'[j].start => i = j,
         \A a, b \in Ids : <<a, b>> \in next' <=> Adjacent(a, b)'
  PROVE  ChainIsTimeOrder'
<1>. DEFINE E == {e \in live' \X live' :
               /\ section'[e[1]].start < section'[e[2]].start
               /\ ~\E k \in live' : /\ section'[e[1]].start < section'[k].start
                                    /\ section'[k].start < section'[e[2]].start}
<1>1. live' \subseteq Ids /\ next' \subseteq Ids \X Ids
  BY DEF TypeOK
<1>2. \A a, b \in Ids : <<a, b>> \in next' <=> <<a, b>> \in E
  BY DEF Adjacent
<1>3. E \subseteq Ids \X Ids
  BY <1>1
<1>4. next' = E
  <2>. HIDE DEF E
  <2>. QED  BY <1>1, <1>2, <1>3
<1>. QED  BY <1>4 DEF ChainIsTimeOrder

LEMMA StartInt ==
  ASSUME TypeOK
  PROVE  \A j \in Ids : /\ section[j].start \in Int
                        /\ section[j].end \in Int
                        /\ section[j].explicit \in BOOLEAN
BY OpenType DEF TypeOK, Section, Ms

LEMMA NewSectionFields ==
  ASSUME NEW at, NEW end, NEW order
  PROVE  LET new == NewSection(at, end, order) IN
         /\ new.start = at
         /\ new.explicit <=> end # Open
         /\ end # Open => new.end = end
         /\ end = Open => new.end = StartOf(EarliestAfter(at))
<1>1. CASE end = Open
  BY <1>1 DEF NewSection
<1>2. CASE end # Open
  BY <1>2 DEF NewSection
<1>. QED  BY <1>1, <1>2

(* An insert at a free position keeps the chain.                           *)
LEMMA ChainInsert ==
  ASSUME TypeOK, TypeOK', ChainInv,
         NEW i \in Ids, i \notin live, NEW at \in Ms, NEW end \in Ms \cup {Open},
         NEW order \in Orders, ~TrackTaken(at), end = Open \/ end >= at,
         InsertSection(i, at, end, order)
  PROVE  ChainInv'
<1>. DEFINE Before == LatestBefore(at)
            After  == EarliestAfter(at)
<1>1. /\ live' = live \cup {i}
      /\ live \subseteq Ids
      /\ at \in Int
      /\ i \notin Before /\ i \notin After /\ Before \subseteq live /\ After \subseteq live
  BY DEF InsertSection, TypeOK, LatestBefore, EarliestAfter, Ms
<1>2. /\ section'[i].start = at
      /\ \A j \in live : section'[j].start = section[j].start /\ section[j].start # at
      /\ \A j \in live : section[j].start \in Int
  <2>1. section'[i].start = at
    BY DEF InsertSection, NewSection
  <2>2. \A j \in live : section'[j].start = section[j].start
    BY <1>1 DEF InsertSection, TypeOK, Section
  <2>. QED  BY <1>1, <2>1, <2>2, StartInt DEF TrackTaken
<1>3. \A p \in live : p \in Before <=> /\ section[p].start < at
                                       /\ \A q \in live : section[q].start < at
                                            => section[q].start <= section[p].start
  BY DEF LatestBefore
<1>4. \A n \in live : n \in After <=> /\ section[n].start > at
                                      /\ \A q \in live : section[q].start > at
                                           => section[q].start >= section[n].start
  BY DEF EarliestAfter
<1>5. \A a, b \in Ids : <<a, b>> \in next' <=>
         \/ <<a, b>> \in next /\ a \notin Before
         \/ a \in Before /\ b = i
         \/ a = i /\ b \in After
  BY DEF InsertSection, Chained
<1>6. \A a, b \in Ids : <<a, b>> \in next <=> Adjacent(a, b)
  BY ChainEdges DEF ChainInv
<1>. HIDE DEF Before, After
<1>7. \A a, b \in Ids : <<a, b>> \in next' <=> Adjacent(a, b)'
  <2>1. ASSUME NEW a \in live, NEW b \in live
        PROVE  Adjacent(a, b)' <=> Adjacent(a, b) /\ a \notin Before
    <3>1. Adjacent(a, b)' <=> Adjacent(a, b) /\ ~(section[a].start < at /\ at < section[b].start)
      BY <1>1, <1>2, <2>1 DEF Adjacent
    <3>2. ASSUME Adjacent(a, b), section[a].start < at, at < section[b].start
          PROVE  a \in Before
      BY <1>1, <1>2, <1>3, <3>2 DEF Adjacent
    <3>3. ASSUME Adjacent(a, b), a \in Before
          PROVE  section[a].start < at /\ at < section[b].start
      BY <1>1, <1>2, <1>3, <3>3 DEF Adjacent
    <3>. QED  BY <3>1, <3>2, <3>3
  <2>2. ASSUME NEW a \in live, NEW b, b = i PROVE Adjacent(a, b)' <=> a \in Before
    BY <1>1, <1>2, <1>3, <2>2 DEF Adjacent
  <2>3. ASSUME NEW b \in live, NEW a, a = i PROVE Adjacent(a, b)' <=> b \in After
    BY <1>1, <1>2, <1>4, <2>3 DEF Adjacent
  <2>4. ASSUME NEW a, NEW b, a = i, b = i PROVE ~Adjacent(a, b)'
    BY <1>1, <1>2, <2>4 DEF Adjacent
  <2>5. \A a \in Ids : <<a, i>> \notin next /\ <<i, a>> \notin next
    BY <1>6 DEF Adjacent
  <2>. SUFFICES ASSUME NEW a \in Ids, NEW b \in Ids
                PROVE  <<a, b>> \in next' <=> Adjacent(a, b)'
    OBVIOUS
  <2>6. CASE a \in live /\ b \in live
    BY <1>1, <1>5, <1>6, <2>1, <2>6
  <2>7. CASE a \in live /\ b = i
    BY <1>1, <1>5, <2>2, <2>5, <2>7
  <2>8. CASE a = i /\ b \in live
    BY <1>1, <1>5, <2>3, <2>5, <2>8
  <2>9. CASE a = i /\ b = i
    BY <1>1, <1>5, <2>4, <2>5, <2>9
  <2>10. CASE a \notin live' \/ b \notin live'
    BY <1>1, <1>5, <1>6, <2>10 DEF Adjacent
  <2>. QED  BY <1>1, <2>6, <2>7, <2>8, <2>9, <2>10
<1>8. ChainIsTimeOrder'
  <2>1. \A j, k \in live' : section'[j].start = section'[k].start => j = k
    BY <1>1, <1>2 DEF ChainInv, ChainIsTimeOrder
  <2>. QED  BY <1>7, <2>1, EdgesChain
<1>9. /\ section'[i] = NewSection(at, end, order)
      /\ \A j \in Before : section'[j] = IF section[j].explicit THEN section[j]
                                         ELSE [section[j] EXCEPT !.end = at]
      /\ \A j \in Ids \ {i} : j \notin Before => section'[j] = section[j]
  BY <1>1 DEF InsertSection, TypeOK, Before
<1>10. DerivedEnds'
  <2>1. Following(i)' = After
    BY <1>1, <1>5, <1>6 DEF Following, Adjacent
  <2>2. \A j \in Before : Following(j)' = {i}
    BY <1>1, <1>5 DEF Following
  <2>3. \A j \in live : j \notin Before => Following(j)' = Following(j)
    <3>1. ASSUME NEW j \in live, j \notin Before
          PROVE  \A n \in Ids : <<j, n>> \in next' <=> <<j, n>> \in next
      BY <1>1, <1>5, <3>1
    <3>2. \A n \in Ids : <<n, i>> \notin next
      BY <1>6 DEF Adjacent
    <3>. QED  BY <1>1, <3>1, <3>2 DEF Following
  <2>4. section'[i].explicit \/ section'[i].end = StartOf(Following(i))'
    <3>1. StartOf(Following(i))' = StartOf(After)
      <4>1. CASE After = {}
        BY <2>1, <4>1 DEF StartOf
      <4>2. CASE After # {}
        <5>1. (CHOOSE n \in After : TRUE) \in live
          BY <1>1, <4>2
        <5>. QED  BY <1>2, <2>1, <4>2, <5>1 DEF StartOf
      <4>. QED  BY <4>1, <4>2
    <3>. QED  BY <1>9, <3>1, NewSectionFields DEF After
  <2>5. ASSUME NEW j \in Before
        PROVE  section'[j].explicit \/ section'[j].end = StartOf(Following(j))'
    <3>1. StartOf(Following(j))' = at
      BY <1>2, <2>2 DEF StartOf
    <3>2. section[j] \in Section
      BY <1>1 DEF TypeOK
    <3>. QED  BY <1>9, <3>1, <3>2 DEF Section
  <2>6. ASSUME NEW j \in live, j \notin Before
        PROVE  section'[j].explicit \/ section'[j].end = StartOf(Following(j))'
    <3>1. section'[j] = section[j]
      BY <1>1, <1>9, <2>6
    <3>2. StartOf(Following(j))' = StartOf(Following(j))
      <4>1. CASE Following(j) = {}
        BY <2>3, <2>6, <4>1 DEF StartOf
      <4>2. CASE Following(j) # {}
        <5>1. (CHOOSE n \in Following(j) : TRUE) \in live
          BY <4>2 DEF Following
        <5>. QED  BY <1>2, <2>3, <2>6, <4>2, <5>1 DEF StartOf
      <4>. QED  BY <4>1, <4>2
    <3>. QED  BY <3>1, <3>2 DEF ChainInv, DerivedEnds
  <2>. QED  BY <1>1, <2>4, <2>5, <2>6 DEF DerivedEnds
<1>11. EndNotBeforeStart'
  <2>1. section'[i].end = Open \/ section'[i].end >= section'[i].start
    <3>1. CASE end # Open
      BY <1>9, <3>1 DEF NewSection
    <3>2. CASE end = Open
      <4>1. section'[i].end = StartOf(After)
        BY <1>9, <3>2 DEF NewSection, After
      <4>. QED  BY <1>1, <1>2, <1>4, <4>1, StartOfNode
    <3>. QED  BY <3>1, <3>2
  <2>2. ASSUME NEW j \in Before
        PROVE  section'[j].end = Open \/ section'[j].end >= section'[j].start
    <3>1. section[j] \in Section /\ j \in live
      BY <1>1 DEF TypeOK
    <3>2. section'[j].start < at
      BY <1>2, <1>3, <3>1
    <3>3. CASE section[j].explicit
      <4>1. section'[j] = section[j]
        BY <1>9, <3>3
      <4>. QED  BY <3>1, <4>1 DEF ChainInv, EndNotBeforeStart
    <3>4. CASE ~section[j].explicit
      <4>1. section'[j].end = at
        BY <1>9, <3>1, <3>4 DEF Section
      <4>. QED  BY <1>1, <1>2, <3>1, <3>2, <4>1
    <3>. QED  BY <3>3, <3>4
  <2>. QED  BY <1>1, <1>9, <2>1, <2>2 DEF ChainInv, EndNotBeforeStart
<1>12. ExplicitGiven'
  <2>1. \A j \in live : section'[j].explicit => section'[j] = section[j]
    BY <1>1, <1>9 DEF TypeOK, Section
  <2>2. section'[i].explicit => section'[i].end # Open
    BY <1>9, NewSectionFields
  <2>. QED  BY <1>1, <2>1, <2>2 DEF ChainInv, ExplicitGiven
<1>13. DeadAreBlank'
  BY <1>1, <1>9 DEF ChainInv, DeadAreBlank
<1>. QED  BY <1>8, <1>10, <1>11, <1>12, <1>13 DEF ChainInv

(* A delete keeps it.                                                      *)
LEMMA ChainDelete ==
  ASSUME TypeOK, TypeOK', ChainInv, NEW i \in Ids, DeleteSection(i)
  PROVE  ChainInv'
<1>1. live' = live \ {i} /\ live \subseteq Ids
  BY DEF DeleteSection, TypeOK
<1>2. \A a, b \in Ids : <<a, b>> \in next <=> Adjacent(a, b)
  BY ChainEdges DEF ChainInv
<1>3. /\ \A p \in Ids : p \in Previous(i) <=> Adjacent(p, i)
      /\ \A n \in Ids : n \in Following(i) <=> Adjacent(i, n)
      /\ Previous(i) \subseteq live /\ Following(i) \subseteq live
  BY <1>1, <1>2 DEF Previous, Following, Adjacent
<1>4. /\ \A j \in live' : section'[j].start = section[j].start
      /\ \A j \in Ids : section[j].start \in Int
  BY <1>1, StartInt DEF DeleteSection, Remaining, TypeOK, Section
<1>5. \A a, b \in Ids : <<a, b>> \in next' <=>
         \/ <<a, b>> \in next /\ a # i /\ b # i
         \/ a \in Previous(i) /\ b \in Following(i)
  BY DEF DeleteSection, Bridged
<1>6. \A a, b \in live : section[a].start = section[b].start => a = b
  BY DEF ChainInv, ChainIsTimeOrder
<1>7. \A a, b \in Ids : <<a, b>> \in next' <=> Adjacent(a, b)'
  <2>. SUFFICES ASSUME NEW a \in Ids, NEW b \in Ids
                PROVE  <<a, b>> \in next' <=> Adjacent(a, b)'
    OBVIOUS
  <2>1. CASE a \in live' /\ b \in live'
    <3>1. ASSUME Adjacent(a, b)
          PROVE  Adjacent(a, b)' /\ <<a, b>> \in next'
      BY <1>1, <1>2, <1>4, <1>5, <2>1, <3>1 DEF Adjacent
    <3>2. ASSUME Adjacent(a, i), Adjacent(i, b)
          PROVE  Adjacent(a, b)' /\ <<a, b>> \in next'
      <4>1. ASSUME NEW k \in live', section[a].start < section[k].start,
                   section[k].start < section[b].start
            PROVE  FALSE
        <5>1. k \in live /\ section[k].start # section[i].start /\ i \in live
          BY <1>1, <1>6, <3>2 DEF Adjacent
        <5>. QED  BY <1>1, <1>4, <3>2, <4>1, <5>1 DEF Adjacent
      <4>2. section[a].start < section[b].start
        BY <1>1, <1>4, <3>2 DEF Adjacent
      <4>3. Adjacent(a, b)'
        BY <1>4, <2>1, <4>1, <4>2 DEF Adjacent
      <4>4. <<a, b>> \in next'
        BY <1>3, <1>5, <3>2
      <4>. QED  BY <4>3, <4>4
    <3>3. ASSUME Adjacent(a, b)', ~Adjacent(a, b)
          PROVE  Adjacent(a, i) /\ Adjacent(i, b)
      <4>1. PICK k \in live : /\ section[a].start < section[k].start
                              /\ section[k].start < section[b].start
        BY <1>1, <1>4, <2>1, <3>3 DEF Adjacent
      <4>2. \A q \in live : section[a].start < section[q].start
                            /\ section[q].start < section[b].start => q = i
        BY <1>1, <1>4, <2>1, <3>3 DEF Adjacent
      <4>3. i \in live /\ section[a].start < section[i].start
                       /\ section[i].start < section[b].start
        BY <4>1, <4>2
      <4>4. \A q \in live : ~(section[a].start < section[q].start
                              /\ section[q].start < section[i].start)
        BY <1>1, <1>4, <2>1, <4>2, <4>3
      <4>5. \A q \in live : ~(section[i].start < section[q].start
                              /\ section[q].start < section[b].start)
        BY <1>1, <1>4, <2>1, <4>2, <4>3
      <4>. QED  BY <1>1, <2>1, <4>3, <4>4, <4>5 DEF Adjacent
    <3>4. <<a, b>> \in next' <=> Adjacent(a, b) \/ (Adjacent(a, i) /\ Adjacent(i, b))
      BY <1>1, <1>2, <1>3, <1>5, <2>1
    <3>. QED  BY <3>1, <3>2, <3>3, <3>4
  <2>2. CASE ~(a \in live' /\ b \in live')
    <3>1. ~Adjacent(a, b)'
      BY <2>2 DEF Adjacent
    <3>2. ~Adjacent(i, i)
      BY <1>1, <1>4 DEF Adjacent
    <3>3. a \in Previous(i) => a \in live'
      BY <1>1, <1>3, <3>2
    <3>4. b \in Following(i) => b \in live'
      BY <1>1, <1>3, <3>2
    <3>5. <<a, b>> \in next /\ a # i /\ b # i => a \in live' /\ b \in live'
      BY <1>1, <1>2 DEF Adjacent
    <3>. QED  BY <1>5, <2>2, <3>1, <3>3, <3>4, <3>5
  <2>. QED  BY <2>1, <2>2
<1>8. ChainIsTimeOrder'
  <2>1. \A j, k \in live' : section'[j].start = section'[k].start => j = k
    BY <1>1, <1>4, <1>6
  <2>. QED  BY <1>7, <2>1, EdgesChain
<1>9. /\ section' = Remaining(i)
      /\ \A j \in Previous(i) \ {i} : ~section[j].explicit => section[j].end = section[i].start
  <2>1. ASSUME NEW j \in Previous(i) \ {i}, ~section[j].explicit
        PROVE  section[j].end = section[i].start
    <3>1. i \in Following(j)
      <4>1. j \in Ids /\ Adjacent(j, i)
        BY <1>1, <1>3, <2>1
      <4>2. i \in live
        BY <4>1 DEF Adjacent
      <4>. QED  BY <1>2, <4>1, <4>2 DEF Following
    <3>2. PICK n \in Following(j) : StartOf(Following(j)) = section[n].start
      BY <3>1, StartOfNode
    <3>3. n \in Ids /\ j \in live /\ Adjacent(j, i) /\ Adjacent(j, n)
      BY <1>1, <1>2, <1>3, <2>1, <3>2 DEF Following
    <3>4. section[n].start = section[i].start
      BY <1>4, <3>3 DEF Adjacent
    <3>. QED  BY <2>1, <3>2, <3>3, <3>4 DEF ChainInv, DerivedEnds
  <2>. QED  BY <2>1 DEF DeleteSection
<1>10. /\ \A j \in live' : j \notin Previous(i) => section'[j] = section[j]
       /\ \A j \in live' : section[j].explicit => section'[j] = section[j]
       /\ \A j \in live' : j \in Previous(i) /\ ~section[j].explicit
            => section'[j] = [section[j] EXCEPT !.end = StartOf(Following(i))]
  BY <1>1, <1>3, <1>9 DEF Remaining
<1>11. ASSUME NEW nodes, nodes \subseteq live' PROVE StartOf(nodes)' = StartOf(nodes)
  <2>1. CASE nodes = {}
    BY <2>1 DEF StartOf
  <2>2. CASE nodes # {}
    <3>1. (CHOOSE n \in nodes : TRUE) \in live'
      BY <1>11, <2>2
    <3>. QED  BY <1>4, <2>2, <3>1 DEF StartOf
  <2>. QED  BY <2>1, <2>2
<1>12. ~Adjacent(i, i) /\ Following(i) \subseteq live'
  BY <1>1, <1>3, <1>4 DEF Adjacent
<1>13. DerivedEnds'
  <2>1. ASSUME NEW j \in live', j \in Previous(i)
        PROVE  section'[j].explicit \/ section'[j].end = StartOf(Following(j))'
    <3>1. Following(j)' = Following(i)
      <4>1. \A n \in Ids : <<j, n>> \in next /\ n # i => FALSE
        <5>1. ASSUME NEW n \in Ids, Adjacent(j, n), Adjacent(j, i) PROVE n = i
          <6>1. section[n].start = section[i].start
            BY <1>1, <1>4, <5>1 DEF Adjacent
          <6>. QED  BY <1>6, <5>1, <6>1 DEF Adjacent
        <5>. QED  BY <1>1, <1>2, <1>3, <2>1, <5>1
      <4>2. \A n \in Ids : <<j, n>> \in next' <=> n \in Following(i)
        BY <1>1, <1>5, <2>1, <4>1
      <4>. QED  BY <1>1, <1>12, <4>2 DEF Following
    <3>2. section[j] \in Section
      BY <1>1, <2>1 DEF TypeOK
    <3>3. CASE section[j].explicit
      BY <1>10, <2>1, <3>3
    <3>4. CASE ~section[j].explicit
      <4>1. section'[j].end = StartOf(Following(i))
        BY <1>10, <2>1, <3>2, <3>4 DEF Section
      <4>. QED  BY <1>11, <1>12, <3>1, <4>1
    <3>. QED  BY <3>3, <3>4
  <2>2. ASSUME NEW j \in live', j \notin Previous(i)
        PROVE  section'[j].explicit \/ section'[j].end = StartOf(Following(j))'
    <3>1. \A n \in Ids : <<j, n>> \in next' <=> <<j, n>> \in next
      <4>1. <<j, i>> \notin next
        BY <1>1, <1>2, <1>3, <2>2
      <4>. QED  BY <1>1, <1>5, <2>2, <4>1
    <3>2. <<j, i>> \notin next
      BY <1>1, <1>2, <1>3, <2>2
    <3>3. Following(j)' = Following(j) /\ Following(j) \subseteq live'
      BY <1>1, <3>1, <3>2 DEF Following
    <3>4. section'[j] = section[j] /\ j \in live
      BY <1>1, <1>10, <2>2
    <3>. QED  BY <1>11, <3>3, <3>4 DEF ChainInv, DerivedEnds
  <2>. QED  BY <2>1, <2>2 DEF DerivedEnds
<1>14. EndNotBeforeStart'
  <2>1. ASSUME NEW j \in live', j \in Previous(i), ~section[j].explicit
        PROVE  section'[j].end = Open \/ section'[j].end >= section'[j].start
    <3>1. section'[j].end = StartOf(Following(i))
      <4>1. section[j] \in Section
        BY <1>1, <2>1 DEF TypeOK
      <4>. QED  BY <1>10, <2>1, <4>1 DEF Section
    <3>2. CASE Following(i) = {}
      BY <3>1, <3>2, StartOfNode
    <3>3. CASE Following(i) # {}
      <4>1. PICK n \in Following(i) : StartOf(Following(i)) = section[n].start
        BY <3>3, StartOfNode
      <4>2. n \in Ids /\ Adjacent(j, i) /\ Adjacent(i, n)
        BY <1>1, <1>3, <2>1, <4>1
      <4>. QED  BY <1>1, <1>4, <2>1, <3>1, <4>1, <4>2 DEF Adjacent
    <3>. QED  BY <3>2, <3>3
  <2>2. ASSUME NEW j \in live', j \notin Previous(i) \/ section[j].explicit
        PROVE  section'[j].end = Open \/ section'[j].end >= section'[j].start
    <3>1. section'[j] = section[j] /\ j \in live
      BY <1>1, <1>10, <2>2
    <3>. QED  BY <3>1 DEF ChainInv, EndNotBeforeStart
  <2>. QED  BY <2>1, <2>2 DEF EndNotBeforeStart
<1>15. ExplicitGiven'
  <2>1. ASSUME NEW j \in live' PROVE section'[j].explicit => section[j].explicit
    <3>1. section[j] \in Section
      BY <1>1 DEF TypeOK
    <3>2. CASE j \in Previous(i) /\ ~section[j].explicit
      BY <1>10, <3>1, <3>2 DEF Section
    <3>3. CASE ~(j \in Previous(i) /\ ~section[j].explicit)
      BY <1>10, <3>3
    <3>. QED  BY <3>2, <3>3
  <2>. QED  BY <1>1, <1>10, <2>1 DEF ChainInv, ExplicitGiven
<1>16. DeadAreBlank'
  <2>1. \A j \in Ids \ live : section'[j] = Blank
    BY <1>3, <1>9 DEF ChainInv, DeadAreBlank, Remaining
  <2>2. section'[i] = Blank
    BY <1>9 DEF Remaining
  <2>. QED  BY <1>1, <2>1, <2>2 DEF DeadAreBlank
<1>. QED  BY <1>8, <1>13, <1>14, <1>15, <1>16 DEF ChainInv

(* A nonempty set of naturals has a least member, and, if bounded, a       *)
(* greatest.                                                               *)
LEMMA LeastNatural ==
  ASSUME NEW T \in SUBSET Nat, T # {}
  PROVE  \E x \in T : \A y \in T : x <= y
<1>. DEFINE U == {0..x : x \in T}
<1>1. U \subseteq FiniteSubsetsOf(Nat) /\ U # {}
  <2>1. \A x \in T : IsFiniteSet(0..x) /\ 0..x \subseteq Nat
    BY FS_Interval
  <2>. QED  BY <2>1 DEF FiniteSubsetsOf
<1>2. PICK u \in U : \A v \in U : ~ (<<v, u>> \in StrictSubsetOrdering(Nat))
  <2>. HIDE DEF U
  <2>. QED  BY <1>1, WFMin, FS_StrictSubsetOrderingWellFounded
<1>3. PICK x \in T : u = 0..x
  BY <1>2
<1>4. ASSUME NEW y \in T PROVE x <= y
  <2>1. SUFFICES ASSUME y < x PROVE FALSE
    OBVIOUS
  <2>2. 0..y \subseteq 0..x /\ 0..y # 0..x
    <3>1. x \in 0..x /\ x \notin 0..y
      BY <2>1
    <3>. QED  BY <2>1, <3>1
  <2>3. <<0..y, 0..x>> \in StrictSubsetOrdering(Nat)
    BY <2>2 DEF StrictSubsetOrdering
  <2>. QED  BY <1>2, <1>3, <2>3
<1>. QED  BY <1>4

LEMMA GreatestNatural ==
  ASSUME NEW T \in SUBSET Nat, T # {}, NEW m \in Nat, \A x \in T : x <= m
  PROVE  \E x \in T : \A y \in T : y <= x
<1>. DEFINE U == {m - x : x \in T}
<1>1. U \in SUBSET Nat /\ U # {}
  <2>1. \A x \in T : m - x \in Nat
    OBVIOUS
  <2>. QED  BY <2>1
<1>2. PICK u \in U : \A v \in U : u <= v
  <2>. HIDE DEF U
  <2>. QED  BY <1>1, LeastNatural
<1>3. PICK x \in T : u = m - x
  BY <1>2
<1>4. \A y \in T : y <= x
  BY <1>2, <1>3
<1>. QED  BY <1>4

(* A section that has others before it follows one, and likewise after.    *)
LEMMA Neighbours ==
  ASSUME TypeOK, NEW i \in live, NEW j \in live
  PROVE  /\ section[j].start < section[i].start
              => \E p \in live : Adjacent(p, i) /\ section[j].start <= section[p].start
         /\ section[i].start < section[j].start
              => \E n \in live : Adjacent(i, n) /\ section[n].start <= section[j].start
<1>1. \A k \in live : section[k].start \in Nat /\ section[k].start <= MaxMs
  BY PositionAssumption DEF TypeOK, Section, Ms
<1>2. ASSUME section[j].start < section[i].start
      PROVE  \E p \in live : Adjacent(p, i) /\ section[j].start <= section[p].start
  <2>. DEFINE T == {section[k].start : k \in {q \in live : section[q].start < section[i].start}}
  <2>1. T \in SUBSET Nat /\ T # {} /\ \A x \in T : x <= MaxMs
    BY <1>1, <1>2
  <2>2. PICK x \in T : \A y \in T : y <= x
    <3>. HIDE DEF T
    <3>. QED  BY <2>1, GreatestNatural, PositionAssumption
  <2>3. PICK p \in live : section[p].start < section[i].start /\ x = section[p].start
    BY <2>2
  <2>4. Adjacent(p, i)
    BY <1>1, <2>2, <2>3 DEF Adjacent
  <2>. QED  BY <1>2, <2>2, <2>3, <2>4
<1>3. ASSUME section[i].start < section[j].start
      PROVE  \E n \in live : Adjacent(i, n) /\ section[n].start <= section[j].start
  <2>. DEFINE T == {section[k].start : k \in {q \in live : section[i].start < section[q].start}}
  <2>1. T \in SUBSET Nat /\ T # {}
    BY <1>1, <1>3
  <2>2. PICK x \in T : \A y \in T : x <= y
    <3>. HIDE DEF T
    <3>. QED  BY <2>1, LeastNatural
  <2>3. PICK n \in live : section[i].start < section[n].start /\ x = section[n].start
    BY <2>2
  <2>4. Adjacent(i, n)
    BY <1>1, <2>2, <2>3 DEF Adjacent
  <2>. QED  BY <1>3, <2>2, <2>3, <2>4
<1>. QED  BY <1>2, <1>3

(* A move that the query allows passes no other boundary.                  *)
LEMMA MoveInPlace ==
  ASSUME TypeOK, ChainInv, NEW i \in live, NEW at \in Ms, MayMove(i, at)
  PROVE  \A j \in live \ {i} : /\ section[j].start # at
                               /\ section[j].start < at <=> section[j].start < section[i].start
<1>. SUFFICES ASSUME NEW j \in live \ {i}
              PROVE  /\ section[j].start # at
                     /\ section[j].start < at <=> section[j].start < section[i].start
  OBVIOUS
<1>1. live \subseteq Ids /\ at \in Int /\ \A k \in live : section[k].start \in Int
  BY StartInt DEF TypeOK, Ms
<1>2. section[j].start # section[i].start
  BY DEF ChainInv, ChainIsTimeOrder
<1>3. CASE section[j].start < section[i].start
  <2>1. PICK p \in live : Adjacent(p, i) /\ section[j].start <= section[p].start
    BY <1>3, Neighbours
  <2>2. p \in Previous(i)
    BY <1>1, <2>1, ChainEdges DEF ChainInv, Previous
  <2>3. at > section[p].start
    BY <2>2 DEF MayMove
  <2>. QED  BY <1>1, <1>3, <2>1, <2>3
<1>4. CASE section[i].start < section[j].start
  <2>1. PICK n \in live : Adjacent(i, n) /\ section[n].start <= section[j].start
    BY <1>4, Neighbours
  <2>2. n \in Following(i)
    BY <1>1, <2>1, ChainEdges DEF ChainInv, Following
  <2>3. at < section[n].start
    BY <2>2 DEF MayMove
  <2>. QED  BY <1>1, <1>4, <2>1, <2>3
<1>. QED  BY <1>1, <1>2, <1>3, <1>4

(* What a move writes.                                                     *)
LEMMA MoveWrites ==
  ASSUME TypeOK, ChainInv, NEW i \in live, NEW at \in Ms, MoveSection(i, at)
  PROVE  /\ live' = live /\ next' = next
         /\ i \notin Previous(i)
         /\ section'[i].start = at
         /\ section'[i].end = section[i].end
         /\ section'[i].explicit = section[i].explicit
         /\ section'[i].order = section[i].order
         /\ \A j \in Ids \ {i} : j \notin Previous(i) \/ section[j].explicit
              => section'[j] = section[j]
         /\ \A j \in Previous(i) : ~section[j].explicit
              => section'[j] = [section[j] EXCEPT !.end = at]
         /\ \A j \in Ids \ {i} : section'[j].start = section[j].start
<1>1. live \subseteq Ids /\ \A a, b \in Ids : <<a, b>> \in next <=> Adjacent(a, b)
  BY ChainEdges DEF ChainInv, TypeOK
<1>2. i \notin Previous(i)
  BY <1>1, StartInt DEF Previous, Adjacent
<1>3. section'[i] = [section[i] EXCEPT !.start = at] /\ section[i] \in Section
  BY <1>1 DEF MoveSection, TypeOK
<1>4. \A j \in Previous(i) : ~section[j].explicit => section[j].end = section[i].start
  <2>1. ASSUME NEW j \in Previous(i), ~section[j].explicit
        PROVE  section[j].end = section[i].start
    <3>1. j \in live /\ i \in Following(j)
      BY <2>1 DEF Previous, Following
    <3>2. PICK n \in Following(j) : StartOf(Following(j)) = section[n].start
      BY <3>1, StartOfNode
    <3>3. Adjacent(j, i) /\ Adjacent(j, n)
      BY <1>1, <3>1, <3>2 DEF Following
    <3>4. section[n].start = section[i].start
      BY <1>1, <3>3, StartInt DEF Adjacent
    <3>. QED  BY <2>1, <3>1, <3>2, <3>4 DEF ChainInv, DerivedEnds
  <2>. QED  BY <2>1
<1>5. \A j \in Ids \ {i} : j \notin Previous(i) \/ section[j].explicit => section'[j] = section[j]
  BY DEF MoveSection
<1>6. \A j \in Previous(i) : ~section[j].explicit => section'[j] = [section[j] EXCEPT !.end = at]
  BY <1>1, <1>2, <1>4 DEF MoveSection, Previous
<1>7. \A j \in Ids \ {i} : section'[j].start = section[j].start
  BY DEF MoveSection, TypeOK, Section
<1>. QED  BY <1>2, <1>3, <1>5, <1>6, <1>7 DEF MoveSection, Section

(* A move keeps the chain.                                                 *)
LEMMA ChainMove ==
  ASSUME TypeOK, TypeOK', ChainInv, NEW i \in live, NEW at \in Ms,
         MayMove(i, at), MoveSection(i, at)
  PROVE  ChainInv'
<1>1. live \subseteq Ids /\ live' = live /\ next' = next /\ at \in Int
  BY DEF TypeOK, MoveSection, Ms
<1>2. \A j \in live \ {i} : /\ section[j].start # at
                            /\ section[j].start < at <=> section[j].start < section[i].start
                            /\ section'[j].start = section[j].start
  BY <1>1, MoveInPlace, MoveWrites
<1>3. section'[i].start = at /\ \A j \in live : section[j].start \in Int
  BY <1>1, MoveWrites, StartInt
<1>4. \A a, b \in live : /\ section[a].start = section[b].start => a = b
                         /\ section'[a].start < section'[b].start
                              <=> section[a].start < section[b].start
  BY <1>1, <1>2, <1>3 DEF ChainInv, ChainIsTimeOrder
<1>5. \A a, b \in Ids : <<a, b>> \in next' <=> Adjacent(a, b)'
  <2>1. \A a, b \in Ids : Adjacent(a, b)' <=> Adjacent(a, b)
    BY <1>1, <1>4 DEF Adjacent
  <2>. QED  BY <1>1, <2>1, ChainEdges DEF ChainInv
<1>6. ChainIsTimeOrder'
  <2>1. \A j, k \in live' : section'[j].start = section'[k].start => j = k
    BY <1>1, <1>2, <1>3, <1>4
  <2>. QED  BY <1>5, <2>1, EdgesChain
<1>7. \A j : Following(j)' = Following(j)
  BY <1>1 DEF Following
<1>8. DerivedEnds'
  <2>1. ASSUME NEW j \in live, i \notin Following(j)
        PROVE  section'[j].explicit \/ section'[j].end = StartOf(Following(j))'
    <3>1. StartOf(Following(j))' = StartOf(Following(j))
      <4>1. CASE Following(j) = {}
        BY <1>7, <4>1 DEF StartOf
      <4>2. CASE Following(j) # {}
        <5>1. (CHOOSE n \in Following(j) : TRUE) \in live \ {i}
          BY <2>1, <4>2 DEF Following
        <5>. QED  BY <1>2, <1>7, <4>2, <5>1 DEF StartOf
      <4>. QED  BY <4>1, <4>2
    <3>2. j \notin Previous(i)
      BY <2>1 DEF Previous, Following
    <3>3. section'[j].end = section[j].end /\ section'[j].explicit = section[j].explicit
      BY <1>1, <3>2, MoveWrites
    <3>. QED  BY <3>1, <3>3 DEF ChainInv, DerivedEnds
  <2>2. ASSUME NEW j \in live, i \in Following(j)
        PROVE  section'[j].explicit \/ section'[j].end = StartOf(Following(j))'
    <3>1. j \in Previous(i) /\ j # i
      BY <2>2, MoveWrites DEF Previous, Following
    <3>2. Following(j) = {i}
      <4>1. ASSUME NEW n \in Following(j) PROVE n = i
        <5>1. Adjacent(j, n) /\ Adjacent(j, i) /\ n \in live
          BY <1>1, <2>2, <4>1, ChainEdges DEF ChainInv, Following
        <5>2. section[n].start = section[i].start
          BY <1>3, <5>1 DEF Adjacent
        <5>. QED  BY <1>4, <5>1, <5>2
      <4>. QED  BY <2>2, <4>1
    <3>3. StartOf(Following(j))' = at
      BY <1>3, <1>7, <3>2 DEF StartOf
    <3>4. CASE section[j].explicit
      <4>1. section'[j] = section[j]
        BY <1>1, <3>1, <3>4, MoveWrites
      <4>. QED  BY <3>4, <4>1
    <3>5. CASE ~section[j].explicit
      <4>1. section'[j] = [section[j] EXCEPT !.end = at] /\ section[j] \in Section
        BY <1>1, <3>1, <3>5, MoveWrites DEF TypeOK
      <4>. QED  BY <3>3, <4>1 DEF Section
    <3>. QED  BY <3>4, <3>5
  <2>. QED  BY <1>1, <2>1, <2>2 DEF DerivedEnds
<1>9. EndNotBeforeStart'
  <2>1. section'[i].end = Open \/ section'[i].end >= section'[i].start
    BY <1>1, <1>3, MoveWrites, StartInt DEF MayMove
  <2>2. ASSUME NEW j \in live \ {i}, j \notin Previous(i) \/ section[j].explicit
        PROVE  section'[j].end = Open \/ section'[j].end >= section'[j].start
    <3>1. section'[j] = section[j]
      BY <1>1, <2>2, MoveWrites
    <3>. QED  BY <3>1 DEF ChainInv, EndNotBeforeStart
  <2>3. ASSUME NEW j \in live \ {i}, j \in Previous(i), ~section[j].explicit
        PROVE  section'[j].end = Open \/ section'[j].end >= section'[j].start
    <3>1. section'[j] = [section[j] EXCEPT !.end = at] /\ section[j] \in Section
      BY <1>1, <2>3, MoveWrites DEF TypeOK
    <3>2. section'[j].end = at
      BY <3>1 DEF Section
    <3>3. section[j].start < at
      BY <2>3 DEF MayMove
    <3>. QED  BY <1>1, <1>2, <1>3, <3>2, <3>3
  <2>. QED  BY <1>1, <2>1, <2>2, <2>3 DEF EndNotBeforeStart
<1>10. ExplicitGiven'
  <2>1. ASSUME NEW j \in live \ {i} PROVE section'[j].explicit => section'[j] = section[j]
    <3>1. section[j] \in Section
      BY <1>1 DEF TypeOK
    <3>2. CASE j \in Previous(i) /\ ~section[j].explicit
      <4>1. section'[j] = [section[j] EXCEPT !.end = at]
        BY <3>2, MoveWrites
      <4>. QED  BY <3>1, <3>2, <4>1 DEF Section
    <3>3. CASE ~(j \in Previous(i) /\ ~section[j].explicit)
      BY <1>1, <3>3, MoveWrites
    <3>. QED  BY <3>2, <3>3
  <2>2. section'[i].explicit => section'[i].end # Open
    BY MoveWrites DEF ChainInv, ExplicitGiven
  <2>. QED  BY <1>1, <2>1, <2>2 DEF ChainInv, ExplicitGiven
<1>11. DeadAreBlank'
  <2>1. ASSUME NEW j \in Ids \ live PROVE section'[j] = section[j]
    <3>1. j # i /\ j \notin Previous(i)
      BY DEF Previous
    <3>. QED  BY <3>1, MoveWrites
  <2>. QED  BY <1>1, <2>1 DEF ChainInv, DeadAreBlank
<1>. QED  BY <1>6, <1>8, <1>9, <1>10, <1>11 DEF ChainInv

LEMMA ChainInit == Init => ChainInv
BY DEF Init, ChainInv, ChainIsTimeOrder, DerivedEnds, EndNotBeforeStart, ExplicitGiven,
       DeadAreBlank

(* What changes the sections: an insert, a delete, or a move.              *)
GraphStep ==
  \/ \E i \in Ids, at \in Ms, end \in Ms \cup {Open}, order \in Orders :
       /\ i \notin live /\ ~TrackTaken(at) /\ (end = Open \/ end >= at)
       /\ InsertSection(i, at, end, order)
  \/ \E i \in Ids : DeleteSection(i)
  \/ \E i \in live, at \in Ms : MayMove(i, at) /\ MoveSection(i, at)
  \/ UNCHANGED <<live, section, next>>

LEMMA OnlyGraphSteps == TypeOK /\ [Next]_vars => GraphStep
<1>. SUFFICES ASSUME TypeOK, [Next]_vars PROVE GraphStep
  OBVIOUS
<1>1. ASSUME NEW s \in Sessions, NEW i \in Ids, NEW at \in Ms,
             NEW end \in ExplicitEnds \cup {Open}, AddSection(s, i, at, end)
      PROVE  GraphStep
  <2>1. claim[s] \in Orders
    BY <1>1, OpenType DEF TypeOK, AddSection
  <2>2. end \in Ms \cup {Open}
    BY PositionAssumption DEF Ms
  <2>. QED  BY <1>1, <2>1, <2>2 DEF AddSection, GraphStep
<1>2. ASSUME NEW s \in Sessions, Undo_Section(s) PROVE GraphStep
  <2>1. Top(s).id \in Ids
    BY <1>2, TopType DEF Undo_Section, Record
  <2>. QED  BY <1>2, <2>1 DEF Undo_Section, GraphStep
<1>3. ASSUME NEW s \in Sessions, NEW delta \in {Step, -Step}, Nudge(s, delta) PROVE GraphStep
  <2>1. CASE Top(s).kind = "section"
    <3>1. Top(s).at \in Ms
      BY <1>3, TopType DEF Nudge, Record
    <3>2. NudgedTo(s, delta) \in Ms
      BY <1>3, <3>1, PositionAssumption DEF Nudge, NudgedTo, Ms
    <3>. QED  BY <1>3, <2>1, <3>2 DEF Nudge, GraphStep, MayMove
  <2>2. CASE Top(s).kind # "section"
    BY <1>3, <2>2 DEF Nudge, GraphStep
  <2>. QED  BY <2>1, <2>2
<1>4. ASSUME NEW s \in Sessions,
             \/ \E k \in Orders : ClaimSectionOrder(s, k)
             \/ \E at \in Ms : AddSection_Fails(s, at)
             \/ \E i \in Ids, at \in Ms : AddPin(s, i, at)
             \/ Undo_Pin(s)
             \/ EndSession(s)
      PROVE  GraphStep
  BY <1>4 DEF GraphStep, ClaimSectionOrder, AddSection_Fails, AddPin, Undo_Pin, EndSession
<1>5. CASE CrawlTrack \/ UNCHANGED vars
  BY <1>5 DEF GraphStep, CrawlTrack, vars
<1>. QED  BY <1>1, <1>2, <1>3, <1>4, <1>5 DEF Next, Capture

LEMMA ChainNext == TypeOK /\ TypeOK' /\ ChainInv /\ GraphStep => ChainInv'
<1>. SUFFICES ASSUME TypeOK, TypeOK', ChainInv, GraphStep PROVE ChainInv'
  OBVIOUS
<1>1. CASE UNCHANGED <<live, section, next>>
  <2>1. ChainIsTimeOrder'
    BY <1>1 DEF ChainInv, ChainIsTimeOrder
  <2>2. DerivedEnds'
    BY <1>1 DEF ChainInv, DerivedEnds, StartOf, Following
  <2>3. EndNotBeforeStart' /\ ExplicitGiven' /\ DeadAreBlank'
    BY <1>1 DEF ChainInv, EndNotBeforeStart, ExplicitGiven, DeadAreBlank
  <2>. QED  BY <2>1, <2>2, <2>3 DEF ChainInv
<1>. QED  BY <1>1, ChainInsert, ChainDelete, ChainMove DEF GraphStep

THEOREM ChainCorrect == Spec => [](TypeOK /\ ChainInv)
<1>1. Init => TypeOK /\ ChainInv
  BY TypeInit, ChainInit
<1>2. TypeOK /\ ChainInv /\ [Next]_vars => (TypeOK /\ ChainInv)'
  BY TypeNext, OnlyGraphSteps, ChainNext
<1>. QED  BY <1>1, <1>2, PTL DEF Spec

(* NEXT is the time order of the sections.                                 *)
THEOREM ChainOrdered == Spec => []ChainIsTimeOrder
<1>1. TypeOK /\ ChainInv => ChainIsTimeOrder
  BY DEF ChainInv
<1>. QED  BY <1>1, ChainCorrect, PTL

(* An end that nobody gave is where the next section starts.               *)
THEOREM EndsFollowNeighbours == Spec => []DerivedEnds
<1>1. TypeOK /\ ChainInv => DerivedEnds
  BY DEF ChainInv
<1>. QED  BY <1>1, ChainCorrect, PTL

(* No section ends before it starts.                                       *)
THEOREM NoInvertedSection == Spec => []EndNotBeforeStart
<1>1. TypeOK /\ ChainInv => EndNotBeforeStart
  BY DEF ChainInv
<1>. QED  BY <1>1, ChainCorrect, PTL

-----------------------------------------------------------------------------
(* Undo.                                                                   *)

(* Deleting what was just inserted gives back the graph.                   *)
LEMMA UndoInsert ==
  ASSUME TypeOK, ChainInv,
         NEW i \in Ids, i \notin live, NEW at \in Ms, NEW end \in Ms \cup {Open},
         NEW order \in Orders, ~TrackTaken(at), InsertSection(i, at, end, order)
  PROVE  DeletedGraph(i)' = graph
<1>. DEFINE Before == LatestBefore(at)
            After  == EarliestAfter(at)
<1>1. /\ live' = live \cup {i} /\ live \subseteq Ids /\ at \in Int
      /\ next \subseteq live \X live
      /\ i \notin Before /\ i \notin After /\ Before \subseteq live /\ After \subseteq live
  BY DEF InsertSection, TypeOK, LatestBefore, EarliestAfter, Ms, ChainInv, ChainIsTimeOrder
<1>2. \A j \in live : section[j].start \in Int /\ section[j].start # at
  BY <1>1, StartInt DEF TrackTaken
<1>3. next' = (next \ (Before \X Ids)) \cup (Before \X {i}) \cup ({i} \X After)
  BY DEF InsertSection, Chained
<1>4. /\ section'[i].start = at
      /\ \A j \in Ids \ {i} : section'[j].start = section[j].start
      /\ \A j \in Before : ~section[j].explicit => section'[j] = [section[j] EXCEPT !.end = at]
      /\ \A j \in Ids \ {i} : j \notin Before \/ section[j].explicit => section'[j] = section[j]
  <2>1. section'[i].start = at
    BY NewSectionFields DEF InsertSection
  <2>2. \A j \in Ids \ {i} : section'[j].start = section[j].start
    BY DEF InsertSection, TypeOK, Section
  <2>. QED  BY <1>1, <2>1, <2>2 DEF InsertSection
<1>5. \A j \in Before : /\ \A n \in live : <<j, n>> \in next <=> n \in After
                        /\ Following(j) = After
  <2>1. ASSUME NEW j \in Before, NEW n \in live PROVE <<j, n>> \in next <=> n \in After
    <3>1. <<j, n>> \in next <=> Adjacent(j, n)
      BY <1>1, ChainEdges DEF ChainInv
    <3>2. /\ section[j].start < at
          /\ \A q \in live : section[q].start < at => section[q].start <= section[j].start
      BY DEF LatestBefore
    <3>3. n \in After <=> /\ section[n].start > at
                          /\ \A q \in live : section[q].start > at
                               => section[q].start >= section[n].start
      BY DEF EarliestAfter
    <3>4. Adjacent(j, n) <=> n \in After
      BY <1>1, <1>2, <3>2, <3>3 DEF Adjacent
    <3>. QED  BY <3>1, <3>4
  <2>. QED  BY <1>1, <2>1 DEF Following
<1>. HIDE DEF Before, After
<1>6. Previous(i)' = Before /\ Following(i)' = After
  BY <1>1, <1>3 DEF Previous, Following
<1>7. Bridged(i)' = next
  <2>1. Bridged(i)' = (next' \ (({i} \X Ids) \cup (Ids \X {i}))) \cup (Before \X After)
    BY <1>6 DEF Bridged
  <2>2. \A a, b \in live : <<a, b>> \in Bridged(i)' <=> <<a, b>> \in next
    BY <1>1, <1>3, <1>5, <2>1
  <2>3. Bridged(i)' \subseteq live \X live
    BY <1>1, <1>3, <2>1
  <2>4. ASSUME NEW N, N \subseteq live \X live,
               \A a, b \in live : <<a, b>> \in N <=> <<a, b>> \in next
        PROVE  N = next
    BY <1>1, <2>4
  <2>. QED  BY <2>2, <2>3, <2>4
<1>8. StartOf(Following(i))' = StartOf(After)
  <2>1. CASE After = {}
    BY <1>6, <2>1 DEF StartOf
  <2>2. CASE After # {}
    <3>1. (CHOOSE n \in After : TRUE) \in Ids \ {i}
      BY <1>1, <2>2
    <3>. QED  BY <1>4, <1>6, <2>2, <3>1 DEF StartOf
  <2>. QED  BY <2>1, <2>2
<1>9. ASSUME NEW j \in Ids
      PROVE  section[j] = IF j = i THEN Blank
                          ELSE IF j \in Before /\ section'[j].end = section'[i].start
                                    /\ ~section'[j].explicit
                               THEN [section'[j] EXCEPT !.end = StartOf(Following(i))']
                               ELSE section'[j]
  <2>1. CASE j = i
    BY <2>1 DEF ChainInv, DeadAreBlank
  <2>2. CASE j \in Before /\ ~section[j].explicit
    <3>1. section[j] \in Section /\ j \in live /\ j # i
      BY <1>1, <2>2 DEF TypeOK
    <3>2. section'[j] = [section[j] EXCEPT !.end = at]
      BY <1>4, <2>2
    <3>3. section[j].end = StartOf(After)
      BY <1>5, <2>2, <3>1 DEF ChainInv, DerivedEnds
    <3>4. section'[j].end = at /\ ~section'[j].explicit
      BY <2>2, <3>1, <3>2 DEF Section
    <3>5. [section'[j] EXCEPT !.end = StartOf(After)] = section[j]
      BY <3>1, <3>2, <3>3 DEF Section
    <3>. QED  BY <1>4, <1>8, <2>2, <3>1, <3>4, <3>5
  <2>3. CASE j # i /\ ~(j \in Before /\ ~section[j].explicit)
    <3>1. section'[j] = section[j]
      BY <1>4, <2>3
    <3>. QED  BY <2>3, <3>1
  <2>. QED  BY <2>1, <2>2, <2>3
<1>10. Remaining(i)' = section
  <2>1. section = [j \in Ids |-> section[j]]
    BY DEF TypeOK
  <2>. QED  BY <1>6, <1>9, <2>1 DEF Remaining
<1>. QED  BY <1>1, <1>7, <1>10 DEF DeletedGraph, graph

(* Deleting what was just moved gives what deleting it before would.       *)
LEMMA UndoMove ==
  ASSUME TypeOK, ChainInv, NEW i \in live, NEW at \in Ms,
         MayMove(i, at), MoveSection(i, at)
  PROVE  DeletedGraph(i)' = DeletedGraph(i)
<1>1. live' = live /\ next' = next /\ live \subseteq Ids /\ i \in Ids
  BY DEF MoveSection, TypeOK
<1>2. Previous(i)' = Previous(i) /\ Following(i)' = Following(i)
  BY <1>1 DEF Previous, Following
<1>3. Bridged(i)' = Bridged(i)
  BY <1>1, <1>2 DEF Bridged
<1>4. i \notin Following(i)
  BY <1>1, MoveWrites DEF Previous, Following
<1>5. StartOf(Following(i))' = StartOf(Following(i))
  <2>1. CASE Following(i) = {}
    BY <1>2, <2>1 DEF StartOf
  <2>2. CASE Following(i) # {}
    <3>1. (CHOOSE n \in Following(i) : TRUE) \in Ids \ {i}
      BY <1>1, <1>4, <2>2 DEF Following
    <3>. QED  BY <1>2, <2>2, <3>1, MoveWrites DEF StartOf
  <2>. QED  BY <2>1, <2>2
<1>6. \A j \in Previous(i) : ~section[j].explicit => section[j].end = section[i].start
  <2>1. ASSUME NEW j \in Previous(i), ~section[j].explicit
        PROVE  section[j].end = section[i].start
    <3>1. j \in live /\ i \in Following(j)
      BY <2>1 DEF Previous, Following
    <3>2. PICK n \in Following(j) : StartOf(Following(j)) = section[n].start
      BY <3>1, StartOfNode
    <3>3. Adjacent(j, i) /\ Adjacent(j, n)
      BY <1>1, <3>1, <3>2, ChainEdges DEF ChainInv, Following
    <3>4. section[n].start = section[i].start
      BY <1>1, <3>3, StartInt DEF Adjacent
    <3>. QED  BY <2>1, <3>1, <3>2, <3>4 DEF ChainInv, DerivedEnds
  <2>. QED  BY <2>1
<1>7. ASSUME NEW j \in Ids, j # i
      PROVE  Remaining(i)'[j] = Remaining(i)[j]
  <2>1. CASE j \in Previous(i) /\ ~section[j].explicit
    <3>1. section'[j] = [section[j] EXCEPT !.end = at] /\ section[j] \in Section
      BY <2>1, MoveWrites DEF TypeOK
    <3>2. section'[j].end = section'[i].start /\ ~section'[j].explicit
      BY <2>1, <3>1, MoveWrites DEF Section
    <3>3. Remaining(i)'[j] = [section'[j] EXCEPT !.end = StartOf(Following(i))]
      BY <1>2, <1>5, <1>7, <2>1, <3>2 DEF Remaining
    <3>4. Remaining(i)[j] = [section[j] EXCEPT !.end = StartOf(Following(i))]
      BY <1>6, <1>7, <2>1 DEF Remaining
    <3>. QED  BY <3>1, <3>3, <3>4 DEF Section
  <2>2. CASE ~(j \in Previous(i) /\ ~section[j].explicit)
    <3>1. section'[j] = section[j]
      BY <1>1, <1>7, <2>2, MoveWrites
    <3>2. Remaining(i)'[j] = section[j]
      BY <1>2, <1>7, <2>2, <3>1 DEF Remaining
    <3>3. Remaining(i)[j] = section[j]
      BY <1>7, <2>2 DEF Remaining
    <3>. QED  BY <3>2, <3>3
  <2>. QED  BY <2>1, <2>2
<1>8. Remaining(i)' = Remaining(i)
  <2>1. Remaining(i)'[i] = Remaining(i)[i]
    BY <1>1 DEF Remaining
  <2>2. Remaining(i)' = [j \in Ids |-> Remaining(i)'[j]] /\ Remaining(i) = [j \in Ids |-> Remaining(i)[j]]
    BY DEF Remaining
  <2>. QED  BY <1>7, <2>1, <2>2
<1>. QED  BY <1>1, <1>3, <1>8 DEF DeletedGraph

(* What an undo deletes is what the capture, nudged or not, had added.     *)
LEMMA UndoStep ==
  ASSUME TypeOK, ChainInv, GraphStep, NEW i \in live'
  PROVE  /\ live' \ live = {i} => DeletedGraph(i)' = graph
         /\ live' = live /\ section'[i].start # section[i].start
              => DeletedGraph(i)' = DeletedGraph(i)
<1>1. ASSUME NEW k \in Ids, NEW at \in Ms, NEW end \in Ms \cup {Open}, NEW order \in Orders,
             k \notin live, ~TrackTaken(at), InsertSection(k, at, end, order)
      PROVE  /\ live' \ live = {i} => i = k
             /\ live' # live
  BY <1>1 DEF InsertSection
<1>2. ASSUME NEW k \in Ids, DeleteSection(k)
      PROVE  /\ live' \ live # {i}
             /\ section'[i].start = section[i].start
  <2>1. i \in live /\ i # k /\ live \subseteq Ids
    BY <1>2 DEF DeleteSection, TypeOK
  <2>. QED  BY <1>2, <2>1 DEF DeleteSection, Remaining, TypeOK, Section
<1>3. ASSUME NEW k \in live, NEW at \in Ms, MayMove(k, at), MoveSection(k, at)
      PROVE  /\ live' = live
             /\ section'[i].start # section[i].start => i = k
  <2>1. live' = live /\ live \subseteq Ids
    BY <1>3 DEF MoveSection, TypeOK
  <2>. QED  BY <1>3, <2>1, MoveWrites
<1>. QED  BY <1>1, <1>2, <1>3, UndoInsert, UndoMove DEF GraphStep

THEOREM UndoGivesBack == Spec => UndoRestores
<1>1. TypeOK /\ ChainInv /\ [Next]_vars
        => [\A i \in live' :
              (live' \ live = {i} => DeletedGraph(i)' = graph)
              /\ (live' = live /\ section'[i].start # section[i].start
                    => DeletedGraph(i)' = DeletedGraph(i))]_vars
  BY OnlyGraphSteps, UndoStep
<1>. QED  BY <1>1, ChainCorrect, PTL DEF Spec, UndoRestores

-----------------------------------------------------------------------------
(* The refinement.                                                         *)

LEMMA MappedTimeline ==
  ASSUME TypeOK, ChainInv
  PROVE  /\ Line!Present = live
         /\ Line!None = Open
         /\ \A i \in live : Line!Following(i) = Following(i)
<1>1. Line!None = Open
  BY DEF Line!None, Open
<1>2. live \subseteq Ids /\ \A i \in live : section[i].start \in Ms
  BY DEF TypeOK, Section
<1>3. Line!Present = live
  BY <1>1, <1>2, OpenType DEF Line!Present, TimelineAt
<1>4. \A i \in live : TimelineAt[i] = section[i].start
  BY <1>2 DEF TimelineAt
<1>5. ASSUME NEW i \in live PROVE Line!Following(i) = Following(i)
  <2>1. \A j \in live : j \in Line!Following(i) <=> Adjacent(i, j)
    BY <1>3, <1>4 DEF Line!Following, Adjacent
  <2>2. \A j \in live : j \in Following(i) <=> Adjacent(i, j)
    BY <1>2, ChainEdges DEF ChainInv, Following
  <2>3. Line!Following(i) \subseteq live /\ Following(i) \subseteq live
    BY <1>3 DEF Line!Following, Following
  <2>. QED  BY <2>1, <2>2, <2>3
<1>. QED  BY <1>1, <1>3, <1>5

(* The stored ends are the computed ones.                                  *)
LEMMA MappedEnds == TypeOK /\ ChainInv => Line!Shown
<1>. SUFFICES ASSUME TypeOK, ChainInv PROVE Line!Shown
  OBVIOUS
<1>1. live \subseteq Ids /\ \A i \in live : section[i] \in Section
  BY DEF TypeOK
<1>2. ASSUME NEW i \in Ids PROVE TimelineShown[i] = Line!EndOf(i)
  <2>1. CASE i \notin live
    <3>1. TimelineShown[i] = Open /\ TimelineFixed[i] = Open
      BY <2>1 DEF TimelineShown, TimelineFixed
    <3>. QED  BY <2>1, <3>1, MappedTimeline DEF Line!EndOf
  <2>2. CASE i \in live /\ section[i].explicit
    <3>1. section[i].end # Open
      BY <2>2 DEF ChainInv, ExplicitGiven
    <3>2. TimelineShown[i] = section[i].end /\ TimelineFixed[i] = section[i].end
      BY <2>2 DEF TimelineShown, TimelineFixed
    <3>. QED  BY <3>1, <3>2, MappedTimeline DEF Line!EndOf
  <2>3. CASE i \in live /\ ~section[i].explicit
    <3>1. TimelineShown[i] = section[i].end /\ TimelineFixed[i] = Open
      BY <2>3 DEF TimelineShown, TimelineFixed
    <3>2. section[i].end = StartOf(Following(i))
      BY <2>3 DEF ChainInv, DerivedEnds
    <3>3. Line!Present = live /\ Line!Following(i) = Following(i) /\ Line!None = Open
      BY <2>3, MappedTimeline
    <3>4. i \in Line!Present /\ TimelineFixed[i] = Line!None
      BY <2>3, <3>1, <3>3
    <3>5. CASE Following(i) = {}
      <4>1. Line!EndOf(i) = Line!None
        BY <3>3, <3>4, <3>5 DEF Line!EndOf
      <4>. QED  BY <3>1, <3>2, <3>3, <3>5, <4>1 DEF StartOf
    <3>6. CASE Following(i) # {}
      <4>. DEFINE n == CHOOSE j \in Following(i) : TRUE
      <4>1. Line!Following(i) # {}
        BY <3>3, <3>6
      <4>2. Line!EndOf(i) = TimelineAt[CHOOSE j \in Line!Following(i) : TRUE]
        BY <3>4, <4>1 DEF Line!EndOf
      <4>3. (CHOOSE j \in Line!Following(i) : TRUE) = n
        BY <3>3, Zenon
      <4>4. n \in live
        BY <3>6 DEF Following
      <4>5. TimelineAt[n] = section[n].start
        BY <1>1, <4>4 DEF TimelineAt
      <4>. QED  BY <3>1, <3>2, <3>6, <4>2, <4>3, <4>5 DEF StartOf
    <3>. QED  BY <3>5, <3>6
  <2>. QED  BY <2>1, <2>2, <2>3
<1>3. TimelineShown = [i \in Ids |-> TimelineShown[i]]
  BY DEF TimelineShown
<1>4. TimelineShown = [i \in Ids |-> Line!EndOf(i)]
  BY <1>2, <1>3
<1>. QED  BY <1>4 DEF Line!Shown

LEMMA MappedEndsNext == (TypeOK /\ ChainInv)' => Line!Shown'
BY MappedEnds, PTL

LEMMA MappedInit == Init => Line!Init
<1>. SUFFICES ASSUME Init PROVE Line!Init
  OBVIOUS
<1>1. TimelineAt = [i \in Ids |-> Line!None] /\ TimelineFixed = [i \in Ids |-> Line!None]
  BY DEF Init, TimelineAt, TimelineFixed, Line!None, Open
<1>. QED  BY <1>1, TypeInit, ChainInit, MappedEnds DEF Line!Init

LEMMA MappedInsert ==
  ASSUME TypeOK, ChainInv,
         NEW i \in Ids, i \notin live, NEW at \in Ms, NEW end \in Ms \cup {Open},
         NEW order \in Orders, ~TrackTaken(at), end = Open \/ end >= at,
         InsertSection(i, at, end, order)
  PROVE  Line!Add(i, at, end)
<1>1. live' = live \cup {i} /\ live \subseteq Ids
  BY DEF InsertSection, TypeOK
<1>2. /\ section'[i].start = at
      /\ section'[i].explicit => section'[i].end = end
      /\ ~section'[i].explicit => end = Open
  BY NewSectionFields DEF InsertSection
<1>3. ASSUME NEW j \in live
      PROVE  /\ section'[j].start = section[j].start
             /\ section'[j].explicit = section[j].explicit
             /\ section[j].explicit => section'[j].end = section[j].end
  <2>1. section[j] \in Section /\ j # i /\ j \in Ids
    BY <1>1 DEF TypeOK
  <2>2. CASE j \in LatestBefore(at) /\ ~section[j].explicit
    <3>1. section'[j] = [section[j] EXCEPT !.end = at]
      BY <2>1, <2>2 DEF InsertSection
    <3>. QED  BY <2>1, <2>2, <3>1 DEF Section
  <2>3. CASE ~(j \in LatestBefore(at) /\ ~section[j].explicit)
    <3>1. section'[j] = section[j]
      BY <2>1, <2>3 DEF InsertSection
    <3>. QED  BY <3>1
  <2>. QED  BY <2>2, <2>3
<1>4. TimelineAt' = [TimelineAt EXCEPT ![i] = at]
  BY <1>1, <1>2, <1>3 DEF TimelineAt
<1>5. TimelineFixed' = [TimelineFixed EXCEPT ![i] = end]
  <2>1. ASSUME NEW j \in Ids
        PROVE  TimelineFixed'[j] = [TimelineFixed EXCEPT ![i] = end][j]
    <3>1. CASE j = i
      BY <1>1, <1>2, <3>1 DEF TimelineFixed
    <3>2. CASE j # i /\ j \in live
      <4>1. [TimelineFixed EXCEPT ![i] = end][j] = TimelineFixed[j]
        BY <3>2 DEF TimelineFixed
      <4>. QED  BY <1>1, <1>3, <3>2, <4>1 DEF TimelineFixed
    <3>3. CASE j # i /\ j \notin live
      BY <1>1, <3>3 DEF TimelineFixed
    <3>. QED  BY <3>1, <3>2, <3>3
  <2>. QED  BY <2>1 DEF TimelineFixed
<1>6. \A j \in live : TimelineAt[j] # at
  BY <1>1 DEF TrackTaken, TimelineAt
<1>. QED  BY <1>4, <1>5, <1>6, MappedTimeline DEF Line!Add

LEMMA MappedDelete ==
  ASSUME TypeOK, ChainInv, NEW i \in Ids, DeleteSection(i)
  PROVE  Line!Remove(i) \/ UNCHANGED Line!vars
<1>1. live' = live \ {i} /\ live \subseteq Ids /\ next \subseteq live \X live
  BY DEF DeleteSection, TypeOK, ChainInv, ChainIsTimeOrder
<1>2. CASE i \in live
  <2>1. ASSUME NEW j \in live'
        PROVE  /\ section'[j].start = section[j].start
               /\ section'[j].explicit = section[j].explicit
               /\ section[j].explicit => section'[j].end = section[j].end
    <3>1. section[j] \in Section /\ j # i /\ j \in Ids
      BY <1>1 DEF TypeOK
    <3>2. CASE section'[j] = section[j]
      BY <3>2
    <3>3. CASE section'[j] # section[j]
      <4>1. section'[j] = [section[j] EXCEPT !.end = StartOf(Following(i))] /\ ~section[j].explicit
        BY <3>1, <3>3 DEF DeleteSection, Remaining
      <4>. QED  BY <3>1, <4>1 DEF Section
    <3>. QED  BY <3>2, <3>3
  <2>2. TimelineAt' = [TimelineAt EXCEPT ![i] = Open]
    BY <1>1, <2>1 DEF TimelineAt
  <2>3. TimelineFixed' = [TimelineFixed EXCEPT ![i] = Open]
    <3>1. ASSUME NEW j \in Ids
          PROVE  TimelineFixed'[j] = [TimelineFixed EXCEPT ![i] = Open][j]
      <4>1. CASE j = i
        BY <1>1, <4>1 DEF TimelineFixed
      <4>2. CASE j \in live'
        <5>1. [TimelineFixed EXCEPT ![i] = Open][j] = TimelineFixed[j]
          BY <1>1, <4>2 DEF TimelineFixed
        <5>. QED  BY <1>1, <2>1, <4>2, <5>1 DEF TimelineFixed
      <4>3. CASE j # i /\ j \notin live'
        BY <1>1, <4>3 DEF TimelineFixed
      <4>. QED  BY <4>1, <4>2, <4>3
    <3>. QED  BY <3>1 DEF TimelineFixed
  <2>. QED  BY <1>2, <2>2, <2>3, MappedTimeline DEF Line!Remove
<1>3. CASE i \notin live
  <2>1. Previous(i) = {}
    BY <1>1, <1>3 DEF Previous
  <2>2. section' = section
    <3>1. \A j \in Ids : Remaining(i)[j] = section[j]
      BY <1>3, <2>1 DEF Remaining, ChainInv, DeadAreBlank
    <3>2. section = [j \in Ids |-> section[j]] /\ Remaining(i) = [j \in Ids |-> Remaining(i)[j]]
      BY DEF TypeOK, Remaining
    <3>. QED  BY <3>1, <3>2 DEF DeleteSection
  <2>. QED  BY <1>1, <1>3, <2>2 DEF Line!vars, TimelineAt, TimelineFixed, TimelineShown
<1>. QED  BY <1>2, <1>3

LEMMA MappedMove ==
  ASSUME TypeOK, ChainInv, NEW i \in live, NEW at \in Ms,
         MayMove(i, at), MoveSection(i, at)
  PROVE  Line!Move(i, at)
<1>1. live' = live /\ live \subseteq Ids /\ i \in Ids
  BY DEF MoveSection, TypeOK
<1>2. ASSUME NEW j \in live \ {i}
      PROVE  /\ section'[j].start = section[j].start
             /\ section'[j].explicit = section[j].explicit
             /\ section[j].explicit => section'[j].end = section[j].end
  <2>1. section[j] \in Section /\ j \in Ids
    BY <1>1 DEF TypeOK
  <2>2. CASE j \in Previous(i) /\ ~section[j].explicit
    <3>1. section'[j] = [section[j] EXCEPT !.end = at]
      BY <2>2, MoveWrites
    <3>. QED  BY <2>1, <2>2, <3>1 DEF Section
  <2>3. CASE ~(j \in Previous(i) /\ ~section[j].explicit)
    <3>1. section'[j] = section[j]
      BY <2>1, <2>3, MoveWrites
    <3>. QED  BY <3>1
  <2>. QED  BY <2>2, <2>3
<1>3. TimelineAt' = [TimelineAt EXCEPT ![i] = at]
  <2>1. section'[i].start = at
    BY MoveWrites
  <2>. QED  BY <1>1, <1>2, <2>1 DEF TimelineAt
<1>4. TimelineFixed' = TimelineFixed
  <2>1. section'[i].end = section[i].end /\ section'[i].explicit = section[i].explicit
    BY MoveWrites
  <2>2. \A j \in Ids : TimelineFixed'[j] = TimelineFixed[j]
    BY <1>1, <1>2, <2>1 DEF TimelineFixed
  <2>. QED  BY <2>2 DEF TimelineFixed
<1>5. \A j \in live \ {i} : /\ TimelineAt[j] # at
                            /\ TimelineAt[j] < at <=> TimelineAt[j] < TimelineAt[i]
  BY <1>1, MoveInPlace DEF TimelineAt
<1>6. TimelineFixed[i] = Open \/ TimelineFixed[i] >= at
  <2>1. section[i].end = Open \/ section[i].end >= at
    BY <1>1, StartInt DEF MayMove, Ms
  <2>. QED  BY <1>1, <2>1 DEF TimelineFixed
<1>. QED  BY <1>3, <1>4, <1>5, <1>6, MappedTimeline DEF Line!Move

LEMMA MappedStep ==
  ASSUME TypeOK, ChainInv, TypeOK', ChainInv', GraphStep
  PROVE  [Line!Next]_(Line!vars)
<1>1. Line!Shown'
  BY MappedEndsNext
<1>2. Ms \subseteq Int /\ Line!None = Open
  BY DEF Ms, Line!None, Open
<1>3. ASSUME NEW i \in Ids, NEW at \in Ms, NEW end \in Ms \cup {Open}, NEW order \in Orders,
             i \notin live, ~TrackTaken(at), end = Open \/ end >= at,
             InsertSection(i, at, end, order)
      PROVE  Line!Next
  BY <1>1, <1>2, <1>3, MappedInsert DEF Line!Next
<1>4. ASSUME NEW i \in Ids, DeleteSection(i)
      PROVE  Line!Next \/ UNCHANGED Line!vars
  BY <1>1, <1>4, MappedDelete DEF Line!Next
<1>5. ASSUME NEW i \in live, NEW at \in Ms, MayMove(i, at), MoveSection(i, at)
      PROVE  Line!Next
  <2>1. i \in Ids
    BY DEF TypeOK
  <2>. QED  BY <1>1, <1>5, <2>1, MappedMove DEF Line!Next
<1>6. CASE UNCHANGED <<live, section, next>>
  BY <1>6 DEF Line!vars, TimelineAt, TimelineFixed, TimelineShown
<1>. QED  BY <1>3, <1>4, <1>5, <1>6 DEF GraphStep

(* The queries implement the time line, for any sessions at once.          *)
THEOREM TimelineImplemented == Spec => ImplementsTimeline
<1>1. TypeOK /\ ChainInv /\ (TypeOK /\ ChainInv)' /\ [Next]_vars => [Line!Next]_(Line!vars)
  BY OnlyGraphSteps, MappedStep
<1>. QED  BY <1>1, MappedInit, ChainCorrect, PTL DEF Spec, ImplementsTimeline, Line!Spec

-----------------------------------------------------------------------------
(* What the sessions can undo.                                             *)

Matches(r) ==
  IF r.kind = "pin" THEN pin[r.id] = r.at
  ELSE /\ r.id \in live
       /\ section[r.id].start = r.at
       /\ section[r.id].order = r.order

(* No capture is on two stacks, or on one of them twice.                   *)
RecordsApart ==
  \A s, t \in Sessions : \A n \in DOMAIN stack[s], m \in DOMAIN stack[t] :
    stack[s][n].id = stack[t][m].id => s = t /\ n = m

RecordInv == RecordsMatchGraph /\ RecordsApart

LEMMA RecordsAre ==
  ASSUME TypeOK
  PROVE  /\ RecordsMatchGraph <=> \A s \in Sessions : \A n \in DOMAIN stack[s] : Matches(stack[s][n])
         /\ \A s \in Sessions : /\ DOMAIN stack[s] = 1..Len(stack[s]) /\ Len(stack[s]) \in Nat
                                /\ \A n \in DOMAIN stack[s] : stack[s][n] \in Record
<1>1. ASSUME NEW s \in Sessions
      PROVE  /\ DOMAIN stack[s] = 1..Len(stack[s]) /\ Len(stack[s]) \in Nat
             /\ \A n \in DOMAIN stack[s] : stack[s][n] \in Record
  <2>1. stack[s] \in Seq(Record)
    BY DEF TypeOK
  <2>. QED  BY <2>1, LenProperties, ElementOfSeq
<1>. QED  BY <1>1 DEF RecordsMatchGraph, Matches

(* The step touches one annotation, and no other.                          *)
OnlyTouches(i) ==
  \A j \in Ids : j # i =>
    /\ pin'[j] = pin[j]
    /\ j \in live => /\ j \in live'
                     /\ section'[j].start = section[j].start
                     /\ section'[j].order = section[j].order

LEMMA EndOnly ==
  ASSUME TypeOK
  PROVE  \A j \in Ids : \A e : /\ [section[j] EXCEPT !.end = e].start = section[j].start
                               /\ [section[j] EXCEPT !.end = e].order = section[j].order
BY DEF TypeOK, Section

LEMMA InsertTouches ==
  ASSUME TypeOK, NEW i \in Ids, NEW at, NEW end, NEW order,
         InsertSection(i, at, end, order), pin' = pin
  PROVE  /\ OnlyTouches(i)
         /\ i \in live' /\ section'[i].start = at /\ section'[i].order = order
<1>1. \A j \in Ids : j # i => section'[j].start = section[j].start /\ section'[j].order = section[j].order
  BY EndOnly DEF InsertSection
<1>2. section'[i].start = at /\ section'[i].order = order
  BY DEF InsertSection, NewSection
<1>. QED  BY <1>1, <1>2 DEF OnlyTouches, InsertSection

LEMMA DeleteTouches ==
  ASSUME TypeOK, NEW i \in Ids, DeleteSection(i), pin' = pin
  PROVE  OnlyTouches(i)
<1>1. \A j \in Ids : j # i => section'[j].start = section[j].start /\ section'[j].order = section[j].order
  BY EndOnly DEF DeleteSection, Remaining
<1>. QED  BY <1>1 DEF OnlyTouches, DeleteSection

LEMMA MoveTouches ==
  ASSUME TypeOK, NEW i \in Ids, NEW at, i \in live, MoveSection(i, at), pin' = pin
  PROVE  /\ OnlyTouches(i)
         /\ i \in live' /\ section'[i].start = at /\ section'[i].order = section[i].order
<1>1. \A j \in Ids : j # i => section'[j].start = section[j].start /\ section'[j].order = section[j].order
  BY EndOnly DEF MoveSection
<1>2. section'[i].start = at /\ section'[i].order = section[i].order
  BY DEF MoveSection, TypeOK, Section
<1>. QED  BY <1>1, <1>2 DEF OnlyTouches, MoveSection

(* A record of another annotation keeps what it says.                      *)
LEMMA OthersMatch ==
  ASSUME NEW i, OnlyTouches(i)
  PROVE  \A r \in Record : r.id # i /\ Matches(r) => Matches(r)'
BY DEF OnlyTouches, Matches, Record

(* The stack of one session changes, in step with the annotation it is     *)
(* about.                                                                  *)
LEMMA OneStack ==
  ASSUME TypeOK, TypeOK', RecordInv, NEW s \in Sessions, NEW i, OnlyTouches(i),
         \A t \in Sessions : t # s => stack'[t] = stack[t],
         \A t \in Sessions : \A n \in DOMAIN stack[t] : t # s => stack[t][n].id # i,
         \A n \in DOMAIN stack'[s] : \E r \in Record :
           /\ stack'[s][n] = r
           /\ \/ r.id = i /\ Matches(r)'
              \/ r.id # i /\ n \in DOMAIN stack[s] /\ stack[s][n] = r,
         \A n, m \in DOMAIN stack'[s] : stack'[s][n].id = i /\ stack'[s][m].id = i => n = m
  PROVE  RecordInv'
<1>1. \A t \in Sessions : \A n \in DOMAIN stack[t] : Matches(stack[t][n]) /\ stack[t][n] \in Record
  BY RecordsAre DEF RecordInv
<1>2. \A r \in Record : r.id # i /\ Matches(r) => Matches(r)'
  BY OthersMatch
<1>3. \A t \in Sessions : \A n \in DOMAIN stack'[t] : \E r \in Record :
        /\ stack'[t][n] = r /\ Matches(r)'
        /\ \/ r.id # i /\ n \in DOMAIN stack[t] /\ stack[t][n] = r
           \/ r.id = i /\ t = s
  BY <1>1, <1>2
<1>4. RecordsMatchGraph'
  BY <1>3 DEF RecordsMatchGraph, Matches
<1>5. RecordsApart'
  <2>. SUFFICES ASSUME NEW t \in Sessions, NEW u \in Sessions,
                       NEW n \in DOMAIN stack'[t], NEW m \in DOMAIN stack'[u],
                       stack'[t][n].id = stack'[u][m].id
                PROVE  t = u /\ n = m
    BY DEF RecordsApart
  <2>1. CASE stack'[t][n].id = i
    <3>0. \A v \in Sessions : \A k \in DOMAIN stack'[v] : stack'[v][k].id = i => v = s
      BY <1>3
    <3>1. t = s /\ u = s /\ stack'[u][m].id = i
      BY <2>1, <3>0
    <3>2. n \in DOMAIN stack'[s] /\ m \in DOMAIN stack'[s]
      BY <3>1
    <3>. QED  BY <2>1, <3>1, <3>2
  <2>2. CASE stack'[t][n].id # i
    BY <1>3, <2>2 DEF RecordInv, RecordsApart
  <2>. QED  BY <2>1, <2>2
<1>. QED  BY <1>4, <1>5 DEF RecordInv

(* Nothing changes in the graph, and no record is added.                   *)
LEMMA FewerRecords ==
  ASSUME TypeOK, TypeOK', RecordInv, UNCHANGED <<live, section, pin>>,
         \A t \in Sessions : stack'[t] = stack[t] \/ stack'[t] = <<>>
  PROVE  RecordInv'
<1>1. \A t \in Sessions : \A n \in DOMAIN stack'[t] :
        n \in DOMAIN stack[t] /\ stack'[t][n] = stack[t][n]
  OBVIOUS
<1>2. RecordsMatchGraph'
  BY <1>1 DEF RecordInv, RecordsMatchGraph
<1>3. RecordsApart'
  BY <1>1 DEF RecordInv, RecordsApart
<1>. QED  BY <1>2, <1>3 DEF RecordInv

(* An id that a capture may take is on no stack.                           *)
LEMMA FreshId ==
  ASSUME TypeOK, RecordInv, NEW i \in Ids, i \notin live, pin[i] = Open
  PROVE  \A t \in Sessions : \A n \in DOMAIN stack[t] : stack[t][n].id # i
<1>1. \A t \in Sessions : \A n \in DOMAIN stack[t] : Matches(stack[t][n]) /\ stack[t][n] \in Record
  BY RecordsAre DEF RecordInv
<1>. QED  BY <1>1, OpenType DEF Matches, Record

(* A session pushes the record of what it adds.                            *)
LEMMA RecordPushed ==
  ASSUME TypeOK, TypeOK', RecordInv, NEW s \in Sessions, NEW r \in Record,
         r.id \notin live, pin[r.id] = Open, OnlyTouches(r.id), Matches(r)',
         stack' = [stack EXCEPT ![s] = Append(@, r)]
  PROVE  RecordInv'
<1>1. stack[s] \in Seq(Record) /\ r.id \in Ids
  BY DEF TypeOK, Record
<1>2. \A t \in Sessions : \A n \in DOMAIN stack[t] : stack[t][n].id # r.id
  BY <1>1, FreshId
<1>3. stack'[s] = Append(stack[s], r) /\ \A t \in Sessions : t # s => stack'[t] = stack[t]
  BY DEF TypeOK
<1>4. \A n \in DOMAIN stack'[s] :
        \/ stack'[s][n] = r /\ n = Len(stack[s]) + 1
        \/ n \in DOMAIN stack[s] /\ stack'[s][n] = stack[s][n] /\ stack[s][n] \in Record
  BY <1>1, <1>3, AppendProperties, RecordsAre
<1>. QED  BY <1>2, <1>3, <1>4, OneStack

(* A session drops its last record, with what it is about.                 *)
LEMMA RecordPopped ==
  ASSUME TypeOK, TypeOK', RecordInv, NEW s \in Sessions, stack[s] # <<>>,
         OnlyTouches(Top(s).id), stack' = [stack EXCEPT ![s] = Popped(s)]
  PROVE  RecordInv'
<1>1. /\ stack[s] \in Seq(Record) /\ Len(stack[s]) \in Nat \ {0}
      /\ Len(stack[s]) \in DOMAIN stack[s]
  BY TopType DEF TypeOK
<1>2. \A t \in Sessions : \A n \in DOMAIN stack[t] :
        stack[t][n].id = Top(s).id => t = s /\ n = Len(stack[s])
  BY <1>1 DEF RecordInv, RecordsApart, Top
<1>3. stack'[s] = Popped(s) /\ \A t \in Sessions : t # s => stack'[t] = stack[t]
  BY DEF TypeOK
<1>4. \A n \in DOMAIN stack'[s] :
        /\ n \in DOMAIN stack[s] /\ n # Len(stack[s])
        /\ stack'[s][n] = stack[s][n] /\ stack[s][n] \in Record
  BY <1>1, <1>3, SubSeqProperties, RecordsAre DEF Popped
<1>. QED  BY <1>2, <1>3, <1>4, OneStack

(* A session rewrites its last record, in step with what it is about.      *)
LEMMA RecordRewritten ==
  ASSUME TypeOK, TypeOK', RecordInv, NEW s \in Sessions, stack[s] # <<>>,
         NEW r \in Record, r.id = Top(s).id, OnlyTouches(r.id), Matches(r)',
         stack' = [stack EXCEPT ![s] = [@ EXCEPT ![Len(@)] = r]]
  PROVE  RecordInv'
<1>1. /\ stack[s] \in Seq(Record) /\ Len(stack[s]) \in Nat \ {0}
      /\ Len(stack[s]) \in DOMAIN stack[s]
  BY TopType DEF TypeOK
<1>2. \A t \in Sessions : \A n \in DOMAIN stack[t] :
        stack[t][n].id = r.id => t = s /\ n = Len(stack[s])
  BY <1>1 DEF RecordInv, RecordsApart, Top
<1>3. /\ stack'[s] = [stack[s] EXCEPT ![Len(stack[s])] = r]
      /\ \A t \in Sessions : t # s => stack'[t] = stack[t]
  BY DEF TypeOK
<1>4. \A n \in DOMAIN stack'[s] :
        \/ stack'[s][n] = r /\ n = Len(stack[s])
        \/ n \in DOMAIN stack[s] /\ n # Len(stack[s])
             /\ stack'[s][n] = stack[s][n] /\ stack[s][n] \in Record
  BY <1>1, <1>3, RecordsAre
<1>. QED  BY <1>2, <1>3, <1>4, OneStack

(* What a session does keeps the records in step with the graph.           *)
LEMMA RecordsSession ==
  ASSUME TypeOK, TypeOK', RecordInv, NEW s \in Sessions,
         \/ Capture(s)
         \/ Undo_Section(s) \/ Undo_Pin(s)
         \/ \E delta \in {Step, -Step} : Nudge(s, delta)
         \/ EndSession(s)
  PROVE  RecordInv'
<1>. USE OpenType
<1>1. ASSUME NEW k \in Orders, ClaimSectionOrder(s, k) PROVE RecordInv'
  BY <1>1, FewerRecords DEF ClaimSectionOrder
<1>2. ASSUME NEW at \in Ms, AddSection_Fails(s, at) PROVE RecordInv'
  BY <1>2, FewerRecords DEF AddSection_Fails
<1>3. ASSUME NEW i \in Ids, NEW at \in Ms, NEW end \in ExplicitEnds \cup {Open},
             AddSection(s, i, at, end)
      PROVE RecordInv'
  <2>0. [kind |-> "section", id |-> i, at |-> at, order |-> claim[s]] \in Record
    BY <1>3 DEF AddSection, TypeOK, Record
  <2>1. PICK r \in Record : r = [kind |-> "section", id |-> i, at |-> at, order |-> claim[s]]
    BY <2>0
  <2>2. /\ OnlyTouches(i)
        /\ i \in live' /\ section'[i].start = at /\ section'[i].order = claim[s]
    BY <1>3, InsertTouches DEF AddSection
  <2>3. Matches(r)'
    BY <2>1, <2>2 DEF Matches
  <2>4. i \notin live /\ pin[i] = Open /\ stack' = [stack EXCEPT ![s] = Append(@, r)]
    BY <1>3, <2>1 DEF AddSection
  <2>. QED  BY <2>1, <2>2, <2>3, <2>4, RecordPushed
<1>4. ASSUME NEW i \in Ids, NEW at \in Ms, AddPin(s, i, at) PROVE RecordInv'
  <2>. DEFINE r == [kind |-> "pin", id |-> i, at |-> at, order |-> 0]
  <2>1. r \in Record /\ r.id = i
    BY PositionAssumption DEF Record, Orders
  <2>2. OnlyTouches(i) /\ pin'[i] = at
    BY <1>4 DEF AddPin, TypeOK, OnlyTouches
  <2>3. Matches(r)'
    BY <2>2 DEF Matches
  <2>4. i \notin live /\ pin[i] = Open /\ stack' = [stack EXCEPT ![s] = Append(@, r)]
    BY <1>4 DEF AddPin
  <2>. HIDE DEF r
  <2>. QED  BY <2>1, <2>2, <2>3, <2>4, RecordPushed
<1>5. ASSUME Undo_Section(s) PROVE RecordInv'
  <2>1. stack[s] # <<>> /\ stack' = [stack EXCEPT ![s] = Popped(s)]
    BY <1>5 DEF Undo_Section
  <2>2. Top(s).id \in Ids
    BY <2>1, TopType DEF Record
  <2>3. OnlyTouches(Top(s).id)
    BY <1>5, <2>2, DeleteTouches DEF Undo_Section
  <2>. QED  BY <2>1, <2>3, RecordPopped
<1>6. ASSUME Undo_Pin(s) PROVE RecordInv'
  <2>1. stack[s] # <<>> /\ stack' = [stack EXCEPT ![s] = Popped(s)]
    BY <1>6 DEF Undo_Pin
  <2>2. OnlyTouches(Top(s).id)
    BY <1>6 DEF Undo_Pin, OnlyTouches, TypeOK
  <2>. QED  BY <2>1, <2>2, RecordPopped
<1>7. ASSUME NEW delta \in {Step, -Step}, Nudge(s, delta) PROVE RecordInv'
  <2>0. PICK at : at = NudgedTo(s, delta)
    OBVIOUS
  <2>1. /\ stack[s] # <<>> /\ Top(s) \in Record
        /\ Len(stack[s]) \in DOMAIN stack[s]
        /\ stack[s] \in Seq(Record)
    BY <1>7, TopType DEF Nudge, TypeOK
  <2>2. at \in Ms
    BY <1>7, <2>0, <2>1, PositionAssumption DEF Nudge, NudgedTo, Record, Ms
  <2>3. PICK r : r = [Top(s) EXCEPT !.at = at]
    OBVIOUS
  <2>4. /\ r \in Record
        /\ r.id = Top(s).id /\ r.at = at /\ r.kind = Top(s).kind /\ r.order = Top(s).order
    BY <2>1, <2>2, <2>3 DEF Record
  <2>5. Matches(Top(s))
    BY <2>1, RecordsAre DEF RecordInv, Top
  <2>6. stack' = [stack EXCEPT ![s] = [@ EXCEPT ![Len(@)] = r]]
    BY <1>7, <2>0, <2>3 DEF Nudge
  <2>7. r.id \in Ids /\ r.kind \in {"section", "pin"}
    BY <2>4 DEF Record
  <2>8. OnlyTouches(r.id) /\ Matches(r)'
    <3>1. CASE r.kind = "section"
      <4>1. MayMove(r.id, at) /\ MoveSection(r.id, at) /\ pin' = pin
        BY <1>7, <2>0, <2>4, <3>1 DEF Nudge
      <4>2. r.id \in live /\ section[r.id].order = r.order
        BY <2>4, <2>5, <3>1 DEF Matches
      <4>3. /\ OnlyTouches(r.id)
            /\ r.id \in live' /\ section'[r.id].start = at
            /\ section'[r.id].order = section[r.id].order
        BY <2>7, <4>1, <4>2, MoveTouches
      <4>. QED  BY <2>4, <3>1, <4>2, <4>3 DEF Matches
    <3>2. CASE r.kind = "pin"
      <4>1. pin' = [pin EXCEPT ![r.id] = at] /\ live' = live /\ section' = section
        BY <1>7, <2>0, <2>4, <3>2 DEF Nudge
      <4>. QED  BY <2>4, <2>7, <3>2, <4>1 DEF Matches, OnlyTouches, TypeOK
    <3>. QED  BY <2>7, <3>1, <3>2
  <2>. QED  BY <2>1, <2>4, <2>6, <2>8, RecordRewritten
<1>8. ASSUME EndSession(s) PROVE RecordInv'
  BY <1>8, FewerRecords DEF EndSession, TypeOK
<1>. QED  BY <1>1, <1>2, <1>3, <1>4, <1>5, <1>6, <1>7, <1>8 DEF Capture

LEMMA RecordsNext == TypeOK /\ TypeOK' /\ RecordInv /\ [Next]_vars => RecordInv'
<1>. SUFFICES ASSUME TypeOK, TypeOK', RecordInv, [Next]_vars PROVE RecordInv'
  OBVIOUS
<1>1. CASE CrawlTrack
  BY <1>1, FewerRecords DEF CrawlTrack
<1>2. CASE UNCHANGED vars
  BY <1>2, FewerRecords DEF vars
<1>. QED  BY <1>1, <1>2, RecordsSession DEF Next

LEMMA RecordsInit == Init => RecordInv
BY DEF Init, RecordInv, RecordsMatchGraph, RecordsApart

(* What a session can undo is in the graph, and nobody else's to move or   *)
(* delete: undo and nudge work on what the session believes is there.      *)
THEOREM UndoKnowsGraph == Spec => []RecordsMatchGraph
<1>1. TypeOK /\ TypeOK' /\ RecordInv /\ [Next]_vars => RecordInv'
  BY RecordsNext
<1>2. RecordInv => RecordsMatchGraph
  BY DEF RecordInv
<1>. QED  BY <1>1, <1>2, RecordsInit, SectionTypes, PTL DEF Spec
=============================================================================
