---------------------------- MODULE SectionChain ----------------------------
(***************************************************************************)
(* The annotations of one track: the sections, their NEXT chain and their  *)
(* ends as the Cypher queries of annotations/ keep them, and the capture   *)
(* sessions (listen and annotate) that add, undo and nudge.  Each query is *)
(* one transaction; a capture is two of them (the order is read before the *)
(* prompt's answer is written), and sessions interleave between any two.   *)
(*                                                                         *)
(* Notes and cues have no chain and are "pins" here.  Definitions named    *)
(* Op_Slip are wrong variants, see the README's table of slips.            *)
(***************************************************************************)
EXTENDS Integers, Sequences

CONSTANTS
  Ids,            \* annotation ids (uuid4)
  Sessions,       \* the capture sessions
  Listens,        \* those that run listen; the others run annotate
  MaxMs,          \* the last position of the track (bound)
  Step,           \* NUDGE_STEP_MS
  ExplicitEnds,   \* the ends passed to add_section; neither tool passes one
  MaxOrder        \* the largest order (bound)

ASSUME SessionAssumption == Listens \subseteq Sessions

ASSUME PositionAssumption ==
  /\ MaxMs \in Nat
  /\ Step \in Nat \ {0}
  /\ ExplicitEnds \subseteq 0..MaxMs
  /\ MaxOrder \in Nat

Open    == -1       \* end_ms null: the section runs to the end of the track
Unknown == -1       \* no order claimed, no order cached
Ms      == 0..MaxMs
Orders  == 0..MaxOrder

VARIABLES
  crawled,    \* is the track in the graph?
  live,       \* the ids of its Section nodes
  section,    \* their properties
  next,       \* their NEXT edges
  pin,        \* the position of every note and cue
  stack,      \* the undo stack of every session
  claim,      \* the order a session has claimed for the section it adds
  cached      \* listen's _next_orders for this track

vars == <<crawled, live, section, next, pin, stack, claim, cached>>
graph == <<live, section, next>>

Section == [start : Ms, end : Ms \cup {Open}, explicit : BOOLEAN, order : Orders]

Blank == [start |-> 0, end |-> Open, explicit |-> FALSE, order |-> 0]

Record == [kind : {"section", "pin"}, id : Ids, at : Ms, order : Orders]

-----------------------------------------------------------------------------
(* The queries.                                                            *)

Previous(i)  == {p \in live : <<p, i>> \in next}
Following(i) == {n \in live : <<i, n>> \in next}

(* The sections that ORDER BY start_ms LIMIT 1 finds next to a position.   *)
LatestBefore(at) ==
  {p \in live : /\ section[p].start < at
                /\ \A q \in live : section[q].start < at => section[q].start <= section[p].start}

EarliestAfter(at) ==
  {n \in live : /\ section[n].start > at
                /\ \A q \in live : section[q].start > at => section[q].start >= section[n].start}

StartOf(nodes) == IF nodes = {} THEN Open ELSE section[CHOOSE n \in nodes : TRUE].start

TrackTaken(at) == \E q \in live : section[q].start = at

Chained_KeepsOldEdge(i, at) ==
  next \cup (LatestBefore(at) \X {i}) \cup ({i} \X EarliestAfter(at))

Chained(i, at) ==
  (next \ (LatestBefore(at) \X Ids))
    \cup (LatestBefore(at) \X {i}) \cup ({i} \X EarliestAfter(at))

NewSection(at, end, order) ==
  [start |-> at, order |-> order, explicit |-> end # Open,
   end |-> IF end # Open THEN end ELSE StartOf(EarliestAfter(at))]

InsertSection_ClosesExplicit(i, at, end, order) ==
  /\ live' = live \cup {i}
  /\ next' = Chained(i, at)
  /\ section' = [j \in Ids |->
       IF j = i THEN NewSection(at, end, order)
       ELSE IF j \in LatestBefore(at) THEN [section[j] EXCEPT !.end = at] ELSE section[j]]

(* insert_section.cypher *)
InsertSection(i, at, end, order) ==
  /\ live' = live \cup {i}
  /\ next' = Chained(i, at)
  /\ section' = [j \in Ids |->
       IF j = i THEN NewSection(at, end, order)
       ELSE IF j \in LatestBefore(at) /\ ~section[j].explicit
            THEN [section[j] EXCEPT !.end = at]
            ELSE section[j]]

Remaining_ErasesExplicit(i) ==
  [j \in Ids |->
     IF j = i THEN Blank
     ELSE IF j \in Previous(i) /\ section[j].end = section[i].start
          THEN [section[j] EXCEPT !.end = StartOf(Following(i))]
          ELSE section[j]]

(* delete_section_and_reopen_previous.cypher, as the graph it leaves       *)
Remaining(i) ==
  [j \in Ids |->
     IF j = i THEN Blank
     ELSE IF j \in Previous(i) /\ section[j].end = section[i].start /\ ~section[j].explicit
          THEN [section[j] EXCEPT !.end = StartOf(Following(i))]
          ELSE section[j]]

Bridged(i) ==
  (next \ (({i} \X Ids) \cup (Ids \X {i}))) \cup (Previous(i) \X Following(i))

DeletedGraph(i) == <<live \ {i}, Remaining(i), Bridged(i)>>

DeleteSection(i) ==
  /\ live' = live \ {i}
  /\ section' = Remaining(i)
  /\ next' = Bridged(i)

(* nudge_annotation.cypher *)
MayMove(i, at) ==
  /\ i \in live
  /\ \A p \in Previous(i) : at > section[p].start
  /\ \A n \in Following(i) : at < section[n].start
  /\ section[i].end = Open \/ at <= section[i].end

MoveSection(i, at) ==
  /\ section' = [j \in Ids |->
       IF j = i THEN [section[j] EXCEPT !.start = at]
       ELSE IF j \in Previous(i) /\ section[j].end = section[i].start /\ ~section[j].explicit
            THEN [section[j] EXCEPT !.end = at]
            ELSE section[j]]
  /\ UNCHANGED <<live, next>>

(* next_section_order.cypher: max(order) + 1, or 0                         *)
IsNextSectionOrder(k) ==
  IF live = {} THEN k = 0
  ELSE /\ \E j \in live : k = section[j].order + 1
       /\ \A j \in live : section[j].order < k

-----------------------------------------------------------------------------
(* The sessions.                                                           *)

Working(s) == s \in Listens \/ crawled      \* annotate picks a track of the graph

Top(s) == stack[s][Len(stack[s])]

Popped(s) == SubSeq(stack[s], 1, Len(stack[s]) - 1)

(* An order that was not used, or no longer is, goes back to listen's cache. *)
GiveBack(s, k) ==
  cached' = IF s \in Listens THEN [cached EXCEPT ![s] = IF @ < k THEN @ ELSE k] ELSE cached

(* listen reads the next order from the graph once, annotate every time.   *)
ClaimSectionOrder(s, k) ==
  /\ Working(s)
  /\ claim[s] = Unknown
  /\ IF cached[s] # Unknown THEN k = cached[s] ELSE IsNextSectionOrder(k)
  /\ claim' = [claim EXCEPT ![s] = k]
  /\ cached' = IF s \in Listens THEN [cached EXCEPT ![s] = k + 1] ELSE cached
  /\ UNCHANGED <<crawled, live, section, next, pin, stack>>

AddSection(s, i, at, end) ==
  /\ claim[s] # Unknown
  /\ crawled
  /\ ~TrackTaken(at)
  /\ i \notin live /\ pin[i] = Open
  /\ end = Open \/ end >= at
  /\ InsertSection(i, at, end, claim[s])
  /\ stack' = [stack EXCEPT ![s] = Append(@, [kind |-> "section", id |-> i, at |-> at,
                                              order |-> claim[s]])]
  /\ claim' = [claim EXCEPT ![s] = Unknown]
  /\ UNCHANGED <<crawled, pin, cached>>

(* Nothing was written: the track is not in the graph, or a section starts *)
(* there already.                                                          *)
AddSection_Fails(s, at) ==
  /\ claim[s] # Unknown
  /\ ~crawled \/ TrackTaken(at)
  /\ GiveBack(s, claim[s])
  /\ claim' = [claim EXCEPT ![s] = Unknown]
  /\ UNCHANGED <<crawled, live, section, next, pin, stack>>

AddPin(s, i, at) ==
  /\ claim[s] = Unknown
  /\ crawled
  /\ i \notin live /\ pin[i] = Open
  /\ pin' = [pin EXCEPT ![i] = at]
  /\ stack' = [stack EXCEPT ![s] = Append(@, [kind |-> "pin", id |-> i, at |-> at, order |-> 0])]
  /\ UNCHANGED <<crawled, live, section, next, claim, cached>>

Undo_Section(s) ==
  /\ claim[s] = Unknown
  /\ stack[s] # <<>> /\ Top(s).kind = "section"
  /\ DeleteSection(Top(s).id)
  /\ stack' = [stack EXCEPT ![s] = Popped(s)]
  /\ GiveBack(s, Top(s).order)
  /\ UNCHANGED <<crawled, pin, claim>>

Undo_Pin(s) ==
  /\ claim[s] = Unknown
  /\ stack[s] # <<>> /\ Top(s).kind = "pin"
  /\ pin' = [pin EXCEPT ![Top(s).id] = Open]
  /\ stack' = [stack EXCEPT ![s] = Popped(s)]
  /\ UNCHANGED <<crawled, live, section, next, claim, cached>>

NudgedTo_NoFloor(s, delta) == Top(s).at + delta

(* Where a nudge of listen moves the last capture; 0 is the floor.         *)
NudgedTo(s, delta) == IF Top(s).at + delta < 0 THEN 0 ELSE Top(s).at + delta

Nudge_MovesLocally(s, delta) ==
  LET r  == Top(s)
      at == NudgedTo(s, delta) IN
  /\ s \in Listens
  /\ claim[s] = Unknown
  /\ stack[s] # <<>>
  /\ at <= MaxMs
  /\ IF r.kind = "section" /\ MayMove(r.id, at)
       THEN MoveSection(r.id, at) /\ UNCHANGED pin
       ELSE UNCHANGED <<live, section, next, pin>>
  /\ stack' = [stack EXCEPT ![s] = [@ EXCEPT ![Len(@)] = [r EXCEPT !.at = at]]]
  /\ UNCHANGED <<crawled, claim, cached>>

(* A move that the query rejects changes nothing, here and in the graph.   *)
Nudge(s, delta) ==
  LET r  == Top(s)
      at == NudgedTo(s, delta) IN
  /\ s \in Listens
  /\ claim[s] = Unknown
  /\ stack[s] # <<>>
  /\ at <= MaxMs
  /\ IF r.kind = "section"
       THEN MayMove(r.id, at) /\ MoveSection(r.id, at) /\ UNCHANGED pin
       ELSE pin' = [pin EXCEPT ![r.id] = at] /\ UNCHANGED <<live, section, next>>
  /\ stack' = [stack EXCEPT ![s] = [@ EXCEPT ![Len(@)] = [r EXCEPT !.at = at]]]
  /\ UNCHANGED <<crawled, claim, cached>>

(* The session ends, by the quit key or by an error of the driver, and the *)
(* next one starts: what was captured stays, and cannot be undone.         *)
EndSession(s) ==
  /\ stack' = [stack EXCEPT ![s] = <<>>]
  /\ claim' = [claim EXCEPT ![s] = Unknown]
  /\ cached' = [cached EXCEPT ![s] = Unknown]
  /\ UNCHANGED <<crawled, live, section, next, pin>>

(* The crawl writes the track to the graph.                                *)
CrawlTrack ==
  /\ ~crawled
  /\ crawled' = TRUE
  /\ UNCHANGED <<live, section, next, pin, stack, claim, cached>>

Init ==
  /\ crawled \in BOOLEAN
  /\ live = {}
  /\ section = [i \in Ids |-> Blank]
  /\ next = {}
  /\ pin = [i \in Ids |-> Open]
  /\ stack = [s \in Sessions |-> <<>>]
  /\ claim = [s \in Sessions |-> Unknown]
  /\ cached = [s \in Sessions |-> Unknown]

Capture(s) ==
  \/ \E k \in Orders : ClaimSectionOrder(s, k)
  \/ \E at \in Ms : AddSection_Fails(s, at)
  \/ \E i \in Ids, at \in Ms :
       \/ \E end \in ExplicitEnds \cup {Open} : AddSection(s, i, at, end)
       \/ AddPin(s, i, at)

Next ==
  \/ \E s \in Sessions :
       \/ Capture(s)
       \/ Undo_Section(s) \/ Undo_Pin(s)
       \/ \E delta \in {Step, -Step} : Nudge(s, delta)
       \/ EndSession(s)
  \/ CrawlTrack

Spec == Init /\ [][Next]_vars

-----------------------------------------------------------------------------
TypeOK ==
  /\ crawled \in BOOLEAN
  /\ live \subseteq Ids
  /\ section \in [Ids -> Section]
  /\ next \subseteq Ids \X Ids
  /\ pin \in [Ids -> Ms \cup {Open}]
  /\ stack \in [Sessions -> Seq(Record)]
  /\ claim \in [Sessions -> Orders \cup {Unknown}]
  /\ cached \in [Sessions -> 0..(MaxOrder + 1) \cup {Unknown}]

(* The chain invariant the queries name: NEXT links each section to the    *)
(* one that starts next, strictly later, and to no other, however late a   *)
(* boundary is entered, undone or nudged and by whichever session.         *)
ChainIsTimeOrder ==
  /\ \A i, j \in live : section[i].start = section[j].start => i = j
  /\ next = {e \in live \X live :
               /\ section[e[1]].start < section[e[2]].start
               /\ ~\E k \in live : /\ section[e[1]].start < section[k].start
                                   /\ section[k].start < section[e[2]].start}

(* An end that nobody gave is the start of the next section, and null for  *)
(* the last one.                                                           *)
DerivedEnds ==
  \A i \in live : section[i].explicit \/ section[i].end = StartOf(Following(i))

(* "end_ms >= start_ms, always" (build_section_params, insert_section).    *)
EndNotBeforeStart ==
  \A i \in live : section[i].end = Open \/ section[i].end >= section[i].start

(* An undo gives back the graph from before the capture: deleting what an  *)
(* insert adds, or a nudge moves, leaves what deleting it before would.    *)
UndoRestores ==
  [][\A i \in live' :
       (live' \ live = {i} => DeletedGraph(i)' = graph)
       /\ (live' = live /\ section'[i].start # section[i].start
             => DeletedGraph(i)' = DeletedGraph(i))]_vars

(* A capture that a session can undo is in the graph, where the session    *)
(* last saw it: nudge keeps the local copy in step with the graph, and no  *)
(* other session moves or deletes it.                                      *)
RecordsMatchGraph ==
  \A s \in Sessions : \A n \in DOMAIN stack[s] :
    LET r == stack[s][n] IN
    IF r.kind = "pin" THEN pin[r.id] = r.at
    ELSE /\ r.id \in live
         /\ section[r.id].start = r.at
         /\ section[r.id].order = r.order

-----------------------------------------------------------------------------
(* SectionChain implements Timeline.                                       *)
TimelineAt    == [i \in Ids |-> IF i \in live THEN section[i].start ELSE Open]
TimelineFixed == [i \in Ids |-> IF i \in live /\ section[i].explicit THEN section[i].end ELSE Open]
TimelineShown == [i \in Ids |-> IF i \in live THEN section[i].end ELSE Open]

Line == INSTANCE Timeline
          WITH at <- TimelineAt, fixed <- TimelineFixed, shown <- TimelineShown

(* The sections shown for the track are those of the boundaries that were  *)
(* captured and not undone, each up to its own end or the next boundary.   *)
ImplementsTimeline == Line!Spec
=============================================================================
