--------------------------- MODULE Playback_proofs ---------------------------
(***************************************************************************)
(* The properties of Playback, for songs of any length, any interval, caps *)
(* and latency.  What is needed besides the types: the state the session   *)
(* goes by is behind the device by at most what the answer took, and past  *)
(* the end of its play by no more; the mark is about the tracker's song,   *)
(* which stays in the graph; and how the clocks relate at each place of    *)
(* the loop.                                                               *)
(***************************************************************************)
EXTENDS Playback, FiniteSetTheorems, TLAPS

USE ClockAssumption, NoneAssumption

Bound == Max({Interval, BackoffCap, RetryAfterCap})

LEMMA BoundCovers ==
  /\ Bound \in Nat \ {0} /\ MaxAge = Bound + 1
  /\ Interval <= Bound /\ BackoffCap <= Bound /\ RetryAfterCap <= Bound
<1>. DEFINE S == {Interval, BackoffCap, RetryAfterCap}
<1>1. \A k, l, m \in Nat : \E x \in {k, l, m} : x >= k /\ x >= l /\ x >= m
  OBVIOUS
<1>2. PICK m \in S : \A x \in S : m >= x
  BY <1>1
<1>3. Max(S) \in S /\ \A x \in S : Max(S) >= x
  BY <1>2 DEF Max
<1>. QED  BY <1>3 DEF Bound, MaxAge

LEMMA OlderAge ==
  ASSUME NEW age \in Ages
  PROVE  Older(age) \in Ages /\ age <= Older(age) /\ Older(age) <= age + 1
BY BoundCovers DEF Older, Ages, MinOf

(* A song goes on by a tick, or gives way to another state.                 *)
LEMMA AdvancedType ==
  ASSUME NEW next \in Advanced, device \in States
  PROVE  /\ next \in States
         /\ ~Ending => /\ next.track = device.track /\ next.playing = device.playing
                       /\ next.progress = device.progress + (IF device.playing THEN 1 ELSE 0)
<1>1. CASE Ending
  <2>1. Advanced \subseteq States
    BY <1>1 DEF Advanced
  <2>2. next \in States
    BY <2>1
  <2>. QED  BY <1>1, <2>2
<1>2. CASE ~Ending /\ device.playing
  <2>1. next = [device EXCEPT !.progress = @ + 1]
    BY <1>2 DEF Advanced
  <2>2. device # Idle
    BY <1>2 DEF Idle
  <2>3. device \in [track : Songs, playing : BOOLEAN, progress : 0..Duration]
    BY <2>2 DEF States
  <2>4. device.progress # Duration
    BY <1>2 DEF Ending
  <2>5. device.progress \in 0..Duration /\ device.progress + 1 \in 0..Duration
    BY <2>3, <2>4
  <2>6. /\ next.track = device.track /\ next.playing = device.playing
        /\ next.progress = device.progress + 1
    BY <2>1, <2>3
  <2>7. next \in [track : Songs, playing : BOOLEAN, progress : 0..Duration]
    BY <2>1, <2>3, <2>5
  <2>8. next \in States
    BY <2>7 DEF States
  <2>. QED  BY <1>2, <2>6, <2>8
<1>3. CASE ~Ending /\ ~device.playing
  <2>1. next = device
    BY <1>3 DEF Advanced
  <2>2. device.progress \in Int
    BY DEF States, Idle
  <2>. QED  BY <1>3, <2>1, <2>2
<1>. QED  BY <1>1, <1>2, <1>3

-----------------------------------------------------------------------------
(* The powers of two are positive.  Induction goes by the least number     *)
(* that fails.                                                             *)

(* A nonempty set of naturals has a least member.                          *)
LEMMA LeastNatural ==
  ASSUME NEW T \in SUBSET Nat, T # {}
  PROVE  \E x \in T : \A y \in T : x <= y
<1>. DEFINE U == {0..x : x \in T}
<1>1. U \subseteq FiniteSubsetsOf(Nat) /\ U # {}
  <2>1. \A x \in T : IsFiniteSet(0..x) /\ 0..x \subseteq Nat
    BY FS_Interval
  <2>. QED  BY <2>1 DEF FiniteSubsetsOf
<1>2. PICK u \in U : \A v \in U : ~ (<<v, u>> \in StrictSubsetOrdering(Nat))
  <2>. HIDE DEF U
  <2>. QED  BY <1>1, WFMin, FS_StrictSubsetOrderingWellFounded
<1>3. PICK x \in T : u = 0..x
  BY <1>2
<1>4. ASSUME NEW y \in T PROVE x <= y
  <2>1. SUFFICES ASSUME y < x PROVE FALSE
    OBVIOUS
  <2>2. 0..y \subseteq 0..x /\ 0..y # 0..x
    <3>1. x \in 0..x /\ x \notin 0..y
      BY <2>1
    <3>. QED  BY <2>1, <3>1
  <2>3. <<0..y, 0..x>> \in StrictSubsetOrdering(Nat)
    BY <2>2 DEF StrictSubsetOrdering
  <2>. QED  BY <1>2, <1>3, <2>3
<1>. QED  BY <1>4

LEMMA AllNaturals ==
  ASSUME NEW B \in SUBSET Nat, 0 \in B, \A n \in B : n + 1 \in B
  PROVE  B = Nat
<1>1. SUFFICES ASSUME Nat \ B # {} PROVE FALSE
  OBVIOUS
<1>2. PICK x \in Nat \ B : \A y \in Nat \ B : x <= y
  BY <1>1, LeastNatural
<1>3. x # 0 /\ x - 1 \in Nat
  BY <1>2
<1>4. x - 1 \in B
  BY <1>2, <1>3
<1>. QED  BY <1>2, <1>3, <1>4

PowersFrom(f) == [n \in 0..MaxFailures |-> IF n = 0 THEN 1 ELSE 2 * f[n - 1]]

LEMMA PowersExist == PowersOfTwo = PowersFrom(PowersOfTwo)
<1>. DEFINE B == {n \in Nat : \E f \in [0..n -> Nat] :
                    \A m \in 0..n : f[m] = IF m = 0 THEN 1 ELSE 2 * f[m - 1]}
<1>1. 0 \in B
  <2>. DEFINE f == [m \in 0..0 |-> 1]
  <2>1. f \in [0..0 -> Nat] /\ \A m \in 0..0 : m = 0 /\ f[m] = 1
    OBVIOUS
  <2>. HIDE DEF f
  <2>. QED  BY <2>1
<1>2. ASSUME NEW n \in B PROVE n + 1 \in B
  <2>1. PICK f \in [0..n -> Nat] : \A m \in 0..n : f[m] = IF m = 0 THEN 1 ELSE 2 * f[m - 1]
    OBVIOUS
  <2>. DEFINE g == [m \in 0..(n + 1) |-> IF m = 0 THEN 1 ELSE 2 * f[m - 1]]
  <2>2. n \in Nat /\ n + 1 \in Nat
    OBVIOUS
  <2>3. \A m \in 0..(n + 1) : m # 0 => m - 1 \in 0..n /\ 2 * f[m - 1] \in Nat
    BY <2>2
  <2>4. g \in [0..(n + 1) -> Nat]
    BY <2>3
  <2>5. \A m \in 0..n : g[m] = f[m]
    BY <2>1, <2>2
  <2>6. \A m \in 0..(n + 1) : g[m] = IF m = 0 THEN 1 ELSE 2 * g[m - 1]
    BY <2>3, <2>5
  <2>. HIDE DEF g
  <2>. QED  BY <2>2, <2>4, <2>6
<1>3. B = Nat
  <2>1. B \in SUBSET Nat
    OBVIOUS
  <2>. HIDE DEF B
  <2>. QED  BY <1>1, <1>2, <2>1, AllNaturals
<1>4. MaxFailures \in Nat
  BY DEF MaxFailures
<1>5. PICK f \in [0..MaxFailures -> Nat] :
        \A m \in 0..MaxFailures : f[m] = IF m = 0 THEN 1 ELSE 2 * f[m - 1]
  BY <1>3, <1>4
<1>6. f = PowersFrom(f)
  BY <1>5 DEF PowersFrom
<1>. QED  BY <1>6 DEF PowersOfTwo, PowersFrom

LEMMA PowersPositive == \A n \in 0..MaxFailures : PowersOfTwo[n] \in Nat /\ PowersOfTwo[n] > 0
<1>. DEFINE P(n) == PowersOfTwo[n] \in Nat /\ PowersOfTwo[n] > 0
            B == {n \in Nat : n \in 0..MaxFailures => P(n)}
<1>1. MaxFailures \in Nat
  BY DEF MaxFailures
<1>2. \A n \in 0..MaxFailures : PowersOfTwo[n] = IF n = 0 THEN 1 ELSE 2 * PowersOfTwo[n - 1]
  BY PowersExist DEF PowersFrom
<1>3. 0 \in B
  <2>1. 0 \in 0..MaxFailures
    BY <1>1
  <2>2. PowersOfTwo[0] = 1
    BY <1>2, <2>1
  <2>. QED  BY <2>2
<1>4. ASSUME NEW n \in B PROVE n + 1 \in B
  <2>. SUFFICES ASSUME n + 1 \in 0..MaxFailures PROVE P(n + 1)
    OBVIOUS
  <2>1. n \in Nat /\ n \in 0..MaxFailures /\ n + 1 # 0 /\ (n + 1) - 1 = n
    BY <1>1
  <2>2. PowersOfTwo[n + 1] = 2 * PowersOfTwo[n]
    BY <1>2, <2>1
  <2>3. P(n)
    BY <2>1
  <2>. QED  BY <2>2, <2>3
<1>5. B = Nat
  <2>1. B \in SUBSET Nat
    OBVIOUS
  <2>. HIDE DEF B
  <2>. QED  BY <1>3, <1>4, <2>1, AllNaturals
<1>. QED  BY <1>1, <1>5

LEMMA BackoffType ==
  ASSUME NEW r \in RetryAfters, failures \in 0..MaxFailures
  PROVE  /\ Backoff(r) \in 0..MaxOf(BackoffCap, RetryAfterCap)
         /\ MinOf(r, RetryAfterCap) \in 0..RetryAfterCap
         /\ MinOf(r, RetryAfterCap) <= Backoff(r)
         /\ Backoff(r) > 0
<1>. DEFINE d == BackoffBase * PowersOfTwo[failures]
<1>1. d \in Int /\ d > 0
  <2>1. PowersOfTwo[failures] \in Nat /\ PowersOfTwo[failures] > 0
    BY PowersPositive
  <2>. QED  BY <2>1
<1>. HIDE DEF d
<1>. QED  BY <1>1 DEF Backoff, d, MinOf, MaxOf

LEMMA PositionType == Types => Position \in 0..Duration
BY DEF Types, Position, States, Idle, MinOf

LEMMA BecomesType ==
  ASSUME NEW status \in Plays, play \in [tracker : Plays, answer : Plays]
  PROVE  /\ Becomes(status) \in [tracker : Plays, answer : Plays]
         /\ Becomes(status).tracker = IF play.tracker = "same" THEN status ELSE play.tracker
         /\ Becomes(status).answer = IF play.answer = "same" THEN status ELSE play.answer
<1>1. DOMAIN play = {"tracker", "answer"}
  OBVIOUS
<1>2. /\ Becomes(status).tracker = IF play.tracker = "same" THEN status ELSE play.tracker
      /\ Becomes(status).answer = IF play.answer = "same" THEN status ELSE play.answer
  BY <1>1 DEF Becomes
<1>3. Becomes(status) = [tracker |-> Becomes(status).tracker, answer |-> Becomes(status).answer]
  BY <1>1, <1>2 DEF Becomes
<1>4. play.tracker \in Plays /\ play.answer \in Plays
  OBVIOUS
<1>5. Becomes(status).tracker \in Plays /\ Becomes(status).answer \in Plays
  BY <1>2, <1>4
<1>. HIDE DEF Becomes
<1>. QED  BY <1>2, <1>3, <1>5

-----------------------------------------------------------------------------
LEMMA Starts ==
  /\ 0 \in Ages /\ MaxAge \in Ages /\ Duration \in 0..Duration /\ 0 \in 0..Duration
  /\ 0 \in 0..MaxFailures /\ 0 \in 0..RetryAfterCap /\ 0 \in 0..Latency
  /\ 0 \in 0..MaxOf(BackoffCap, RetryAfterCap) /\ Idle \in States
  /\ [tracker |-> "unknown", answer |-> "unknown"] \in [tracker : Plays, answer : Plays]
BY BoundCovers DEF Ages, MaxFailures, MaxOf, States, Plays

LEMMA TypesInit == Init => Types
<1>. SUFFICES ASSUME Init PROVE Types
  OBVIOUS
<1>1. /\ device \in States /\ graph \subseteq Songs /\ tracker \in States
      /\ sincePoll \in Ages /\ waited \in Ages /\ sinceReply \in 0..Duration
      /\ failures \in 0..MaxFailures /\ backoff \in 0..MaxOf(BackoffCap, RetryAfterCap)
      /\ owed \in 0..RetryAfterCap /\ taken \in 0..Latency
      /\ play \in [tracker : Plays, answer : Plays]
  BY Starts DEF Init
<1>2. inGraph \in BOOLEAN
  BY DEF Init
<1>3. /\ pc \in {"top", "done"} /\ pc # "prompt" /\ attempt = 1
      /\ answer = None /\ capture = None /\ key = None
  BY DEF Init
<1>. QED  BY <1>1, <1>2, <1>3 DEF Types

LEMMA TypesOver == Types /\ Over => Types'
<1>. SUFFICES ASSUME Types, Over PROVE Types'
  OBVIOUS
<1>1. /\ device' \in States /\ graph' \subseteq Songs /\ tracker' \in States
      /\ sincePoll' \in Ages /\ waited' \in Ages /\ sinceReply' \in 0..Duration
      /\ failures' \in 0..MaxFailures /\ backoff' \in 0..MaxOf(BackoffCap, RetryAfterCap)
      /\ owed' \in 0..RetryAfterCap /\ taken' \in 0..Latency
      /\ play' \in [tracker : Plays, answer : Plays]
  BY Starts DEF Over, Types
<1>2. inGraph' \in BOOLEAN
  BY DEF Over
<1>3. /\ pc' \in {"top", "done"} /\ pc' # "prompt" /\ attempt' = 1
      /\ answer' = None /\ capture' = None /\ key' = None
  BY DEF Over
<1>. QED  BY <1>1, <1>2, <1>3 DEF Types

LEMMA TypesTick == Types /\ Tick => Types'
<1>. SUFFICES ASSUME Types, Tick PROVE Types'
  OBVIOUS
<1>1. device' \in States
  BY AdvancedType DEF Types, Tick
<1>2. sincePoll' \in Ages /\ waited' \in Ages /\ sinceReply' \in 0..Duration
  BY OlderAge DEF Types, Tick, MinOf
<1>3. owed' \in 0..RetryAfterCap /\ taken' \in 0..Latency
  BY DEF Types, Tick, MaxOf
<1>4. play' \in [tracker : Plays, answer : Plays]
  <2>1. Becomes("ended") \in [tracker : Plays, answer : Plays]
    BY BecomesType DEF Types, Plays
  <2>. QED  BY <2>1 DEF Types, Tick
<1>5. key' \in 0..Duration \cup {None}
  BY DEF Types, Tick
<1>6. pc' \in {"top", "fetch", "select", "done"} \cup Waiting /\ (pc' = "prompt" => pc = "prompt")
  BY DEF Types, Tick, Waiting
<1>7. UNCHANGED <<graph, attempt, answer, tracker, inGraph, failures, backoff, capture>>
  BY DEF Tick, belief, policy
<1>. QED  BY <1>1, <1>2, <1>3, <1>4, <1>5, <1>6, <1>7 DEF Types

LEMMA TypesWorld ==
  ASSUME Types, Touch \/ Key_Pressed \/ \E song \in Songs : Crawl(song)
  PROVE  Types'
<1>1. CASE Touch
  <2>1. play' \in [tracker : Plays, answer : Plays]
    BY <1>1, BecomesType DEF Types, Touch, Plays
  <2>2. key' \in 0..Duration \cup {None}
    BY <1>1, Starts DEF Types, Touch
  <2>. QED  BY <1>1, <2>1, <2>2 DEF Touch, Types, belief, policy, clocks
<1>2. CASE Key_Pressed
  <2>1. device.progress \in 0..Duration
    BY Starts DEF Types, States, Idle
  <2>. QED  BY <1>2, <2>1 DEF Key_Pressed, Types, belief, policy, clocks
<1>3. CASE \E song \in Songs : Crawl(song)
  BY <1>3 DEF Crawl, Types, belief, policy, clocks
<1>. QED  BY <1>1, <1>2, <1>3

LEMMA TypesPoll ==
  ASSUME Types,
         \/ Loop_Poll \/ Loop_Wait \/ Player_Serves \/ Fetch_Unauthorized \/ Fetch_Refreshed
         \/ Poll_Answered \/ Probe
  PROVE  Types'
<1>1. CASE Loop_Poll
  BY <1>1, Starts DEF Loop_Poll, Types, belief, policy
<1>2. CASE Loop_Wait
  BY <1>2 DEF Loop_Wait, Types, belief, policy, clocks
<1>3. CASE Player_Serves
  <2>1. play' \in [tracker : Plays, answer : Plays]
    BY <1>3 DEF Player_Serves, Types, Plays
  <2>. QED  BY <1>3, <2>1 DEF Player_Serves, Types, belief, policy, clocks
<1>4. CASE Fetch_Unauthorized \/ Fetch_Refreshed
  BY <1>4, Starts DEF Fetch_Unauthorized, Fetch_Refreshed, Types, belief, policy, clocks, Waiting
<1>5. CASE Poll_Answered
  <2>1. play' \in [tracker : Plays, answer : Plays]
    <3>1. play.answer \in Plays /\ "unknown" \in Plays
      BY DEF Types, Plays
    <3>. QED  BY <1>5, <3>1 DEF Poll_Answered
  <2>2. pc' \in {"select", "probe"} /\ tracker' \in States /\ sinceReply' \in 0..Duration
    BY <1>5, Starts DEF Poll_Answered, Types
  <2>. QED  BY <1>5, <2>1, <2>2, Starts DEF Poll_Answered, Types, Waiting
<1>6. CASE Probe
  BY <1>6 DEF Probe, Types, policy, clocks
<1>. QED  BY <1>1, <1>2, <1>3, <1>4, <1>5, <1>6

LEMMA TypesFailed ==
  ASSUME Types, NEW r \in RetryAfters, Poll_Failed(r)
  PROVE  Types'
<1>1. failures' \in 0..MaxFailures
  BY DEF Poll_Failed, Types, MaxFailures, MinOf
<1>2. backoff' \in 0..MaxOf(BackoffCap, RetryAfterCap)
  BY BackoffType DEF Poll_Failed, Types
<1>3. owed' \in 0..RetryAfterCap
  <2>1. MinOf(r, RetryAfterCap) \in 0..RetryAfterCap /\ sincePoll \in Nat
    BY BackoffType, BoundCovers DEF Types, Ages
  <2>. QED  BY <2>1 DEF Poll_Failed, MaxOf
<1>4. play' \in [tracker : Plays, answer : Plays]
  BY DEF Poll_Failed, Types, Plays
<1>. QED  BY <1>1, <1>2, <1>3, <1>4, Starts DEF Poll_Failed, Types, belief

LEMMA TypesKeys ==
  ASSUME Types,
         \/ Key_Capture \/ Key_Refused \/ Key_Other \/ Write_Done
         \/ Prompt_Empty \/ Prompt_Answered
  PROVE  Types'
<1>1. CASE Key_Capture
  <2>1. tracker.track \in Songs
    BY <1>1 DEF Key_Capture, Types, States
  <2>2. capture' \in Captures
    <3>1. /\ play.tracker \in Plays /\ key \in 0..Duration /\ Position \in 0..Duration
          /\ inGraph \in BOOLEAN /\ device \in States /\ 0 \in 0..Duration
      BY <1>1, PositionType, Starts DEF Types, Key_Capture
    <3>2. /\ (IF play.tracker = "same" THEN device ELSE Idle) \in States
          /\ (IF play.tracker = "same" THEN key ELSE 0) \in 0..Duration
      BY <3>1, Starts
    <3>3. capture' =
            [track |-> tracker.track, at |-> Position, marked |-> inGraph, outcome |-> "open",
             play |-> play.tracker,
             truth |-> IF play.tracker = "same" THEN device ELSE Idle,
             pressed |-> IF play.tracker = "same" THEN key ELSE 0]
      BY <1>1 DEF Key_Capture
    <3>. QED  BY <2>1, <3>1, <3>2, <3>3 DEF Captures
  <2>. QED  BY <1>1, <2>2 DEF Key_Capture, Types, belief, policy, clocks, Waiting
<1>2. CASE Key_Refused \/ Key_Other \/ Write_Done \/ Prompt_Empty
  BY <1>2 DEF Key_Refused, Key_Other, Write_Done, Prompt_Empty, Types, belief, policy, clocks, Waiting
<1>3. CASE Prompt_Answered
  <2>1. capture \in Captures
    BY <1>3 DEF Prompt_Answered, Types
  <2>2. capture' \in Captures
    BY <1>3, <2>1 DEF Prompt_Answered, Captures
  <2>. QED  BY <1>3, <2>2 DEF Prompt_Answered, Types, policy, clocks
<1>. QED  BY <1>1, <1>2, <1>3

LEMMA TypesStep == Types /\ [Next]_vars => Types'
<1>. SUFFICES ASSUME Types, [Next]_vars PROVE Types'
  OBVIOUS
<1>1. CASE UNCHANGED vars
  BY <1>1 DEF vars, Types, belief, policy, clocks
<1>2. CASE Next
  <2>1. CASE Fetch_Forbidden \/ Key_Quit \/ Session_Dies
    BY <2>1, TypesOver DEF Fetch_Forbidden, Key_Quit, Session_Dies
  <2>. QED  BY <1>2, <2>1, TypesTick, TypesWorld, TypesPoll, TypesFailed, TypesKeys DEF Next
<1>. QED  BY <1>1, <1>2

-----------------------------------------------------------------------------
(* The mark is about the tracker's song, once the graph was asked, and a    *)
(* marked song is in the graph.                                             *)
Marks ==
  /\ inGraph /\ pc # "probe" => tracker = Idle \/ tracker.track \in graph
  /\ pc = "prompt" => capture.track = tracker.track
  /\ capture # None /\ capture.marked => capture.track \in graph
  /\ FailuresAreForewarned

LEMMA MarksInit == Init => Marks
BY DEF Init, Marks, FailuresAreForewarned

LEMMA MarksStep == Types /\ Marks /\ [Next]_vars => Marks'
<1>. SUFFICES ASSUME Types, Marks, [Next]_vars PROVE Marks'
  OBVIOUS
<1>1. CASE \/ UNCHANGED vars \/ Tick \/ Touch \/ Key_Pressed \/ Player_Serves
           \/ Fetch_Unauthorized \/ Fetch_Refreshed \/ Key_Refused \/ Key_Other \/ Write_Done
           \/ \E r \in RetryAfters : Poll_Failed(r)
  <2>1. /\ UNCHANGED <<graph, tracker, inGraph, capture>>
        /\ (pc' = "prompt" => pc = "prompt") /\ (pc = "probe" => pc' = "probe")
    BY <1>1 DEF vars, Tick, Touch, Key_Pressed, Player_Serves, Fetch_Unauthorized,
                Fetch_Refreshed, Key_Refused, Key_Other, Write_Done, Poll_Failed, belief
  <2>. QED  BY <2>1 DEF Marks, FailuresAreForewarned
<1>2. CASE \E song \in Songs : Crawl(song)
  BY <1>2 DEF Crawl, Marks, FailuresAreForewarned, belief
<1>3. CASE Loop_Poll \/ Loop_Wait \/ Prompt_Empty
  BY <1>3 DEF Loop_Poll, Loop_Wait, Prompt_Empty, Marks, FailuresAreForewarned, belief
<1>4. CASE Poll_Answered
  <2>1. UNCHANGED <<graph, capture, inGraph>> /\ pc' # "prompt" /\ tracker' = answer /\ pc # "probe"
    BY <1>4 DEF Poll_Answered
  <2>2. ASSUME inGraph, pc' # "probe"
        PROVE  answer = Idle \/ answer.track \in graph
    <3>1. SUFFICES ASSUME answer # Idle PROVE answer.track \in graph
      OBVIOUS
    <3>2. answer.track = tracker.track /\ answer.track \in Songs
      BY <1>4, <2>2, <3>1 DEF Poll_Answered, Types, States
    <3>3. tracker # Idle
      BY <3>2 DEF Idle
    <3>. QED  BY <2>1, <2>2, <3>2, <3>3 DEF Marks
  <2>. QED  BY <2>1, <2>2 DEF Marks, FailuresAreForewarned
<1>5. CASE Probe
  BY <1>5 DEF Probe, Marks, FailuresAreForewarned
<1>6. CASE Key_Capture
  <2>1. /\ UNCHANGED <<graph, tracker, inGraph>> /\ tracker # Idle /\ pc = "select"
        /\ capture' = [track |-> tracker.track, at |-> Position, marked |-> inGraph,
                       outcome |-> "open", play |-> play.tracker,
                       truth |-> IF play.tracker = "same" THEN device ELSE Idle,
                       pressed |-> IF play.tracker = "same" THEN key ELSE 0]
    BY <1>6 DEF Key_Capture, belief
  <2>2. capture'.track = tracker.track /\ capture'.marked = inGraph /\ capture'.outcome = "open"
    BY <2>1
  <2>. QED  BY <2>1, <2>2 DEF Marks, FailuresAreForewarned
<1>7. CASE Prompt_Answered
  <2>1. capture \in Captures /\ capture.track = tracker.track /\ UNCHANGED <<graph, tracker>>
    BY <1>7 DEF Prompt_Answered, Types, Marks
  <2>2. /\ capture'.track = capture.track /\ capture'.marked = capture.marked
        /\ capture'.outcome = IF capture.track \in graph THEN "saved" ELSE "failed"
    BY <1>7, <2>1 DEF Prompt_Answered, Captures
  <2>3. capture.marked => capture.track \in graph
    BY <2>1 DEF Marks
  <2>4. inGraph' = (capture.track \in graph) /\ pc' = "top"
    BY <1>7 DEF Prompt_Answered
  <2>. QED  BY <2>1, <2>2, <2>3, <2>4 DEF Marks, FailuresAreForewarned
<1>8. CASE Fetch_Forbidden \/ Key_Quit \/ Session_Dies
  BY <1>8 DEF Fetch_Forbidden, Key_Quit, Session_Dies, Over, Marks, FailuresAreForewarned
<1>. QED  BY <1>1, <1>2, <1>3, <1>4, <1>5, <1>6, <1>7, <1>8 DEF Next

-----------------------------------------------------------------------------
(* How far the device may have got since the player was asked, while the    *)
(* play goes on and when it has ended; and a key waits while it goes on.    *)
AnswerBehind ==
  /\ play.answer = "same" =>
       /\ pc = "fetch" /\ answer # None
       /\ device.track = answer.track /\ device.playing = answer.playing
       /\ answer.progress <= device.progress /\ device.progress <= answer.progress + taken
  /\ play.answer = "ended" =>
       /\ pc = "fetch" /\ answer # None /\ answer.playing
       /\ Duration < answer.progress + taken

TrackerBehind ==
  /\ play.tracker = "same" =>
       /\ tracker # Idle
       /\ device.track = tracker.track /\ device.playing = tracker.playing
       /\ Position <= device.progress /\ device.progress <= Position + Latency
  /\ play.tracker = "ended" =>
       tracker # Idle /\ MinOf(Duration, Duration + 1 - Latency) <= Position

KeyBehind == key # None => key <= device.progress

Behind == AnswerBehind /\ TrackerBehind /\ KeyBehind /\ CapturesWithinLatency

LEMMA Numbers ==
  Types => /\ device.progress \in 0..Duration /\ tracker.progress \in 0..Duration
           /\ (answer # None => answer.progress \in 0..Duration)
           /\ taken \in 0..Latency /\ sinceReply \in 0..Duration
           /\ Duration \in Nat /\ Latency \in Nat
BY Starts DEF Types, States, Idle

LEMMA IdleIsSilent == ~Idle.playing /\ Idle.track = None
BY DEF Idle

LEMMA BehindInit == Init => Behind
BY DEF Init, Behind, AnswerBehind, TrackerBehind, KeyBehind, CapturesWithinLatency

(* What leaves these alone leaves the device where it was.                   *)
LEMMA BehindKept ==
  ASSUME Types, Behind,
         UNCHANGED <<device, tracker, sinceReply, play, answer, taken>>, pc = "fetch" => pc' = "fetch",
         key' \in {key, None}, capture' \in {capture, None}
  PROVE  Behind'
<1>1. Position' = Position
  BY DEF Position
<1>. QED  BY <1>1 DEF Behind, AnswerBehind, TrackerBehind, KeyBehind, CapturesWithinLatency

LEMMA BehindOver == Over => Behind'
BY DEF Over, Behind, AnswerBehind, TrackerBehind, KeyBehind, CapturesWithinLatency

-----------------------------------------------------------------------------
(* The clamp at the end of the song, for the two ways a number goes on.     *)
LEMMA Clamped ==
  ASSUME NEW d \in Nat, NEW p \in 0..d, NEW s \in 0..d
  PROVE  MinOf(p + MinOf(s + 1, d), d) = MinOf(MinOf(p + s, d) + 1, d)
BY DEF MinOf

(* A tick moves the estimate as it moves the device.                        *)
LEMMA PositionTicks ==
  ASSUME Types, Tick
  PROVE  Position' = IF tracker.playing THEN MinOf(Position + 1, Duration) ELSE Position
<1>1. tracker' = tracker /\ sinceReply' = MinOf(sinceReply + 1, Duration)
  BY DEF Tick, belief
<1>2. CASE tracker.playing
  <2>1. /\ Position = MinOf(tracker.progress + sinceReply, Duration)
        /\ Position' = MinOf(tracker.progress + MinOf(sinceReply + 1, Duration), Duration)
    BY <1>1, <1>2 DEF Position
  <2>. QED  BY <1>2, <2>1, Clamped, Numbers
<1>3. CASE ~tracker.playing
  BY <1>1, <1>3 DEF Position
<1>. QED  BY <1>2, <1>3

LEMMA BehindTick == Types /\ Behind /\ Tick => Behind'
<1>. SUFFICES ASSUME Types, Behind, Tick PROVE Behind'
  OBVIOUS
<1>1. /\ UNCHANGED <<answer, tracker, capture>> /\ device' \in Advanced
      /\ pc = "fetch" => pc' = "fetch" /\ taken' = taken + 1
      /\ key' = IF Ending /\ key # None THEN 0 ELSE key
      /\ play' = IF Ending THEN Becomes("ended") ELSE play
  BY DEF Tick, belief, Waiting
<1>2. /\ device \in States /\ Position \in 0..Duration /\ play \in [tracker : Plays, answer : Plays]
      /\ device' \in States
  BY <1>1, PositionType, AdvancedType DEF Types
<1>3. device'.progress \in 0..Duration
  BY <1>2, Starts DEF States, Idle
<1>4. CASE ~Ending
  <2>1. /\ device'.track = device.track /\ device'.playing = device.playing
        /\ device'.progress = device.progress + (IF device.playing THEN 1 ELSE 0)
        /\ play' = play /\ key' = key
    BY <1>1, <1>2, <1>4, AdvancedType
  <2>2. AnswerBehind'
    BY <1>1, <1>3, <2>1, Numbers DEF Behind, AnswerBehind
  <2>3. TrackerBehind'
    BY <1>1, <1>2, <1>3, <2>1, PositionTicks, Numbers DEF Behind, TrackerBehind, MinOf
  <2>4. KeyBehind'
    BY <1>3, <2>1, Numbers DEF Behind, KeyBehind, Types
  <2>. QED  BY <1>1, <2>2, <2>3, <2>4 DEF Behind, CapturesWithinLatency
<1>5. CASE Ending
  <2>1. /\ device.playing /\ device.progress = Duration
        /\ play'.answer = IF play.answer = "same" THEN "ended" ELSE play.answer
        /\ play'.tracker = IF play.tracker = "same" THEN "ended" ELSE play.tracker
    BY <1>1, <1>2, <1>5, BecomesType DEF Ending, Plays
  <2>2. AnswerBehind'
    <3>1. play'.answer # "same"
      BY <2>1
    <3>2. ASSUME play'.answer = "ended"
          PROVE  /\ pc = "fetch" /\ answer # None /\ answer.playing
                 /\ Duration <= answer.progress + taken
      <4>1. CASE play.answer = "same"
        <5>1. /\ pc = "fetch" /\ answer # None /\ answer.playing
              /\ device.progress <= answer.progress + taken
          BY <2>1, <4>1 DEF Behind, AnswerBehind
        <5>. QED  BY <2>1, <5>1
      <4>2. CASE play.answer = "ended"
        <5>1. /\ pc = "fetch" /\ answer # None /\ answer.playing
              /\ Duration < answer.progress + taken
          BY <4>2 DEF Behind, AnswerBehind
        <5>. QED  BY <5>1, Numbers
      <4>. QED  BY <2>1, <3>2, <4>1, <4>2
    <3>. QED  BY <1>1, <3>1, <3>2, Numbers DEF AnswerBehind
  <2>3. TrackerBehind'
    <3>1. play'.tracker # "same"
      BY <2>1
    <3>2. CASE play.tracker = "same"
      <4>1. tracker # Idle /\ tracker.playing /\ Duration <= Position + Latency
        BY <2>1, <3>2 DEF Behind, TrackerBehind
      <4>2. Position' = MinOf(Position + 1, Duration)
        BY <4>1, PositionTicks
      <4>3. MinOf(Duration, Duration + 1 - Latency) <= Position'
        BY <1>2, <4>1, <4>2, Numbers DEF MinOf
      <4>. QED  BY <1>1, <3>1, <4>1, <4>3 DEF TrackerBehind
    <3>3. CASE play.tracker # "same"
      <4>1. Position <= Position' /\ Position' \in Int
        BY <1>2, PositionTicks, Numbers DEF MinOf
      <4>. QED  BY <1>1, <1>2, <2>1, <3>1, <3>3, <4>1, Numbers DEF Behind, TrackerBehind, MinOf
    <3>. QED  BY <3>2, <3>3
  <2>4. KeyBehind'
    BY <1>1, <1>3, <1>5 DEF KeyBehind
  <2>. QED  BY <1>1, <2>2, <2>3, <2>4 DEF Behind, CapturesWithinLatency
<1>. QED  BY <1>4, <1>5

LEMMA BehindTouch == Types /\ Behind /\ Touch => Behind'
<1>. SUFFICES ASSUME Types, Behind, Touch PROVE Behind'
  OBVIOUS
<1>1. /\ UNCHANGED <<tracker, sinceReply, answer, taken, pc, capture>> /\ device' \in States
      /\ play' = Becomes("unknown") /\ key' = IF key # None THEN 0 ELSE key
  BY DEF Touch, belief, clocks
<1>2. /\ play'.answer = IF play.answer = "same" THEN "unknown" ELSE play.answer
      /\ play'.tracker = IF play.tracker = "same" THEN "unknown" ELSE play.tracker
  BY <1>1, BecomesType DEF Types, Plays
<1>3. Position' = Position
  BY <1>1 DEF Position
<1>4. KeyBehind'
  BY <1>1, Starts DEF KeyBehind, States, Idle
<1>. QED  BY <1>1, <1>2, <1>3, <1>4 DEF Behind, AnswerBehind, TrackerBehind, CapturesWithinLatency

LEMMA BehindPoll ==
  ASSUME Types, Behind,
         \/ Loop_Poll \/ Loop_Wait \/ Fetch_Unauthorized \/ Fetch_Refreshed \/ Probe
         \/ \E r \in RetryAfters : Poll_Failed(r)
  PROVE  Behind'
<1>1. /\ UNCHANGED <<device, tracker, sinceReply, key>> /\ play'.tracker = play.tracker
      /\ capture' \in {capture, None}
  BY DEF Loop_Poll, Loop_Wait, Fetch_Unauthorized, Fetch_Refreshed, Probe, Poll_Failed,
         belief, clocks, Types
<1>2. play'.answer \notin {"same", "ended"}
  BY DEF Loop_Poll, Loop_Wait, Fetch_Unauthorized, Fetch_Refreshed, Probe, Poll_Failed,
         Behind, AnswerBehind, Types
<1>3. Position' = Position
  BY <1>1 DEF Position
<1>. QED  BY <1>1, <1>2, <1>3 DEF Behind, AnswerBehind, TrackerBehind, KeyBehind, CapturesWithinLatency

LEMMA BehindServed ==
  ASSUME Types, Behind, Player_Serves
  PROVE  Behind'
<1>1. /\ UNCHANGED <<device, tracker, sinceReply, taken, capture, key>> /\ answer' = device
      /\ pc' = "fetch" /\ play'.answer = "same" /\ play'.tracker = play.tracker
  BY DEF Player_Serves, belief, clocks, Types
<1>2. Position' = Position
  BY <1>1 DEF Position
<1>3. device # None
  BY DEF Types
<1>. QED  BY <1>1, <1>2, <1>3, Numbers
          DEF Behind, AnswerBehind, TrackerBehind, KeyBehind, CapturesWithinLatency

LEMMA BehindAnswered ==
  ASSUME Types, Behind, Poll_Answered
  PROVE  Behind'
<1>1. /\ UNCHANGED <<device, capture, key>> /\ tracker' = answer /\ answer # None
      /\ play'.answer = "unknown"
      /\ play'.tracker = IF answer = Idle THEN "unknown" ELSE play.answer
      /\ sinceReply' = IF answer = Idle THEN Duration ELSE 0
  BY DEF Poll_Answered
<1>2. answer # Idle => Position' = answer.progress
  <2>1. answer.progress \in 0..Duration
    BY <1>1, Numbers
  <2>. QED  BY <1>1, <2>1, Numbers DEF Position, MinOf
<1>3. TrackerBehind'
  <2>1. CASE answer = Idle
    BY <1>1, <2>1 DEF TrackerBehind
  <2>2. CASE answer # Idle
    BY <1>1, <1>2, <2>2, Numbers DEF Behind, AnswerBehind, TrackerBehind, MinOf
  <2>. QED  BY <2>1, <2>2
<1>. QED  BY <1>1, <1>3 DEF Behind, AnswerBehind, KeyBehind, CapturesWithinLatency

LEMMA BehindCapture ==
  ASSUME Types, Behind, Key_Capture
  PROVE  Behind'
<1>1. /\ UNCHANGED <<device, tracker, sinceReply, play, answer, taken>> /\ key' = None
      /\ key # None /\ pc = "select"
      /\ capture' = [track |-> tracker.track, at |-> Position, marked |-> inGraph,
                     outcome |-> "open", play |-> play.tracker,
                     truth |-> IF play.tracker = "same" THEN device ELSE Idle,
                     pressed |-> IF play.tracker = "same" THEN key ELSE 0]
  BY DEF Key_Capture, belief, clocks
<1>2. /\ capture'.track = tracker.track /\ capture'.at = Position
      /\ capture'.play = play.tracker
      /\ play.tracker = "same" => capture'.truth = device /\ capture'.pressed = key
  BY <1>1
<1>3. Position \in 0..Duration /\ key \in 0..Duration
  BY <1>1, PositionType DEF Types
<1>4. CapturesWithinLatency'
  <2>1. ASSUME play.tracker = "same"
        PROVE  /\ tracker.track = device.track
               /\ Position \in (device.progress - Latency)..device.progress
               /\ Position >= key - Latency
    BY <1>1, <1>3, <2>1, Numbers DEF Behind, TrackerBehind, KeyBehind
  <2>2. ASSUME play.tracker = "ended"
        PROVE  Position \in MinOf(Duration, Duration + 1 - Latency)..Duration
    BY <1>3, <2>2, Numbers DEF Behind, TrackerBehind, MinOf
  <2>. QED  BY <1>2, <2>1, <2>2 DEF CapturesWithinLatency
<1>5. Position' = Position
  BY <1>1 DEF Position
<1>. QED  BY <1>1, <1>4, <1>5 DEF Behind, AnswerBehind, TrackerBehind, KeyBehind

LEMMA BehindStep == Types /\ Behind /\ [Next]_vars => Behind'
<1>. SUFFICES ASSUME Types, Behind, [Next]_vars PROVE Behind'
  OBVIOUS
<1>1. CASE \/ UNCHANGED vars \/ \E song \in Songs : Crawl(song)
           \/ Key_Refused \/ Key_Other \/ Write_Done \/ Prompt_Empty
  <2>1. /\ UNCHANGED <<device, tracker, sinceReply, play, answer, taken>>
        /\ (pc = "fetch" => pc' = "fetch") /\ key' \in {key, None} /\ capture' \in {capture, None}
    BY <1>1 DEF vars, Crawl, Key_Refused, Key_Other, Write_Done, Prompt_Empty, belief, clocks
  <2>. QED  BY <2>1, BehindKept
<1>2. CASE Key_Pressed
  <2>1. /\ UNCHANGED <<device, tracker, sinceReply, play, answer, taken, pc, capture>>
        /\ key' = device.progress
    BY <1>2 DEF Key_Pressed, belief, clocks
  <2>2. Position' = Position
    BY <2>1 DEF Position
  <2>. QED  BY <2>1, <2>2, Numbers
            DEF Behind, AnswerBehind, TrackerBehind, KeyBehind, CapturesWithinLatency
<1>3. CASE Prompt_Answered
  <2>1. /\ UNCHANGED <<device, tracker, sinceReply, play, answer, taken, key>> /\ pc = "prompt"
        /\ capture' = [capture EXCEPT !.outcome = IF capture.track \in graph THEN "saved"
                                                                             ELSE "failed"]
    BY <1>3 DEF Prompt_Answered, clocks
  <2>2. capture \in Captures
    BY <2>1 DEF Types
  <2>3. /\ capture # None /\ capture'.track = capture.track /\ capture'.at = capture.at
        /\ capture'.play = capture.play /\ capture'.truth = capture.truth
        /\ capture'.pressed = capture.pressed
    BY <2>1, <2>2 DEF Captures
  <2>4. CapturesWithinLatency'
    BY <2>3 DEF Behind, CapturesWithinLatency
  <2>5. Position' = Position
    BY <2>1 DEF Position
  <2>. QED  BY <2>1, <2>4, <2>5 DEF Behind, AnswerBehind, TrackerBehind, KeyBehind
<1>4. CASE Fetch_Forbidden \/ Key_Quit \/ Session_Dies
  BY <1>4, BehindOver DEF Fetch_Forbidden, Key_Quit, Session_Dies
<1>. QED  BY <1>1, <1>2, <1>3, <1>4, BehindTick, BehindTouch, BehindPoll, BehindServed,
             BehindAnswered, BehindCapture DEF Next

-----------------------------------------------------------------------------
(* The clocks at each place of the loop.                                    *)
Clocks ==
  /\ waited <= sincePoll
  /\ waited <= Bound
  /\ pc \in {"fetch", "refresh", "probe"} => waited = 0
  /\ pc = "select" => waited < Bound
  /\ pc \in {"fetch", "refresh"} => owed = 0
  /\ owed = 0 \/ owed + sincePoll <= backoff

LEMMA ClockNumbers ==
  Types => /\ waited \in Nat /\ sincePoll \in Nat /\ owed \in Nat /\ backoff \in Nat
           /\ backoff <= Bound
BY BoundCovers DEF Types, Ages, MaxOf

LEMMA ClocksInit == Init => Clocks
<1>. SUFFICES ASSUME Init PROVE Clocks
  OBVIOUS
<1>1. waited = 0 /\ sincePoll = MaxAge /\ owed = 0 /\ pc = "top"
  BY DEF Init
<1>. QED  BY <1>1, BoundCovers DEF Clocks

LEMMA ClocksOver == Over => Clocks'
<1>. SUFFICES ASSUME Over PROVE Clocks'
  OBVIOUS
<1>1. waited' = 0 /\ sincePoll' = MaxAge /\ owed' = 0 /\ pc' = "done"
  BY DEF Over
<1>. QED  BY <1>1, BoundCovers DEF Clocks

LEMMA ClocksTick == Types /\ Clocks /\ Tick => Clocks'
<1>. SUFFICES ASSUME Types, Clocks, Tick PROVE Clocks'
  OBVIOUS
<1>1. /\ sincePoll' = Older(sincePoll) /\ owed' = MaxOf(owed - 1, 0) /\ backoff' = backoff
      /\ waited' = IF pc = "select" THEN Older(waited) ELSE waited
      /\ \/ pc = "select" /\ pc' = "top"
         \/ pc # "select" /\ pc' = pc
  BY DEF Tick, policy, Waiting
<1>2. /\ sincePoll' \in Nat /\ sincePoll <= sincePoll' /\ sincePoll' <= sincePoll + 1
      /\ waited' \in Nat /\ waited' <= waited + 1
  BY <1>1, OlderAge DEF Types, Ages
<1>3. waited' <= sincePoll'
  <2>1. waited \in 0..MaxAge /\ sincePoll \in 0..MaxAge /\ MaxAge \in Nat
    BY BoundCovers DEF Types, Ages
  <2>2. Older(waited) <= Older(sincePoll)
    BY <2>1 DEF Clocks, Older, MinOf
  <2>. QED  BY <1>1, <1>2, <2>1, <2>2 DEF Clocks
<1>4. owed' = 0 \/ owed' + sincePoll' <= backoff'
  <2>1. CASE owed = 0
    BY <1>1, <2>1 DEF MaxOf
  <2>2. CASE owed # 0
    <3>1. owed' = owed - 1
      BY <1>1, <2>2, ClockNumbers DEF MaxOf
    <3>. QED  BY <1>1, <1>2, <2>2, <3>1, ClockNumbers DEF Clocks
  <2>. QED  BY <2>1, <2>2
<1>5. pc' \in {"fetch", "refresh"} => owed' = 0
  BY <1>1, ClockNumbers DEF Clocks, MaxOf
<1>6. waited' <= Bound /\ (pc' = "select" => waited' < Bound)
      /\ (pc' \in {"fetch", "refresh", "probe"} => waited' = 0)
  BY <1>1, <1>2, ClockNumbers, BoundCovers DEF Clocks
<1>. QED  BY <1>3, <1>4, <1>5, <1>6 DEF Clocks

LEMMA ClocksLoop ==
  ASSUME Types, Clocks, Loop_Poll \/ Loop_Wait
  PROVE  Clocks'
<1>1. CASE Loop_Poll
  <2>1. /\ sincePoll' = 0 /\ waited' = 0 /\ pc' = "fetch" /\ owed' = owed
        /\ backoff <= sincePoll
    BY <1>1, ClockNumbers DEF Loop_Poll, MaxOf
  <2>2. owed = 0
    BY <2>1, ClockNumbers DEF Clocks
  <2>. QED  BY <2>1, <2>2, BoundCovers DEF Clocks
<1>2. CASE Loop_Wait
  <2>1. /\ UNCHANGED <<sincePoll, waited, owed, backoff>> /\ pc' = "select"
        /\ sincePoll < MaxOf(Interval, backoff)
    BY <1>2 DEF Loop_Wait, clocks, policy
  <2>2. sincePoll < Bound
    BY <2>1, ClockNumbers, BoundCovers DEF MaxOf
  <2>. QED  BY <2>1, <2>2, ClockNumbers, BoundCovers DEF Clocks
<1>. QED  BY <1>1, <1>2

LEMMA ClocksAnswered ==
  ASSUME Types, Clocks, Poll_Answered
  PROVE  Clocks'
<1>1. /\ UNCHANGED <<sincePoll, waited, owed>> /\ pc = "fetch" /\ pc' \in {"probe", "select"}
  BY DEF Poll_Answered
<1>2. owed = 0 /\ waited = 0
  BY <1>1 DEF Clocks
<1>. QED  BY <1>1, <1>2, BoundCovers DEF Clocks

LEMMA ClocksFailed ==
  ASSUME Types, Clocks, NEW r \in RetryAfters, Poll_Failed(r)
  PROVE  Clocks'
<1>1. /\ UNCHANGED <<sincePoll, waited>> /\ pc \in {"fetch", "refresh"} /\ pc' = "select"
      /\ backoff' = Backoff(r) /\ owed' = MaxOf(MinOf(r, RetryAfterCap) - sincePoll, 0)
  BY DEF Poll_Failed
<1>2. MinOf(r, RetryAfterCap) \in Nat /\ Backoff(r) \in Int /\ MinOf(r, RetryAfterCap) <= Backoff(r)
  BY BackoffType DEF Types, MaxOf
<1>3. owed' = 0 \/ owed' + sincePoll' <= backoff'
  BY <1>1, <1>2, ClockNumbers DEF MaxOf
<1>4. waited = 0
  BY <1>1 DEF Clocks
<1>. QED  BY <1>1, <1>3, <1>4, ClockNumbers, BoundCovers DEF Clocks

LEMMA ClocksStep == Types /\ Clocks /\ [Next]_vars => Clocks'
<1>. SUFFICES ASSUME Types, Clocks, [Next]_vars PROVE Clocks'
  OBVIOUS
<1>1. CASE \/ UNCHANGED vars \/ Touch \/ Key_Pressed \/ \E song \in Songs : Crawl(song)
           \/ Player_Serves \/ Fetch_Unauthorized \/ Fetch_Refreshed \/ Probe
           \/ Key_Capture \/ Key_Refused \/ Key_Other \/ Write_Done
           \/ Prompt_Empty \/ Prompt_Answered
  <2>1. /\ UNCHANGED <<waited, sincePoll, owed, backoff>>
        /\ (pc' = "select" => pc \in {"select", "probe"})
        /\ (pc' \in {"fetch", "refresh"} => pc \in {"fetch", "refresh"})
        /\ (pc' = "probe" => pc = "probe")
    BY <1>1 DEF vars, Touch, Key_Pressed, Crawl, Player_Serves, Fetch_Unauthorized,
                Fetch_Refreshed, Probe, Key_Capture, Key_Refused, Key_Other, Write_Done,
                Prompt_Empty, Prompt_Answered, clocks, policy
  <2>. QED  BY <2>1, BoundCovers DEF Clocks
<1>2. CASE Fetch_Forbidden \/ Key_Quit \/ Session_Dies
  BY <1>2, ClocksOver DEF Fetch_Forbidden, Key_Quit, Session_Dies
<1>. QED  BY <1>1, <1>2, ClocksTick, ClocksLoop, ClocksAnswered, ClocksFailed DEF Next

-----------------------------------------------------------------------------
LEMMA TypesHold == Spec => []Types
BY TypesInit, TypesStep, PTL DEF Spec

(* Between two polls the loop waits for keys no longer than the caps, and   *)
(* it does not come back before a Retry-After is over, less what the        *)
(* refused request had taken: whatever the caps, the interval and the       *)
(* latency, and however long a refresh, the graph or a prompt takes.        *)
THEOREM OnTime == Spec => []PollsOnTime
<1>1. Spec => []Clocks
  BY ClocksInit, ClocksStep, TypesHold, PTL DEF Spec
<1>2. Clocks => PollsOnTime
  BY DEF Clocks, PollsOnTime, Bound
<1>. QED  BY <1>1, <1>2, PTL

(* A capture that fails was marked NOT IN GRAPH when the key was handled.    *)
THEOREM Forewarned == Spec => []FailuresAreForewarned
<1>1. Marks => FailuresAreForewarned
  BY DEF Marks
<1>. QED  BY <1>1, MarksInit, MarksStep, TypesHold, PTL DEF Spec

(* Unless somebody touches the device, a capture is of the song that plays  *)
(* when its key is handled, behind it by at most what one answer takes, or  *)
(* is that near to the end of a song that ended by itself; however long the *)
(* key, the prompt or the graph waited.                                     *)
THEOREM Accurate == Spec => []CapturesWithinLatency
<1>1. Behind => CapturesWithinLatency
  BY DEF Behind
<1>. QED  BY <1>1, BehindInit, BehindStep, TypesHold, PTL DEF Spec

(* Types, and a back-off exactly while polls fail.                           *)
THEOREM PlaybackTypes == Spec => []TypeOK
<1>1. Init => TypeOK
  <2>1. Init => failures = 0 /\ backoff = 0
    BY DEF Init
  <2>. QED  BY <2>1, TypesInit DEF TypeOK
<1>2. TypeOK /\ [Next]_vars => TypeOK'
  <2>. SUFFICES ASSUME TypeOK, [Next]_vars PROVE (failures = 0 <=> backoff = 0)'
    BY TypesStep DEF TypeOK
  <2>1. CASE Poll_Answered \/ Fetch_Forbidden \/ Key_Quit \/ Session_Dies
    BY <2>1 DEF Poll_Answered, Fetch_Forbidden, Key_Quit, Session_Dies, Over
  <2>2. ASSUME NEW r \in RetryAfters, Poll_Failed(r)
        PROVE  (failures = 0 <=> backoff = 0)'
    <3>1. failures \in 0..MaxFailures
      BY DEF TypeOK, Types
    <3>2. failures' # 0
      BY <2>2, <3>1 DEF Poll_Failed, MaxFailures, MinOf
    <3>3. Backoff(r) > 0
      BY <3>1, BackoffType
    <3>. QED  BY <2>2, <3>2, <3>3 DEF Poll_Failed
  <2>3. CASE \/ UNCHANGED vars \/ Tick \/ Touch \/ Key_Pressed \/ \E song \in Songs : Crawl(song)
             \/ Loop_Poll \/ Loop_Wait \/ Player_Serves \/ Fetch_Unauthorized \/ Fetch_Refreshed
             \/ Probe \/ Key_Capture \/ Key_Refused \/ Key_Other \/ Write_Done
             \/ Prompt_Empty \/ Prompt_Answered
    <3>1. UNCHANGED policy
      BY <2>3 DEF vars, Tick, Touch, Key_Pressed, Crawl, Loop_Poll, Loop_Wait, Player_Serves,
                  Fetch_Unauthorized, Fetch_Refreshed, Probe, Key_Capture, Key_Refused,
                  Key_Other, Write_Done, Prompt_Empty, Prompt_Answered
    <3>. QED  BY <3>1 DEF TypeOK, policy
  <2>. QED  BY <2>1, <2>2, <2>3 DEF Next
<1>. QED  BY <1>1, <1>2, PTL DEF Spec
=============================================================================
