------------------------------ MODULE Playback ------------------------------
(***************************************************************************)
(* The clockwork of a listen session: the loop that polls the player, the  *)
(* estimate of the position between two polls, and the captures taken from *)
(* it.  What a capture does to the graph is the business of SectionChain;  *)
(* here only whether its track is in the graph matters.                    *)
(*                                                                         *)
(* Time passes in ticks of one select() timeout: while the loop asks the   *)
(* player, refreshes its token, asks the graph, waits for a key or for the *)
(* answer to a prompt.  Meanwhile the song ends and another follows, or    *)
(* the user pauses, seeks or switches on any device, and a key pressed     *)
(* before the loop is back stays in the terminal until it is.  Clocks are  *)
(* kept as ages, which count up to MaxAge: beyond it nothing in the        *)
(* program tells them apart.                                               *)
(***************************************************************************)
EXTENDS Integers, FiniteSets, FiniteSetsExt

CONSTANTS
  Songs, None,
  Duration,         \* of every song
  Interval,         \* --interval
  BackoffBase,      \* POLL_INTERVAL_SECONDS, whatever --interval says
  BackoffCap,       \* POLL_BACKOFF_CAP_SECONDS
  RetryAfterCap,    \* RETRY_AFTER_CAP_SECONDS
  RetryAfters,      \* the Retry-After headers Spotify sends, 0 for none
  Latency           \* the longest an answer takes: timeout=10 bounds the connection and
                    \* every wait for bytes, so an answer must not come in drops

ASSUME ClockAssumption ==
  /\ {Duration, Interval, BackoffBase, BackoffCap, RetryAfterCap} \subseteq Nat \ {0}
  /\ RetryAfters \subseteq Nat /\ Latency \in Nat
  /\ None \notin Songs

VARIABLES
  device,      \* the truth: [track, playing, progress]
  graph,       \* the songs the crawl has written
  pc,          \* where the loop is
  attempt,     \* of the request under way: the second follows a 401
  taken,       \* how long this attempt takes
  answer,      \* what the player showed when it served the request, or None
  tracker,     \* [track, playing, progress]: the last-known playback state
  sinceReply,  \* age of _polled_at, up to the length of a song
  sincePoll,   \* age of last_poll
  failures,    \* _poll_failures, up to where the cap holds anyway
  backoff,     \* poll_backoff_seconds
  inGraph,     \* current_track_in_graph
  capture,     \* the capture of this round of the loop, None without one
  key,         \* a capture key in the terminal: the position it was pressed at, or 0
               \* once that play is over or the device was touched; None without one
  play,        \* history: of `tracker` and `answer`, whether the play they show goes on
               \* ("same"), came to its end ("ended") or was touched ("unknown")
  owed,        \* history: what is left of the last Retry-After, less what the request
               \* it refused had taken
  waited       \* history: the ticks since the last poll that went to waiting for a key

clocks == <<sinceReply, sincePoll, owed, waited>>
belief == <<tracker, inGraph>>
policy == <<failures, backoff>>
vars == <<device, graph, pc, attempt, taken, answer, belief, clocks, policy, capture, key, play>>

MinOf(a, b) == IF a < b THEN a ELSE b
MaxOf(a, b) == IF a > b THEN a ELSE b

MaxAge == Max({Interval, BackoffCap, RetryAfterCap}) + 1
Ages   == 0..MaxAge
Older(age) == MinOf(age + 1, MaxAge)
MaxFailures == BackoffCap

Idle   == [track |-> None, playing |-> FALSE, progress |-> 0]
States == [track : Songs, playing : BOOLEAN, progress : 0..Duration] \cup {Idle}

(* Where the loop waits for something it sets no limit to: the token         *)
(* endpoint, the graph when it asks for a track, undoes or nudges, and the  *)
(* user.                                                                    *)
Waiting == {"refresh", "probe", "write", "prompt"}

(* `marked` is what the status line said of the track; `play`, `truth` and   *)
(* `pressed` are what went on when the key was handled: of the play that    *)
(* the session goes by, where it was and where the key was pressed.         *)
Plays == {"same", "ended", "unknown"}
Captures == [track : Songs, at : 0..Duration, marked : BOOLEAN, outcome : {"open", "saved", "failed"},
             play : Plays, truth : States, pressed : 0..Duration]

ASSUME NoneAssumption == None \notin States \cup Captures \cup 0..Duration

Init ==
  /\ device \in {s \in States : s.progress = 0}
  /\ graph \in SUBSET Songs
  /\ pc = "top" /\ attempt = 1 /\ taken = 0 /\ answer = None
  /\ tracker = Idle /\ inGraph = FALSE
  /\ sinceReply = Duration /\ sincePoll = MaxAge /\ owed = 0 /\ waited = 0
  /\ failures = 0 /\ backoff = 0
  /\ capture = None /\ key = None /\ play = [tracker |-> "unknown", answer |-> "unknown"]

(* Nothing is left of a session that is over.                               *)
Over ==
  /\ pc' = "done" /\ attempt' = 1 /\ taken' = 0 /\ answer' = None
  /\ tracker' = Idle /\ inGraph' = FALSE
  /\ sinceReply' = Duration /\ sincePoll' = MaxAge /\ owed' = 0 /\ waited' = 0
  /\ failures' = 0 /\ backoff' = 0
  /\ capture' = None /\ key' = None /\ play' = [tracker |-> "unknown", answer |-> "unknown"]
  /\ UNCHANGED <<device, graph>>

-----------------------------------------------------------------------------
(* The device.  At its end a song gives way to any other, to itself or to   *)
(* silence, without anybody's doing.                                        *)
Ending == device.playing /\ device.progress = Duration

Advanced ==
  IF Ending THEN {s \in States : s.progress = 0}
  ELSE IF device.playing THEN {[device EXCEPT !.progress = @ + 1]}
  ELSE {device}

(* What becomes of the plays that the session knows of.                     *)
Becomes(status) == [of \in DOMAIN play |-> IF play[of] = "same" THEN status ELSE play[of]]

Tick ==
  /\ \/ pc = "fetch" /\ taken < Latency /\ taken' = taken + 1 /\ pc' = pc
     \/ pc = "select" /\ key = None /\ pc' = "top" /\ UNCHANGED taken
     \/ pc \in Waiting /\ UNCHANGED <<pc, taken>>
  /\ device' \in Advanced
  /\ play' = IF Ending THEN Becomes("ended") ELSE play
  /\ key' = IF Ending /\ key # None THEN 0 ELSE key
  /\ sinceReply' = MinOf(sinceReply + 1, Duration) /\ sincePoll' = Older(sincePoll)
  /\ owed' = MaxOf(owed - 1, 0)
  /\ waited' = IF pc = "select" THEN Older(waited) ELSE waited
  /\ UNCHANGED <<graph, attempt, answer, belief, policy, capture>>

(* Pause, resume, seek, another song, another device.                       *)
Touch ==
  /\ pc \notin {"top", "done"}
  /\ device' \in States \ {device}
  /\ play' = Becomes("unknown")
  /\ key' = IF key # None THEN 0 ELSE key
  /\ UNCHANGED <<graph, pc, attempt, taken, answer, belief, clocks, policy, capture>>

Crawl(song) ==
  /\ pc \notin {"top", "done"} /\ song \notin graph
  /\ graph' = graph \cup {song}
  /\ UNCHANGED <<device, pc, attempt, taken, answer, belief, clocks, policy, capture, key, play>>

(* A capture key, which the terminal keeps until the loop reads it.  Of      *)
(* several the model follows one, those read before it being Key_Other; in  *)
(* a prompt what is typed is the answer.                                    *)
Key_Pressed ==
  /\ pc \notin {"top", "prompt", "done"} /\ key = None
  /\ key' = device.progress
  /\ UNCHANGED <<device, graph, pc, attempt, taken, answer, belief, clocks, policy, capture, play>>

-----------------------------------------------------------------------------
(* The loop.  last_poll is the time before the request.                     *)
Loop_Poll ==
  /\ pc = "top" /\ sincePoll >= MaxOf(Interval, backoff)
  /\ pc' = "fetch" /\ attempt' = 1 /\ taken' = 0 /\ answer' = None
  /\ sincePoll' = 0 /\ waited' = 0 /\ capture' = None
  /\ UNCHANGED <<device, graph, belief, sinceReply, owed, policy, key, play>>

Loop_Wait ==
  /\ pc = "top" /\ sincePoll < MaxOf(Interval, backoff)
  /\ pc' = "select" /\ capture' = None
  /\ UNCHANGED <<device, graph, attempt, taken, answer, belief, clocks, policy, key, play>>

Player_Serves ==
  /\ pc = "fetch" /\ answer = None
  /\ answer' = device
  /\ play' = [play EXCEPT !.answer = "same"]
  /\ UNCHANGED <<device, graph, pc, attempt, taken, belief, clocks, policy, capture, key>>

(* A 401: refresh the token and ask once more.  The request to the token    *)
(* endpoint has no timeout.                                                 *)
Fetch_Unauthorized ==
  /\ pc = "fetch" /\ answer = None /\ attempt = 1
  /\ pc' = "refresh" /\ taken' = 0
  /\ UNCHANGED <<device, graph, attempt, answer, belief, clocks, policy, capture, key, play>>

Fetch_Refreshed ==
  /\ pc = "refresh"
  /\ pc' = "fetch" /\ attempt' = 2
  /\ UNCHANGED <<device, graph, taken, answer, belief, clocks, policy, capture, key, play>>

(* A 403 ends the session.                                                  *)
Fetch_Forbidden == pc = "fetch" /\ answer = None /\ Over

Poll_Answered_MarksOnce ==
  /\ pc = "fetch" /\ answer # None
  /\ pc' = IF answer # Idle /\ tracker = Idle THEN "probe" ELSE "select"
  /\ attempt' = 1 /\ taken' = 0 /\ answer' = None
  /\ failures' = 0 /\ backoff' = 0
  /\ tracker' = answer
  /\ sinceReply' = IF answer = Idle THEN Duration ELSE 0
  /\ play' = [tracker |-> IF answer = Idle THEN "unknown" ELSE play.answer, answer |-> "unknown"]
  /\ UNCHANGED <<device, graph, inGraph, sincePoll, owed, waited, capture, key>>

Poll_Answered_KeepsBackoff ==
  /\ pc = "fetch" /\ answer # None
  /\ pc' = IF answer # Idle /\ answer.track # tracker.track THEN "probe" ELSE "select"
  /\ attempt' = 1 /\ taken' = 0 /\ answer' = None
  /\ failures' = 0 /\ UNCHANGED backoff
  /\ tracker' = answer
  /\ sinceReply' = IF answer = Idle THEN Duration ELSE 0
  /\ play' = [tracker |-> IF answer = Idle THEN "unknown" ELSE play.answer, answer |-> "unknown"]
  /\ UNCHANGED <<device, graph, inGraph, sincePoll, owed, waited, capture, key>>

(* poll with an answer: on a change of track the graph is asked for it.     *)
Poll_Answered ==
  /\ pc = "fetch" /\ answer # None
  /\ pc' = IF answer # Idle /\ answer.track # tracker.track THEN "probe" ELSE "select"
  /\ attempt' = 1 /\ taken' = 0 /\ answer' = None
  /\ failures' = 0 /\ backoff' = 0
  /\ tracker' = answer
  /\ sinceReply' = IF answer = Idle THEN Duration ELSE 0
  /\ play' = [tracker |-> IF answer = Idle THEN "unknown" ELSE play.answer, answer |-> "unknown"]
  /\ UNCHANGED <<device, graph, inGraph, sincePoll, owed, waited, capture, key>>

Probe ==
  /\ pc = "probe"
  /\ pc' = "select"
  /\ inGraph' = (tracker.track \in graph)
  /\ UNCHANGED <<device, graph, attempt, taken, answer, tracker, clocks, policy, capture, key, play>>

PowersOfTwo[n \in 0..MaxFailures] == IF n = 0 THEN 1 ELSE 2 * PowersOfTwo[n - 1]

(* poll without one (a timeout, a 5xx, a 429, a refresh refused): the       *)
(* last-known state stays.                                                  *)
Backoff_Uncapped(retryAfter) ==
  MaxOf(MinOf(BackoffCap, BackoffBase * PowersOfTwo[failures]), retryAfter)

Backoff(retryAfter) ==
  MaxOf(MinOf(BackoffCap, BackoffBase * PowersOfTwo[failures]), MinOf(retryAfter, RetryAfterCap))

Poll_Failed(retryAfter) ==
  /\ pc \in {"fetch", "refresh"}
  /\ pc' = "select" /\ attempt' = 1 /\ taken' = 0 /\ answer' = None
  /\ failures' = MinOf(failures + 1, MaxFailures)
  /\ backoff' = Backoff(retryAfter)
  /\ owed' = MaxOf(MinOf(retryAfter, RetryAfterCap) - sincePoll, 0)
  /\ play' = [play EXCEPT !.answer = "unknown"]
  /\ UNCHANGED <<device, graph, belief, sinceReply, sincePoll, waited, capture, key>>

-----------------------------------------------------------------------------
(* position_ms                                                              *)
Position_Unclamped == tracker.progress + (IF tracker.playing THEN sinceReply ELSE 0)

Position ==
  MinOf(tracker.progress + (IF tracker.playing THEN sinceReply ELSE 0), Duration)

(* A capture key is read: the position is taken before the prompt opens.    *)
Key_Capture ==
  /\ pc = "select" /\ key # None /\ tracker # Idle
  /\ pc' = "prompt" /\ key' = None
  /\ capture' = [track |-> tracker.track, at |-> Position, marked |-> inGraph, outcome |-> "open",
                 play |-> play.tracker,
                 truth |-> IF play.tracker = "same" THEN device ELSE Idle,
                 pressed |-> IF play.tracker = "same" THEN key ELSE 0]
  /\ UNCHANGED <<device, graph, attempt, taken, answer, belief, clocks, policy, play>>

Key_Refused ==
  /\ pc = "select" /\ key # None /\ tracker = Idle
  /\ pc' = "top" /\ key' = None
  /\ UNCHANGED <<device, graph, attempt, taken, answer, belief, clocks, policy, capture, play>>

(* Any other key: an undo or a nudge is written to the graph.               *)
Key_Other ==
  /\ pc = "select"
  /\ pc' \in {"top", "write"}
  /\ UNCHANGED <<device, graph, attempt, taken, answer, belief, clocks, policy, capture, key, play>>

Key_Quit == pc = "select" /\ Over

Write_Done ==
  /\ pc = "write"
  /\ pc' = "top"
  /\ UNCHANGED <<device, graph, attempt, taken, answer, belief, clocks, policy, capture, key, play>>

Prompt_Empty ==
  /\ pc = "prompt"
  /\ pc' = "top" /\ capture' = None
  /\ UNCHANGED <<device, graph, attempt, taken, answer, belief, clocks, policy, key, play>>

(* _record or _fail: the outcome shows whether the track is in the graph.   *)
Prompt_Answered ==
  /\ pc = "prompt"
  /\ pc' = "top"
  /\ capture' = [capture EXCEPT !.outcome = IF capture.track \in graph THEN "saved" ELSE "failed"]
  /\ inGraph' = (capture.track \in graph)
  /\ UNCHANGED <<device, graph, attempt, taken, answer, tracker, clocks, policy, key, play>>

(* No token or credentials to read, an error of the database, a closed      *)
(* terminal: nothing catches it.                                            *)
Session_Dies == pc \in Waiting \cup {"fetch"} /\ Over

Next ==
  \/ Tick \/ Touch \/ Key_Pressed \/ \E song \in Songs : Crawl(song)
  \/ Loop_Poll \/ Loop_Wait
  \/ Player_Serves \/ Fetch_Unauthorized \/ Fetch_Refreshed \/ Fetch_Forbidden
  \/ Poll_Answered \/ Probe \/ \E r \in RetryAfters : Poll_Failed(r)
  \/ Key_Capture \/ Key_Refused \/ Key_Other \/ Key_Quit \/ Write_Done
  \/ Prompt_Empty \/ Prompt_Answered \/ Session_Dies

Spec == Init /\ [][Next]_vars

-----------------------------------------------------------------------------
Types ==
  /\ device \in States /\ tracker \in States /\ answer \in States \cup {None}
  /\ graph \subseteq Songs
  /\ pc \in {"top", "fetch", "select", "done"} \cup Waiting
  /\ attempt \in 1..2 /\ taken \in 0..Latency
  /\ sinceReply \in 0..Duration /\ sincePoll \in Ages /\ waited \in Ages
  /\ failures \in 0..MaxFailures
  /\ backoff \in 0..MaxOf(BackoffCap, RetryAfterCap)
  /\ inGraph \in BOOLEAN
  /\ capture \in Captures \cup {None} /\ (pc = "prompt" => capture # None)
  /\ key \in 0..Duration \cup {None}
  /\ play \in [tracker : Plays, answer : Plays]
  /\ owed \in 0..RetryAfterCap

(* Ages and counters stay in range, there is a back-off exactly while polls  *)
(* fail, and a prompt always has the capture it was opened for.             *)
TypeOK == Types /\ (failures = 0 <=> backoff = 0)

(* "Accuracy is poll-latency bound".  Unless somebody touched the device    *)
(* since the player served the state the session goes by: while that play   *)
(* goes on, a capture is of its song, at the position it has when the key   *)
(* is handled or up to one answer's latency before, and no more than that   *)
(* before the position at which the key was pressed; and when the play has  *)
(* ended meanwhile, the capture is within the latency of its end.  However  *)
(* long the prompt stays open, however many polls have failed and however   *)
(* long the key waited in the terminal.                                     *)
CapturesWithinLatency ==
  capture # None =>
    /\ capture.play = "same" =>
         /\ capture.track = capture.truth.track
         /\ capture.at \in (capture.truth.progress - Latency)..capture.truth.progress
         /\ capture.at >= capture.pressed - Latency
    /\ capture.play = "ended" =>
         capture.at \in MinOf(Duration, Duration + 1 - Latency)..Duration

(* A capture that fails because its track is not in the graph fails under   *)
(* the NOT IN GRAPH mark: the mark is never left over from another song.    *)
FailuresAreForewarned ==
  capture # None /\ capture.outcome = "failed" => ~capture.marked

(* The loop keeps breathing: of the time that goes to polls and to waiting  *)
(* for keys it never leaves more than the caps between two polls (what a    *)
(* prompt, a refresh or the graph takes, nothing bounds); and it does not   *)
(* come back before a Retry-After is over, but for the time the refused     *)
(* request had taken, as the wait counts from before that request.          *)
PollsOnTime ==
  /\ waited <= Max({Interval, BackoffCap, RetryAfterCap})
  /\ pc = "fetch" => owed = 0
=============================================================================
