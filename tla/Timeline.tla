------------------------------- MODULE Timeline -------------------------------
(***************************************************************************)
(* What the sections of a track promise, without the NEXT chain and the    *)
(* stored ends: a set of boundaries on the track's time line, no two at    *)
(* the same position, some with an end of their own.  A boundary is added, *)
(* removed, or moved between its neighbours.  Each section is shown to run *)
(* to its own end or else to the next boundary, whatever the order in      *)
(* which the boundaries came and went.                                     *)
(***************************************************************************)
EXTENDS Integers

CONSTANTS Ids, Ms

None == -1                  \* no boundary, no end: the section is open

VARIABLES
  at,         \* the position of each boundary
  fixed,      \* the end it was given
  shown       \* where its section is shown to end

vars == <<at, fixed, shown>>

Present == {i \in Ids : at[i] # None}

Following(i) ==
  {j \in Present : at[i] < at[j] /\ ~\E k \in Present : at[i] < at[k] /\ at[k] < at[j]}

EndOf(i) ==
  IF fixed[i] # None THEN fixed[i]
  ELSE IF i \notin Present \/ Following(i) = {} THEN None
  ELSE at[CHOOSE j \in Following(i) : TRUE]

Shown == shown = [i \in Ids |-> EndOf(i)]

Init ==
  /\ at = [i \in Ids |-> None]
  /\ fixed = [i \in Ids |-> None]
  /\ Shown

Add(i, ms, end) ==
  /\ i \notin Present
  /\ at' = [at EXCEPT ![i] = ms]
  /\ fixed' = [fixed EXCEPT ![i] = end]
  /\ \A j \in Present : at[j] # ms
  /\ end = None \/ end >= ms

Remove(i) ==
  /\ i \in Present
  /\ at' = [at EXCEPT ![i] = None]
  /\ fixed' = [fixed EXCEPT ![i] = None]

Move(i, ms) ==
  /\ i \in Present
  /\ at' = [at EXCEPT ![i] = ms]
  /\ UNCHANGED fixed
  /\ \A j \in Present \ {i} : at[j] # ms /\ (at[j] < ms <=> at[j] < at[i])
  /\ fixed[i] = None \/ fixed[i] >= ms

Next ==
  /\ \E i \in Ids :
       \/ \E ms \in Ms, end \in Ms \cup {None} : Add(i, ms, end)
       \/ Remove(i)
       \/ \E ms \in Ms : Move(i, ms)
  /\ Shown'

Spec == Init /\ [][Next]_vars
=============================================================================
