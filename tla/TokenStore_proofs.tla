-------------------------- MODULE TokenStore_proofs --------------------------
(***************************************************************************)
(* The types of TokenStore, its sticky primary and the ownership of its    *)
(* files, for any users, processes, logins and number of tokens, and       *)
(* however the writes of the processes interleave.                         *)
(***************************************************************************)
EXTENDS TokenStore, TLAPS

USE TokenAssumption

(* The writes of a legacy refresh, those of save_tokens, and its last two.  *)
LegacyPath == {"legacy_api", "legacy_ref", "find_primary"}
OwnPath    == {"own_api", "own_ref", "claim", "mirror_api", "mirror_ref"}
MirrorPath == {"mirror_api", "mirror_ref"}

(* A process that is saving has a token to save; only a login asks whose   *)
(* tokens it has, and it never refreshes; it files them under that user.   *)
Paths ==
  /\ \A p \in Processes :
       proc[p].pc \in LegacyPath \cup OwnPath \cup {"who_am_i"} => proc[p].api \in Token
  /\ proc[Login].pc \notin LegacyPath \cup {"post"}
  /\ proc[Login].pc \in OwnPath => proc[Login].who = proc[Login].api.user

TypeInv == TypeOK /\ Paths

LEMMA TypeInit == Init => TypeInv
<1>. SUFFICES ASSUME Init PROVE TypeInv
  OBVIOUS
<1>1. PICK who \in Installs : InitInstalled(who)
  BY DEF Init
<1>2. Idle \in Process /\ Idle.pc = "idle" /\ NoToken \notin Token
  BY DEF Idle, Process, Places, NoToken, Token
<1>3. who \in Users => [user |-> who, n |-> 1] \in Token
  BY DEF Token
<1>4. TypeOK
  BY <1>1, <1>2, <1>3 DEF Init, InitInstalled, TypeOK, Places, Processes
<1>5. Paths
  BY <1>2 DEF Init, Paths, LegacyPath, OwnPath, Processes
<1>. QED  BY <1>4, <1>5 DEF TypeInv

(* What a step of one process leaves of the others.                        *)
LEMMA OneProcess ==
  ASSUME TypeInv, NEW p \in Processes, NEW r \in Process,
         proc' = [proc EXCEPT ![p] = r],
         r.pc # "idle" => r.ref \in Token,
         r.pc \in LegacyPath \cup OwnPath \cup {"who_am_i"} => r.api \in Token,
         p = Login => r.pc \notin LegacyPath \cup {"post"},
         p = Login /\ r.pc \in OwnPath => r.who = r.api.user
  PROVE  /\ proc' \in [Processes -> Process]
         /\ \A q \in Processes : proc'[q].pc # "idle" => proc'[q].ref \in Token
         /\ Paths'
BY DEF TypeInv, TypeOK, Paths, Processes

LEMMA IdleProcess ==
  /\ Idle \in Process /\ Idle.pc = "idle" /\ Idle.who = Legacy
  /\ NoToken \notin Token /\ NoToken.user = Legacy
BY DEF Idle, Process, Places, NoToken, Token

LEMMA TypeReturn ==
  ASSUME TypeInv, NEW p \in Processes, Return(p)
  PROVE  /\ proc' \in [Processes -> Process]
         /\ \A q \in Processes : proc'[q].pc # "idle" => proc'[q].ref \in Token
         /\ Paths'
BY IdleProcess, OneProcess DEF Return, LegacyPath, OwnPath

(* A step of a process through its writes keeps what it has to save.       *)
LEMMA TypeGoto ==
  ASSUME TypeInv, NEW p \in Processes, NEW pc, Goto(p, pc),
         proc[p].pc \in LegacyPath \cup OwnPath,
         pc \in LegacyPath => proc[p].pc \in LegacyPath,
         pc \in LegacyPath \cup OwnPath,
         pc \in OwnPath => proc[p].pc \in OwnPath
  PROVE  /\ proc' \in [Processes -> Process]
         /\ \A q \in Processes : proc'[q].pc # "idle" => proc'[q].ref \in Token
         /\ Paths'
<1>. DEFINE r == [proc[p] EXCEPT !.pc = pc]
<1>1. proc[p] \in Process /\ proc' = [proc EXCEPT ![p] = r]
  BY DEF TypeInv, TypeOK, Goto
<1>2. r \in Process /\ r.pc = pc /\ r.api = proc[p].api /\ r.ref = proc[p].ref /\ r.who = proc[p].who
  BY <1>1 DEF Process, LegacyPath, OwnPath
<1>3. proc[p].ref \in Token /\ proc[p].api \in Token
  BY DEF TypeInv, TypeOK, Paths, LegacyPath, OwnPath
<1>. QED
  BY <1>1, <1>2, <1>3, OneProcess DEF TypeInv, Paths, LegacyPath, OwnPath

LEMMA TypeSave ==
  ASSUME TypeInv, NEW p \in Processes, SaveStep(p)
  PROVE  TypeInv'
<1>0. /\ proc[p] \in Process /\ primary \in Places /\ Legacy \in Places
      /\ proc[p].who \in Places /\ proc[p].api \in Token \cup {NoToken}
      /\ proc[p].ref \in Token \cup {NoToken}
  BY DEF TypeInv, TypeOK, Process, Places
<1>1. CASE WriteLegacyApi(p)
  BY <1>0, <1>1, TypeGoto DEF WriteLegacyApi, TypeInv, TypeOK, LegacyPath, OwnPath
<1>2. CASE WriteLegacyRef(p)
  BY <1>0, <1>2, TypeGoto DEF WriteLegacyRef, TypeInv, TypeOK, LegacyPath, OwnPath
<1>3. CASE FindPrimary(p)
  <2>1. CASE primary = Legacy
    BY <1>3, <2>1, TypeReturn DEF FindPrimary, TypeInv, TypeOK
  <2>2. CASE primary # Legacy
    <3>. DEFINE r == [proc[p] EXCEPT !.pc = "own_api", !.who = primary]
    <3>1. r \in Process /\ r.pc = "own_api" /\ r.api = proc[p].api /\ r.ref = proc[p].ref
      BY <1>0 DEF Process
    <3>2. proc' = [proc EXCEPT ![p] = r] /\ proc[p].pc = "find_primary"
      BY <1>0, <1>3, <2>2 DEF FindPrimary, TypeInv, TypeOK
    <3>3. proc[p].ref \in Token /\ proc[p].api \in Token /\ p # Login
      BY <3>2 DEF TypeInv, TypeOK, Paths, LegacyPath
    <3>. QED
      BY <1>3, <3>1, <3>2, <3>3, OneProcess DEF FindPrimary, TypeInv, TypeOK, LegacyPath, OwnPath
  <2>. QED  BY <2>1, <2>2
<1>4. CASE WriteOwnApi(p)
  BY <1>0, <1>4, TypeGoto DEF WriteOwnApi, TypeInv, TypeOK, LegacyPath, OwnPath
<1>5. CASE WriteOwnRef(p)
  <2>1. ref' \in [Places -> Token \cup {NoToken}]
    BY <1>0, <1>5 DEF WriteOwnRef, TypeInv, TypeOK
  <2>. QED
    BY <1>5, <2>1, TypeReturn, TypeGoto DEF WriteOwnRef, TypeInv, TypeOK, LegacyPath, OwnPath
<1>6. CASE ClaimPrimary(p)
  <2>1. primary' \in Places
    BY <1>0, <1>6 DEF ClaimPrimary
  <2>. QED
    BY <1>6, <2>1, TypeReturn, TypeGoto DEF ClaimPrimary, TypeInv, TypeOK, LegacyPath, OwnPath
<1>7. CASE MirrorApi(p)
  BY <1>0, <1>7, TypeGoto DEF MirrorApi, TypeInv, TypeOK, LegacyPath, OwnPath
<1>8. CASE MirrorRef(p)
  BY <1>0, <1>8, TypeReturn DEF MirrorRef, TypeInv, TypeOK
<1>. QED
  BY <1>1, <1>2, <1>3, <1>4, <1>5, <1>6, <1>7, <1>8 DEF SaveStep

LEMMA TypeRefresh ==
  ASSUME TypeInv, NEW p \in Refreshers,
         \/ \E who \in Places : Refresh_Begin(p, who)
         \/ \E rotated \in BOOLEAN : Refresh_Granted(p, rotated)
         \/ Refresh_Fails(p)
  PROVE  TypeInv'
<1>0. p \in Processes /\ p # Login
  BY DEF Processes
<1>1. ASSUME NEW who \in Places, Refresh_Begin(p, who) PROVE TypeInv'
  <2>. DEFINE r == [Idle EXCEPT !.pc = "post", !.who = who, !.ref = ref[who]]
  <2>1. r \in Process /\ r.pc = "post" /\ r.ref \in Token
    BY <1>1 DEF Refresh_Begin, Idle, Process, TypeInv, TypeOK
  <2>2. happened' \subseteq {"installed", "overlap", "crash", "forget"}
    BY <1>1 DEF Refresh_Begin, Begin, TypeInv, TypeOK
  <2>. QED
    BY <1>0, <1>1, <2>1, <2>2, OneProcess DEF Refresh_Begin, TypeInv, TypeOK, LegacyPath, OwnPath
<1>2. ASSUME NEW rotated \in BOOLEAN, Refresh_Granted(p, rotated) PROVE TypeInv'
  <2>. DEFINE old == proc[p].ref
              new == [user |-> old.user, n |-> issued[old.user] + 1]
              pc  == IF proc[p].who = Legacy THEN "legacy_api" ELSE "own_api"
              r   == [proc[p] EXCEPT !.pc = pc, !.api = new, !.ref = IF rotated THEN new ELSE old]
  <2>1. proc[p] \in Process /\ proc[p].pc = "post" /\ old \in Token
    BY <1>0, <1>2 DEF Refresh_Granted, TypeInv, TypeOK
  <2>2. old.user \in Users /\ issued[old.user] \in Nat
    BY <2>1 DEF Token, TypeInv, TypeOK
  <2>3. new \in Token /\ issued' \in [Users -> 0..MaxIssued] /\ valid' \subseteq Token
    <3>1. new.n <= MaxIssued /\ issued' = [issued EXCEPT ![old.user] = new.n]
      BY <1>2 DEF Refresh_Granted, Issue
    <3>2. new.n \in 1..MaxIssued
      BY <2>2, <3>1
    <3>3. new \in Token
      BY <2>2, <3>2 DEF Token
    <3>4. issued' \in [Users -> 0..MaxIssued]
      BY <2>2, <3>1, <3>2 DEF TypeInv, TypeOK
    <3>5. valid \subseteq Token /\ (valid' = valid \/ valid' = (valid \ {old}) \cup {new})
      BY <1>2 DEF Refresh_Granted, TypeInv, TypeOK
    <3>. QED
      BY <3>3, <3>4, <3>5
  <2>4. r \in Process /\ r.pc = pc /\ r.api = new /\ r.ref \in Token
    BY <2>1, <2>3 DEF Process
  <2>5. proc' = [proc EXCEPT ![p] = r]
    BY <1>0, <1>2, <2>1 DEF Refresh_Granted, TypeInv, TypeOK, Process
  <2>6. UNCHANGED <<api, ref, primary, nonce, happened>>
    BY <1>2 DEF Refresh_Granted
  <2>7. /\ proc' \in [Processes -> Process] /\ Paths'
        /\ \A q \in Processes : proc'[q].pc # "idle" => proc'[q].ref \in Token
    BY <1>0, <2>3, <2>4, <2>5, OneProcess
  <2>. QED
    BY <2>3, <2>6, <2>7 DEF TypeInv, TypeOK
<1>3. CASE Refresh_Fails(p)
  BY <1>0, <1>3, TypeReturn DEF Refresh_Fails, TypeInv, TypeOK
<1>. QED  BY <1>1, <1>2, <1>3

LEMMA TypeLogin ==
  ASSUME TypeInv,
         \/ \E n \in Nonces : StoreOauthState(n) \/ StateExpires(n) \/ \E u \in Users : Callback(u, n)
         \/ WhoAmI \/ WhoAmI_Fails
  PROVE  TypeInv'
<1>0. Login \in Processes
  BY DEF Processes
<1>1. ASSUME NEW n \in Nonces, StoreOauthState(n) \/ StateExpires(n) PROVE TypeInv'
  BY <1>1 DEF StoreOauthState, StateExpires, TypeInv, TypeOK, Paths
<1>2. ASSUME NEW n \in Nonces, NEW u \in Users, Callback(u, n) PROVE TypeInv'
  <2>. DEFINE new == [user |-> u, n |-> issued[u] + 1]
              r   == [Idle EXCEPT !.pc = "who_am_i", !.api = new, !.ref = new]
  <2>1. new \in Token /\ issued' \in [Users -> 0..MaxIssued] /\ valid' \subseteq Token
    <3>1. /\ new.n <= MaxIssued /\ issued' = [issued EXCEPT ![u] = new.n]
          /\ valid' = valid \cup {new}
      BY <1>2 DEF Callback, Exchanged, Issue
    <3>2. new.n \in 1..MaxIssued
      BY <3>1 DEF TypeInv, TypeOK
    <3>3. new \in Token
      BY <3>2 DEF Token
    <3>. QED
      BY <3>1, <3>2, <3>3 DEF TypeInv, TypeOK
  <2>2. r \in Process /\ r.pc = "who_am_i" /\ r.api = new /\ r.ref = new
    BY <2>1 DEF Idle, Process, Places
  <2>3. /\ happened' \subseteq {"installed", "overlap", "crash", "forget"}
        /\ nonce' \in [Nonces -> {"unused", "live", "gone"}]
    BY <1>2 DEF Callback, Begin, TypeInv, TypeOK
  <2>4. /\ UNCHANGED <<api, ref, primary>>
        /\ proc' = [proc EXCEPT ![Login] = r]
    BY <1>2 DEF Callback, Exchanged
  <2>5. /\ proc' \in [Processes -> Process] /\ Paths'
        /\ \A q \in Processes : proc'[q].pc # "idle" => proc'[q].ref \in Token
    BY <1>0, <2>1, <2>2, <2>4, OneProcess DEF LegacyPath, OwnPath
  <2>. QED
    BY <2>1, <2>3, <2>4, <2>5 DEF TypeInv, TypeOK
<1>3. CASE WhoAmI
  <2>. DEFINE r == [proc[Login] EXCEPT !.pc = "own_api", !.who = proc[Login].api.user]
  <2>1. proc[Login] \in Process /\ proc[Login].api \in Token /\ proc[Login].ref \in Token
    BY <1>0, <1>3 DEF WhoAmI, TypeInv, TypeOK, Paths
  <2>2. r \in Process /\ r.pc = "own_api" /\ r.who = r.api.user
        /\ r.api = proc[Login].api /\ r.ref = proc[Login].ref
    BY <2>1 DEF Process, Places, Token
  <2>3. proc' = [proc EXCEPT ![Login] = r]
    BY <1>0, <1>3 DEF WhoAmI, TypeInv, TypeOK
  <2>4. /\ proc' \in [Processes -> Process] /\ Paths'
        /\ \A q \in Processes : proc'[q].pc # "idle" => proc'[q].ref \in Token
    BY <1>0, <2>1, <2>2, <2>3, OneProcess DEF LegacyPath
  <2>. QED
    BY <1>3, <2>4 DEF WhoAmI, TypeInv, TypeOK
<1>4. CASE WhoAmI_Fails
  BY <1>0, <1>4, TypeReturn DEF WhoAmI_Fails, TypeInv, TypeOK
<1>. QED  BY <1>1, <1>2, <1>3, <1>4

LEMMA TypeHazard ==
  ASSUME TypeInv,
         \/ \E p \in Processes : Crash(p)
         \/ \E u \in Users : ForgetUser(u)
         \/ ForgetPrimary
  PROVE  TypeInv'
<1>1. ASSUME NEW p \in Processes, Crash(p) PROVE TypeInv'
  BY <1>1, TypeReturn DEF Crash, Hazard, TypeInv, TypeOK
<1>2. ASSUME NEW u \in Users, ForgetUser(u) PROVE TypeInv'
  BY <1>2 DEF ForgetUser, Hazard, Places, TypeInv, TypeOK, Paths
<1>3. CASE ForgetPrimary
  BY <1>3 DEF ForgetPrimary, Places, TypeInv, TypeOK, Paths
<1>. QED  BY <1>1, <1>2, <1>3

LEMMA TypeStep == TypeInv /\ [Next]_vars => TypeInv'
<1>. SUFFICES ASSUME TypeInv, [Next]_vars PROVE TypeInv'
  OBVIOUS
<1>1. CASE UNCHANGED vars
  BY <1>1 DEF vars, TypeInv, TypeOK, Paths
<1>2. CASE Next
  BY <1>2, TypeSave, TypeRefresh, TypeLogin, TypeHazard DEF Next
<1>. QED  BY <1>1, <1>2

(* Every variable keeps its type, and a process at work has a refresh      *)
(* token: the one Spotify sent, or the old one where it sent none.         *)
THEOREM TokenTypes == Spec => []TypeOK
<1>1. TypeInv => TypeOK
  BY DEF TypeInv
<1>. QED  BY TypeInit, TypeStep, <1>1, PTL DEF Spec

-----------------------------------------------------------------------------
(* The slot of the primary is written by a claim and by a deletion only,   *)
(* and a login files under the user whose tokens it has.                   *)
THEOREM PrimarySticks == Spec => PrimaryIsSticky
<1>. DEFINE Sticky ==
       primary' # primary =>
         \/ primary' = Legacy /\ api[primary] = NoToken
         \/ primary = Legacy /\ proc[Login].pc = "claim" /\ primary' = proc[Login].api.user
<1>1. TypeInv /\ [Next]_vars => Sticky
  <2>. SUFFICES ASSUME TypeInv, [Next]_vars, primary' # primary PROVE Sticky
    OBVIOUS
  <2>1. \/ ForgetPrimary
        \/ \E p \in Processes : ClaimPrimary(p)
    BY DEF Next, vars, Refresh_Begin, Refresh_Granted, Refresh_Fails, StoreOauthState,
           StateExpires, Callback, WhoAmI, WhoAmI_Fails, SaveStep, WriteLegacyApi,
           WriteLegacyRef, FindPrimary, WriteOwnApi, WriteOwnRef, MirrorApi, MirrorRef,
           Crash, ForgetUser
  <2>2. CASE ForgetPrimary
    BY <2>2 DEF ForgetPrimary
  <2>3. ASSUME NEW p \in Processes, ClaimPrimary(p) PROVE Sticky
    BY <2>3 DEF ClaimPrimary, TypeInv, Paths, OwnPath
  <2>. QED  BY <2>1, <2>2, <2>3
<1>2. QED
  BY TypeInit, TypeStep, <1>1, PTL DEF Spec, PrimaryIsSticky
-----------------------------------------------------------------------------
(* A user's files stay until the user is deleted: the primary has them, and *)
(* whoever a process saves tokens for from its first write on.              *)
KeptFor(r, files, first) ==
  r.pc \in OwnPath =>
    /\ r.who # Legacy
    /\ r.pc # "own_api" => files[r.who] # NoToken
    /\ r.pc \in MirrorPath => first = r.who

Kept ==
  "forget" \notin happened =>
    /\ primary # Legacy => api[primary] # NoToken
    /\ \A p \in Processes : KeptFor(proc[p], api, primary)

LEMMA KeptInit == Init => Kept
BY IdleProcess DEF Init, Kept, KeptFor, OwnPath, Processes

(* A process that leaves the primary alone and removes no file.             *)
LEMMA KeptMoves ==
  ASSUME TypeInv, Kept, NEW p \in Processes, NEW r, proc' = [proc EXCEPT ![p] = r],
         "forget" \notin happened, primary' = primary,
         \A x \in Places : api[x] # NoToken => api'[x] # NoToken,
         KeptFor(r, api', primary)
  PROVE  Kept'
<1>1. ASSUME NEW q \in Processes PROVE KeptFor(proc'[q], api', primary)
  <2>1. CASE q = p
    <3>1. proc'[q] = r
      BY <2>1 DEF TypeInv, TypeOK
    <3>. QED  BY <3>1
  <2>2. CASE q # p
    <3>1. proc'[q] = proc[q] /\ proc[q].who \in Places
      BY <2>2 DEF TypeInv, TypeOK, Process
    <3>. QED  BY <3>1 DEF Kept, KeptFor
  <2>. QED  BY <2>1, <2>2
<1>2. primary' # Legacy => api'[primary'] # NoToken
  BY DEF Kept, TypeInv, TypeOK
<1>. QED  BY <1>1, <1>2 DEF Kept

LEMMA KeptSave ==
  ASSUME TypeInv, Kept, NEW p \in Processes, SaveStep(p), "forget" \notin happened
  PROVE  Kept'
<1>. DEFINE r == proc[p]
            at(pc) == [proc[p] EXCEPT !.pc = pc]
            Moves(pc) == proc' = [proc EXCEPT ![p] = at(pc)]
<1>0. /\ r \in Process /\ proc \in [Processes -> Process] /\ r.who \in Places
      /\ r.pc \in LegacyPath \cup OwnPath => r.api \in Token
      /\ api \in [Places -> Token \cup {NoToken}] /\ Legacy \in Places
      /\ NoToken \notin Token
      /\ KeptFor(r, api, primary)
  BY IdleProcess DEF TypeInv, TypeOK, Paths, Process, Places, Kept
<1>a. \A pc : at(pc).who = r.who /\ at(pc).pc = pc
  BY <1>0 DEF Process
<1>b. ASSUME NEW x, proc' = [proc EXCEPT ![p] = x], primary' = primary,
             \A y \in Places : api[y] # NoToken => api'[y] # NoToken,
             x.pc \in OwnPath => /\ x.who \in Places \ {Legacy}
                                 /\ x.pc # "own_api" => api'[x.who] # NoToken
                                 /\ x.pc \in MirrorPath => primary = x.who
      PROVE  Kept'
  BY <1>b, KeptMoves DEF KeptFor
<1>c. /\ r.pc \in OwnPath => r.who # Legacy
      /\ r.pc \in OwnPath /\ r.pc # "own_api" => api[r.who] # NoToken
      /\ r.pc \in MirrorPath => primary = r.who
  BY <1>0 DEF KeptFor, OwnPath, MirrorPath
<1>1. CASE WriteLegacyApi(p) \/ WriteLegacyRef(p)
  <2>1. /\ Moves("legacy_ref") \/ Moves("find_primary")
        /\ primary' = primary
        /\ \A x \in Places : api[x] # NoToken => api'[x] # NoToken
    BY <1>0, <1>1 DEF WriteLegacyApi, WriteLegacyRef, Goto, LegacyPath
  <2>. QED  BY <1>a, <1>b, <2>1 DEF OwnPath
<1>2. CASE FindPrimary(p)
  <2>. DEFINE x == [proc[p] EXCEPT !.pc = "own_api", !.who = primary]
  <2>1. x.pc = "own_api" /\ x.who = primary /\ UNCHANGED <<api, primary>>
        /\ \/ proc' = [proc EXCEPT ![p] = Idle]
           \/ primary # Legacy /\ proc' = [proc EXCEPT ![p] = x]
    BY <1>0, <1>2 DEF FindPrimary, Return, Process
  <2>2. primary \in Places
    BY DEF TypeInv, TypeOK
  <2>. QED  BY <1>b, <2>1, <2>2, IdleProcess DEF OwnPath, MirrorPath
<1>3. CASE WriteOwnApi(p)
  <2>1. /\ Moves("own_ref") /\ primary' = primary /\ api'[r.who] # NoToken /\ r.who # Legacy
        /\ \A x \in Places : api[x] # NoToken => api'[x] # NoToken
    BY <1>0, <1>3, <1>c DEF WriteOwnApi, Goto, OwnPath
  <2>. QED  BY <1>0, <1>a, <1>b, <2>1 DEF MirrorPath
<1>4. CASE WriteOwnRef(p) \/ MirrorRef(p)
  <2>1. /\ UNCHANGED <<api, primary>> /\ r.who # Legacy
        /\ \/ Moves("claim") /\ api[r.who] # NoToken
           \/ proc' = [proc EXCEPT ![p] = Idle]
    BY <1>0, <1>4, <1>c DEF WriteOwnRef, MirrorRef, Goto, Return, OwnPath
  <2>. QED  BY <1>0, <1>a, <1>b, <2>1, IdleProcess DEF OwnPath, MirrorPath
<1>5. CASE MirrorApi(p)
  <2>1. /\ Moves("mirror_ref") /\ primary' = primary
        /\ api' = [api EXCEPT ![Legacy] = r.api] /\ r.api # NoToken /\ api[r.who] # NoToken
        /\ r.who # Legacy /\ primary = r.who
    BY <1>0, <1>5, <1>c DEF MirrorApi, Goto, OwnPath, MirrorPath
  <2>2. \A x \in Places : api[x] # NoToken => api'[x] # NoToken
    BY <1>0, <2>1
  <2>. QED  BY <1>0, <1>a, <1>b, <2>1, <2>2
<1>6. CASE ClaimPrimary(p)
  <2>1. /\ api' = api /\ api[r.who] # NoToken /\ r.who # Legacy
        /\ primary' = primary \/ (primary = Legacy /\ primary' = r.who)
        /\ \/ Moves("mirror_api") /\ primary' = r.who
           \/ proc' = [proc EXCEPT ![p] = Idle]
    BY <1>0, <1>6, <1>c DEF ClaimPrimary, Goto, Return, OwnPath
  <2>2. ASSUME NEW q \in Processes PROVE KeptFor(proc'[q], api', primary')
    <3>1. CASE q = p
      <4>1. CASE proc'[q] = Idle
        BY <4>1, IdleProcess DEF KeptFor, OwnPath
      <4>2. CASE proc'[q] = at("mirror_api") /\ primary' = r.who
        <5>. DEFINE y == at("mirror_api")
        <5>1. y.who = r.who
          BY <1>a
        <5>. HIDE DEF y
        <5>. QED  BY <2>1, <4>2, <5>1 DEF KeptFor, y
      <4>. QED  BY <1>0, <2>1, <3>1, <4>1, <4>2
    <3>2. CASE q # p
      <4>1. proc'[q] = proc[q] /\ KeptFor(proc[q], api, primary)
        BY <1>0, <2>1, <3>2 DEF Kept
      <4>. QED  BY <2>1, <4>1 DEF KeptFor, OwnPath, MirrorPath
    <3>. QED  BY <3>1, <3>2
  <2>. QED  BY <2>1, <2>2 DEF Kept
<1>. QED  BY <1>1, <1>2, <1>3, <1>4, <1>5, <1>6 DEF SaveStep

LEMMA KeptStep == TypeInv /\ Kept /\ [Next]_vars => Kept'
<1>. SUFFICES ASSUME TypeInv, Kept, [Next]_vars, "forget" \notin happened' PROVE Kept'
  BY DEF Kept
<1>0. /\ proc \in [Processes -> Process] /\ Login \in Processes
      /\ Refreshers \subseteq Processes
  BY DEF TypeInv, TypeOK, Processes
<1>1. ASSUME UNCHANGED <<api, primary, proc>>, happened' = happened PROVE Kept'
  BY <1>1 DEF Kept
<1>2. CASE \/ \E n \in Nonces : StoreOauthState(n) \/ StateExpires(n)
           \/ UNCHANGED vars
  BY <1>1, <1>2 DEF StoreOauthState, StateExpires, vars
<1>3. ASSUME NEW p \in Processes, SaveStep(p) PROVE Kept'
  <2>1. happened' = happened
    BY <1>3 DEF SaveStep, WriteLegacyApi, WriteLegacyRef, FindPrimary, WriteOwnApi, WriteOwnRef,
                ClaimPrimary, MirrorApi, MirrorRef
  <2>. QED  BY <1>3, <2>1, KeptSave
<1>4. ASSUME NEW p \in Processes, NEW r, proc' = [proc EXCEPT ![p] = r],
             UNCHANGED <<api, primary>>, happened \subseteq happened',
             r.pc \notin OwnPath \/ (r.pc = "own_api" /\ r.who # Legacy)
      PROVE  Kept'
  BY <1>4, KeptMoves DEF KeptFor, MirrorPath
<1>5. ASSUME NEW p \in Processes, Crash(p) PROVE Kept'
  BY <1>4, <1>5, IdleProcess DEF Crash, Hazard, Return, OwnPath
<1>6. ASSUME NEW p \in Refreshers, NEW who \in Places, Refresh_Begin(p, who) PROVE Kept'
  <2>. DEFINE r == [Idle EXCEPT !.pc = "post", !.who = who, !.ref = ref[who]]
  <2>1. r.pc = "post" /\ proc' = [proc EXCEPT ![p] = r] /\ UNCHANGED <<api, primary>>
        /\ happened \subseteq happened'
    BY <1>6 DEF Refresh_Begin, Begin, Idle
  <2>. QED  BY <1>0, <1>4, <2>1 DEF OwnPath
<1>7. ASSUME NEW p \in Refreshers, NEW rotated \in BOOLEAN, Refresh_Granted(p, rotated) PROVE Kept'
  <2>. DEFINE old == proc[p].ref
              new == [user |-> old.user, n |-> issued[old.user] + 1]
              pc  == IF proc[p].who = Legacy THEN "legacy_api" ELSE "own_api"
              r   == [proc[p] EXCEPT !.pc = pc, !.api = new, !.ref = IF rotated THEN new ELSE old]
  <2>1. proc' = [proc EXCEPT ![p] = r] /\ UNCHANGED <<api, primary, happened>>
    BY <1>0, <1>7 DEF Refresh_Granted, Process
  <2>2. r.pc = "legacy_api" \/ (r.pc = "own_api" /\ r.who # Legacy)
    BY <1>0 DEF Process
  <2>. QED  BY <1>0, <1>4, <2>1, <2>2 DEF OwnPath
<1>8. ASSUME NEW p \in Processes, Refresh_Fails(p) \/ (p = Login /\ WhoAmI_Fails) PROVE Kept'
  <2>1. proc' = [proc EXCEPT ![p] = Idle] /\ UNCHANGED <<api, primary, happened>>
    BY <1>8 DEF Refresh_Fails, WhoAmI_Fails, Return
  <2>. QED  BY <1>4, <2>1, IdleProcess DEF OwnPath
<1>9. CASE WhoAmI
  <2>. DEFINE r == [proc[Login] EXCEPT !.pc = "own_api", !.who = proc[Login].api.user]
  <2>1. /\ r.pc = "own_api" /\ proc' = [proc EXCEPT ![Login] = r]
        /\ r.who = proc[Login].api.user /\ proc[Login].api \in Token
        /\ UNCHANGED <<api, primary, happened>>
    BY <1>0, <1>9 DEF WhoAmI, Process, TypeInv, Paths
  <2>. QED  BY <1>0, <1>4, <2>1 DEF Token
<1>10. ASSUME NEW n \in Nonces, NEW u \in Users, Callback(u, n) PROVE Kept'
  <2>. DEFINE new == [user |-> u, n |-> issued[u] + 1]
              r   == [Idle EXCEPT !.pc = "who_am_i", !.api = new, !.ref = new]
  <2>1. r.pc = "who_am_i" /\ proc' = [proc EXCEPT ![Login] = r] /\ UNCHANGED <<api, primary>>
        /\ happened \subseteq happened'
    BY <1>10 DEF Callback, Exchanged, Begin, Idle
  <2>. QED  BY <1>0, <1>4, <2>1 DEF OwnPath
<1>11. CASE (\E u \in Users : ForgetUser(u)) \/ ForgetPrimary
  BY <1>11 DEF ForgetUser, ForgetPrimary, Hazard, Kept
<1>. QED
  BY <1>0, <1>2, <1>3, <1>5, <1>6, <1>7, <1>8, <1>9, <1>10, <1>11 DEF Next

-----------------------------------------------------------------------------
(* The owners of the files, with deaths and overlaps on an install that     *)
(* began without legacy files, and with deletions on any install while one  *)
(* process at a time is at work.                                            *)
Sane   == happened \subseteq {"overlap", "crash"} \/ happened \subseteq {"installed", "forget"}
Single == happened \cap {"installed", "forget"} # {}

(* The legacy files are the primary's; those of a single-user install, or   *)
(* of a refresh that writes them after the primary was deleted, are         *)
(* nobody's until there is a primary.                                       *)
LegacyOf(u, first, single) == first = u \/ (single /\ first = Legacy)

(* A process files what it has under the user whose tokens they are: from   *)
(* the files of a user, by GET /v1/me, or as the legacy files' primary.     *)
ProcessOwn(r, first, single) ==
  /\ r.pc \in OwnPath =>
       /\ r.who \in Users /\ r.api.user = r.who /\ r.ref.user = r.who
       /\ r.pc \in MirrorPath => LegacyOf(r.who, first, single)
  /\ r.pc = "who_am_i" => r.ref.user = r.api.user
  /\ r.pc = "post" =>
       r.ref.user = r.who \/ (r.who = Legacy /\ LegacyOf(r.ref.user, first, single))
  /\ r.pc \in LegacyPath => r.api.user = r.ref.user /\ LegacyOf(r.ref.user, first, single)

ProcessesOwn == \A p \in Processes : ProcessOwn(proc[p], primary, Single)

OwnFiles == \A u \in Users : api[u].user \in {u, Legacy} /\ ref[u].user \in {u, Legacy}

LegacyFiles ==
  ref[Legacy] # NoToken =>
    \/ LegacyOf(ref[Legacy].user, primary, Single)
    \/ Single /\ \E p \in Processes : proc[p].pc \in MirrorPath

Alone ==
  "overlap" \notin happened =>
    \A p, q \in Processes : proc[p].pc # "idle" /\ proc[q].pc # "idle" => p = q

Owners   == OwnFiles /\ ProcessesOwn /\ LegacyFiles /\ Alone
OwnerInv == Sane => Owners

LEMMA OwnerInit == Init => OwnerInv
<1>. SUFFICES ASSUME Init, Sane PROVE Owners
  BY DEF OwnerInv
<1>1. PICK who \in Installs : InitInstalled(who)
  BY DEF Init
<1>2. \A p \in Processes : proc[p] = Idle
  BY DEF Init
<1>3. OwnFiles
  BY <1>1, IdleProcess DEF InitInstalled, OwnFiles, Places
<1>4. ProcessesOwn
  BY <1>2, IdleProcess DEF ProcessesOwn, ProcessOwn, OwnPath, LegacyPath
<1>5. LegacyFiles
  BY <1>1, IdleProcess DEF Init, InitInstalled, LegacyFiles, LegacyOf, Single, Places
<1>6. Alone
  BY <1>2, IdleProcess DEF Alone
<1>. QED  BY <1>3, <1>4, <1>5, <1>6 DEF Owners

(* Where the other processes stand is theirs, whatever one of them does.   *)
LEMMA OneOwner ==
  ASSUME TypeInv, ProcessesOwn, NEW p \in Processes, NEW r,
         proc' = [proc EXCEPT ![p] = r], primary' = primary, Single' = Single,
         ProcessOwn(r, primary', Single')
  PROVE  ProcessesOwn'
<1>1. ASSUME NEW q \in Processes PROVE ProcessOwn(proc'[q], primary', Single')
  <2>1. CASE q = p
    BY <2>1 DEF TypeInv, TypeOK
  <2>2. CASE q # p
    <3>1. proc'[q] = proc[q] /\ ProcessOwn(proc[q], primary, Single)
      BY <2>2 DEF TypeInv, TypeOK, ProcessesOwn
    <3>. QED  BY <3>1 DEF ProcessOwn
  <2>. QED  BY <2>1, <2>2
<1>. QED  BY <1>1 DEF ProcessesOwn

LEMMA IdleOwns ==
  \A first, single : ProcessOwn(Idle, first, single)
BY IdleProcess DEF ProcessOwn, OwnPath, LegacyPath

LEMMA StaysAlone ==
  ASSUME TypeInv, Alone, NEW p \in Processes, proc[p].pc # "idle", NEW r,
         proc' = [proc EXCEPT ![p] = r], happened' = happened
  PROVE  Alone'
BY DEF Alone, TypeInv, TypeOK

(* A process that was idle begins alone, or overlaps.                      *)
LEMMA BeginsAlone ==
  ASSUME TypeInv, NEW p \in Processes, Begin(p), NEW r, proc' = [proc EXCEPT ![p] = r], Sane'
  PROVE  /\ Alone' /\ Sane /\ Single' = Single
         /\ Single => \A q \in Processes : proc[q].pc = "idle"
<1>1. (happened' = happened /\ Quiet) \/ happened' = happened \cup {"overlap"}
  BY DEF Begin
<1>. QED  BY <1>1 DEF Alone, Sane, Single, Quiet, TypeInv, TypeOK

-----------------------------------------------------------------------------
LEMMA OwnerSave ==
  ASSUME TypeInv, Sane, Owners, NEW p \in Processes, SaveStep(p)
  PROVE  Owners'
<1>. DEFINE r == proc[p]
            at(pc) == [proc[p] EXCEPT !.pc = pc]
<1>0. /\ r \in Process /\ proc \in [Processes -> Process]
      /\ r.pc # "idle" => r.ref \in Token
      /\ r.pc \in LegacyPath \cup OwnPath => r.api \in Token
      /\ ProcessOwn(r, primary, Single)
      /\ api \in [Places -> Token \cup {NoToken}] /\ ref \in [Places -> Token \cup {NoToken}]
      /\ Legacy \in Places /\ Users \subseteq Places /\ primary \in Places
      /\ NoToken \notin Token
      /\ \A x \in Token : x.user \in Users
  BY IdleProcess DEF TypeInv, TypeOK, Paths, Owners, ProcessesOwn, Places, Token
<1>. DEFINE Moves(pc) == proc' = [proc EXCEPT ![p] = at(pc)]
<1>a. \A pc : at(pc).who = r.who /\ at(pc).api = r.api /\ at(pc).ref = r.ref /\ at(pc).pc = pc
  BY <1>0 DEF Process
<1>b. SUFFICES /\ OwnFiles' /\ LegacyFiles' /\ ProcessesOwn'
               /\ happened' = happened /\ r.pc # "idle"
               /\ \E x : proc' = [proc EXCEPT ![p] = x]
  BY StaysAlone DEF Owners
<1>1. CASE WriteLegacyApi(p)
  <2>1. /\ r.pc = "legacy_api" /\ api' = [api EXCEPT ![Legacy] = r.api]
        /\ Moves("legacy_ref") /\ UNCHANGED <<ref, primary, happened>>
    BY <1>1 DEF WriteLegacyApi, Goto
  <2>2. ProcessesOwn'
    <3>1. ProcessOwn(at("legacy_ref"), primary', Single')
      BY <1>0, <1>a, <2>1 DEF ProcessOwn, Single, OwnPath, LegacyPath, MirrorPath
    <3>2. \A u \in Users : api[u] # NoToken => api'[u] # NoToken
      BY <1>0, <2>1
    <3>. QED  BY <2>1, <3>1, <3>2, OneOwner DEF Owners, Single
  <2>3. OwnFiles'
    BY <1>0, <2>1 DEF Owners, OwnFiles
  <2>4. LegacyFiles'
    BY <1>0, <1>a, <2>1 DEF Owners, LegacyFiles, Single, MirrorPath
  <2>. QED  BY <2>1, <2>2, <2>3, <2>4
<1>2. CASE WriteLegacyRef(p)
  <2>1. /\ r.pc = "legacy_ref" /\ ref' = [ref EXCEPT ![Legacy] = r.ref]
        /\ Moves("find_primary") /\ UNCHANGED <<api, primary, happened>>
    BY <1>2 DEF WriteLegacyRef, Goto
  <2>2. ProcessesOwn'
    <3>1. ProcessOwn(at("find_primary"), primary', Single')
      BY <1>0, <1>a, <2>1 DEF ProcessOwn, Single, OwnPath, LegacyPath, MirrorPath
    <3>2. \A u \in Users : api[u] # NoToken => api'[u] # NoToken
      BY <1>0, <2>1
    <3>. QED  BY <2>1, <3>1, <3>2, OneOwner DEF Owners, Single
  <2>3. OwnFiles'
    BY <1>0, <2>1 DEF Owners, OwnFiles
  <2>4. LegacyFiles'
    BY <1>0, <1>a, <2>1 DEF Owners, LegacyFiles, Single, ProcessOwn, LegacyPath
  <2>. QED  BY <2>1, <2>2, <2>3, <2>4
<1>3. CASE FindPrimary(p)
  <2>1. /\ r.pc = "find_primary" /\ UNCHANGED <<api, ref, primary, happened>>
    BY <1>3 DEF FindPrimary
  <2>2. OwnFiles'
    BY <2>1 DEF Owners, OwnFiles
  <2>3. CASE primary = Legacy
    <3>1. proc' = [proc EXCEPT ![p] = Idle]
      BY <1>3, <2>3 DEF FindPrimary, Return
    <3>2. ProcessesOwn'
      BY <1>0, <2>1, <3>1, IdleOwns, OneOwner DEF Owners, Single
    <3>3. LegacyFiles'
      BY <1>0, <2>1, <3>1 DEF Owners, LegacyFiles, Single, MirrorPath
    <3>. QED  BY <2>1, <2>2, <3>1, <3>2, <3>3
  <2>4. CASE primary # Legacy
    <3>. DEFINE x == [proc[p] EXCEPT !.pc = "own_api", !.who = primary]
    <3>1. proc' = [proc EXCEPT ![p] = x] /\ primary \in Users
      BY <1>0, <1>3, <2>4 DEF FindPrimary, Places
    <3>2. x.pc = "own_api" /\ x.who = primary /\ x.api = r.api /\ x.ref = r.ref
      BY <1>0 DEF Process
    <3>3. ProcessOwn(x, primary', Single')
      BY <1>0, <2>1, <2>4, <3>1, <3>2 DEF ProcessOwn, LegacyOf, OwnPath, LegacyPath, MirrorPath
    <3>4. ProcessesOwn'
      BY <2>1, <3>1, <3>3, OneOwner DEF Owners, Single
    <3>5. LegacyFiles'
      BY <1>0, <2>1, <3>1 DEF Owners, LegacyFiles, Single, MirrorPath
    <3>. QED  BY <2>1, <2>2, <3>1, <3>4, <3>5
  <2>. QED  BY <2>3, <2>4
<1>4. CASE WriteOwnApi(p)
  <2>1. /\ r.pc = "own_api" /\ api' = [api EXCEPT ![r.who] = r.api]
        /\ Moves("own_ref") /\ UNCHANGED <<ref, primary, happened>>
    BY <1>4 DEF WriteOwnApi, Goto
  <2>2. r.who \in Users /\ r.api.user = r.who /\ r.api # NoToken
    BY <1>0, <2>1 DEF ProcessOwn, OwnPath
  <2>3. ProcessesOwn'
    <3>1. ProcessOwn(at("own_ref"), primary', Single')
      BY <1>0, <1>a, <2>1, <2>2 DEF ProcessOwn, Single, OwnPath, LegacyPath, MirrorPath
    <3>2. \A u \in Users : api[u] # NoToken => api'[u] # NoToken
      BY <1>0, <2>1, <2>2
    <3>. QED  BY <2>1, <3>1, <3>2, OneOwner DEF Owners, Single
  <2>4. OwnFiles'
    BY <1>0, <2>1, <2>2 DEF Owners, OwnFiles
  <2>5. LegacyFiles'
    BY <1>0, <1>a, <2>1, <2>2 DEF Owners, LegacyFiles, Single, MirrorPath
  <2>. QED  BY <2>1, <2>3, <2>4, <2>5
<1>5. CASE WriteOwnRef(p)
  <2>1. /\ r.pc = "own_ref" /\ UNCHANGED <<api, primary, happened>>
        /\ \/ proc' = [proc EXCEPT ![p] = Idle] /\ UNCHANGED ref
           \/ Moves("claim") /\ ref' = [ref EXCEPT ![r.who] = r.ref]
    BY <1>5 DEF WriteOwnRef, Goto, Return
  <2>2. r.who \in Users /\ r.ref.user = r.who /\ r.api.user = r.who
    BY <1>0, <2>1 DEF ProcessOwn, OwnPath
  <2>3. ProcessesOwn'
    <3>1. ProcessOwn(at("claim"), primary', Single')
      BY <1>a, <2>1, <2>2 DEF ProcessOwn, OwnPath, LegacyPath, MirrorPath
    <3>. QED  BY <2>1, <3>1, IdleOwns, OneOwner DEF Owners, Single
  <2>4. OwnFiles'
    BY <1>0, <2>1, <2>2 DEF Owners, OwnFiles
  <2>5. LegacyFiles'
    BY <1>0, <1>a, <2>1, <2>2 DEF Owners, LegacyFiles, Single, MirrorPath
  <2>. QED  BY <2>1, <2>3, <2>4, <2>5
<1>6. CASE ClaimPrimary(p)
  <2>1. /\ r.pc = "claim" /\ UNCHANGED <<api, ref, happened>>
        /\ primary' = IF p = Login /\ primary = Legacy THEN r.who ELSE primary
        /\ \/ proc' = [proc EXCEPT ![p] = Idle] /\ primary' # r.who
           \/ Moves("mirror_api") /\ primary' = r.who
    BY <1>6 DEF ClaimPrimary, Goto, Return
  <2>2. r.who \in Users /\ r.ref.user = r.who /\ r.api.user = r.who
    BY <1>0, <2>1 DEF ProcessOwn, OwnPath
  <2>3. OwnFiles'
    BY <2>1 DEF Owners, OwnFiles
  <2>4. CASE primary' = primary
    <3>1. ProcessesOwn'
      <4>1. ProcessOwn(at("mirror_api"), primary', Single') \/ proc' = [proc EXCEPT ![p] = Idle]
        BY <1>a, <2>1, <2>2 DEF ProcessOwn, LegacyOf, OwnPath, LegacyPath, MirrorPath
      <4>. QED  BY <2>1, <2>4, <4>1, IdleOwns, OneOwner DEF Owners, Single
    <3>2. LegacyFiles'
      BY <1>0, <1>a, <2>1, <2>2, <2>4 DEF Owners, LegacyFiles, Single, MirrorPath
    <3>. QED  BY <2>1, <2>3, <3>1, <3>2
  <2>5. CASE primary' # primary
    <3>1. primary = Legacy /\ primary' = r.who /\ Moves("mirror_api")
      BY <2>1, <2>5
    <3>2. ASSUME NEW q \in Processes, q # p
          PROVE  ProcessOwn(proc[q], primary', Single)
      <4>1. CASE Single
        <5>1. "overlap" \notin happened
          BY <4>1 DEF Sane, Single
        <5>2. proc[q].pc = "idle"
          BY <2>1, <3>2, <5>1 DEF Owners, Alone
        <5>. QED  BY <5>2 DEF ProcessOwn, OwnPath, LegacyPath
      <4>2. CASE ~Single
        <5>1. ProcessOwn(proc[q], primary, Single) /\ (proc[q].pc # "idle" => proc[q].ref \in Token)
          BY DEF Owners, ProcessesOwn, TypeInv, TypeOK
        <5>. QED
          BY <1>0, <3>1, <4>2, <5>1 DEF ProcessOwn, LegacyOf, OwnPath, LegacyPath, MirrorPath
      <4>. QED  BY <4>1, <4>2
    <3>3. ProcessOwn(at("mirror_api"), primary', Single)
      BY <1>a, <2>2, <3>1 DEF ProcessOwn, LegacyOf, OwnPath, LegacyPath, MirrorPath
    <3>4. ProcessesOwn'
      BY <1>0, <2>1, <3>1, <3>2, <3>3 DEF ProcessesOwn, Single
    <3>5. LegacyFiles'
      BY <1>0, <1>a, <2>1, <2>2, <3>1 DEF Owners, LegacyFiles, LegacyOf, Single, MirrorPath
    <3>. QED  BY <2>1, <2>3, <3>1, <3>4, <3>5
  <2>. QED  BY <2>4, <2>5
<1>7. CASE MirrorApi(p)
  <2>1. /\ r.pc = "mirror_api" /\ api' = [api EXCEPT ![Legacy] = r.api]
        /\ Moves("mirror_ref") /\ UNCHANGED <<ref, primary, happened>>
    BY <1>7 DEF MirrorApi, Goto
  <2>2. ProcessesOwn'
    <3>1. ProcessOwn(at("mirror_ref"), primary', Single')
      BY <1>0, <1>a, <2>1 DEF ProcessOwn, Single, OwnPath, LegacyPath, MirrorPath
    <3>2. \A u \in Users : api[u] # NoToken => api'[u] # NoToken
      BY <1>0, <2>1
    <3>. QED  BY <2>1, <3>1, <3>2, OneOwner DEF Owners, Single
  <2>3. OwnFiles'
    BY <1>0, <2>1 DEF Owners, OwnFiles
  <2>4. LegacyFiles'
    BY <1>0, <1>a, <2>1 DEF Owners, LegacyFiles, Single, MirrorPath
  <2>. QED  BY <2>1, <2>2, <2>3, <2>4
<1>8. CASE MirrorRef(p)
  <2>1. /\ r.pc = "mirror_ref" /\ ref' = [ref EXCEPT ![Legacy] = r.ref]
        /\ proc' = [proc EXCEPT ![p] = Idle] /\ UNCHANGED <<api, primary, happened>>
    BY <1>8 DEF MirrorRef, Return
  <2>2. ProcessesOwn'
    BY <2>1, IdleOwns, OneOwner DEF Owners, Single
  <2>3. OwnFiles'
    BY <1>0, <2>1 DEF Owners, OwnFiles
  <2>4. LegacyFiles'
    BY <1>0, <2>1 DEF Owners, LegacyFiles, LegacyOf, Single, ProcessOwn, OwnPath, MirrorPath
  <2>. QED  BY <2>1, <2>2, <2>3, <2>4
<1>. QED
  BY <1>1, <1>2, <1>3, <1>4, <1>5, <1>6, <1>7, <1>8 DEF SaveStep

(* A refresh takes the token of an identity, and what Spotify answers is of *)
(* the same user.                                                           *)
LEMMA OwnerRefresh ==
  ASSUME TypeInv, OwnerInv, Sane', NEW p \in Refreshers,
         \/ \E who \in Places : Refresh_Begin(p, who)
         \/ \E rotated \in BOOLEAN : Refresh_Granted(p, rotated)
         \/ Refresh_Fails(p)
  PROVE  Owners'
<1>0. /\ p \in Processes /\ proc \in [Processes -> Process]
      /\ ref \in [Places -> Token \cup {NoToken}]
  BY DEF Processes, TypeInv, TypeOK
<1>1. ASSUME NEW who \in Places, Refresh_Begin(p, who) PROVE Owners'
  <2>. DEFINE r == [Idle EXCEPT !.pc = "post", !.who = who, !.ref = ref[who]]
  <2>1. /\ Begin(p) /\ proc' = [proc EXCEPT ![p] = r] /\ ref[who] # NoToken
        /\ UNCHANGED <<api, ref, primary>>
    BY <1>1 DEF Refresh_Begin
  <2>2. Alone' /\ Sane /\ Single' = Single /\ (Single => \A q \in Processes : proc[q].pc = "idle")
    BY <1>0, <2>1, BeginsAlone
  <2>3. Owners
    BY <2>2 DEF OwnerInv
  <2>4. r.pc = "post" /\ r.who = who /\ r.ref = ref[who]
    BY DEF Idle
  <2>5. ref[who].user \in Users /\ (who # Legacy => ref[who].user = who)
    BY <1>0, <2>1, <2>3 DEF Owners, OwnFiles, Places, Token
  <2>6. who = Legacy => LegacyOf(ref[who].user, primary, Single)
    BY <2>1, <2>2, <2>3 DEF Owners, LegacyFiles, MirrorPath
  <2>7. ProcessOwn(r, primary', Single')
    BY <2>1, <2>2, <2>4, <2>5, <2>6 DEF ProcessOwn, OwnPath, LegacyPath
  <2>8. ProcessesOwn'
    BY <1>0, <2>1, <2>2, <2>3, <2>7, OneOwner DEF Owners
  <2>9. OwnFiles' /\ LegacyFiles'
    BY <1>0, <2>1, <2>2, <2>3 DEF Owners, OwnFiles, LegacyFiles, Begin, MirrorPath
  <2>. QED  BY <2>2, <2>8, <2>9 DEF Owners
<1>2. ASSUME NEW rotated \in BOOLEAN, Refresh_Granted(p, rotated) PROVE Owners'
  <2>. DEFINE old == proc[p].ref
              new == [user |-> old.user, n |-> issued[old.user] + 1]
              pc  == IF proc[p].who = Legacy THEN "legacy_api" ELSE "own_api"
              r   == [proc[p] EXCEPT !.pc = pc, !.api = new, !.ref = IF rotated THEN new ELSE old]
  <2>1. /\ proc[p].pc = "post" /\ UNCHANGED <<api, ref, primary, happened>>
    BY <1>2 DEF Refresh_Granted
  <2>2. proc' = [proc EXCEPT ![p] = r]
    BY <1>0, <1>2 DEF Refresh_Granted, Process
  <2>3. Owners
    BY <2>1 DEF OwnerInv, Sane
  <2>4. /\ r.pc = pc /\ r.who = proc[p].who /\ r.api.user = old.user /\ r.ref.user = old.user
    BY <1>0 DEF Process
  <2>5. proc[p].who \in Places /\ ProcessOwn(proc[p], primary, Single)
    BY <1>0, <2>3 DEF Process, Owners, ProcessesOwn
  <2>6. ProcessOwn(r, primary', Single')
    <3>1. CASE proc[p].who = Legacy
      <4>1. old.user \in Users
        BY <1>0, <2>1 DEF TypeInv, TypeOK, Token
      <4>2. LegacyOf(old.user, primary, Single)
        BY <2>1, <2>5, <3>1, <4>1 DEF ProcessOwn
      <4>. QED
        BY <2>1, <2>4, <3>1, <4>2 DEF ProcessOwn, Single, OwnPath, LegacyPath
    <3>2. CASE proc[p].who # Legacy
      BY <2>1, <2>4, <2>5, <3>2 DEF ProcessOwn, Places, OwnPath, LegacyPath, MirrorPath
    <3>. QED  BY <3>1, <3>2
  <2>7. ProcessesOwn'
    BY <1>0, <2>1, <2>2, <2>3, <2>6, OneOwner DEF Owners, Single
  <2>8. Alone'
    BY <1>0, <2>1, <2>2, <2>3, StaysAlone DEF Owners
  <2>9. OwnFiles' /\ LegacyFiles'
    BY <1>0, <2>1, <2>2, <2>3 DEF Owners, OwnFiles, LegacyFiles, Single, MirrorPath
  <2>. QED  BY <2>7, <2>8, <2>9 DEF Owners
<1>3. CASE Refresh_Fails(p)
  <2>1. /\ proc[p].pc = "post" /\ proc' = [proc EXCEPT ![p] = Idle]
        /\ UNCHANGED <<api, ref, primary, happened>>
    BY <1>3 DEF Refresh_Fails, Return
  <2>2. Owners
    BY <2>1 DEF OwnerInv, Sane
  <2>3. ProcessesOwn' /\ Alone'
    BY <1>0, <2>1, <2>2, IdleOwns, OneOwner, StaysAlone DEF Owners, Single
  <2>4. OwnFiles' /\ LegacyFiles'
    BY <1>0, <2>1, <2>2 DEF Owners, OwnFiles, LegacyFiles, Single, MirrorPath
  <2>. QED  BY <2>3, <2>4 DEF Owners
<1>. QED  BY <1>1, <1>2, <1>3

(* A login files under the user that GET /v1/me names.                     *)
LEMMA OwnerLogin ==
  ASSUME TypeInv, OwnerInv, Sane',
         \/ \E n \in Nonces : StoreOauthState(n) \/ StateExpires(n) \/ \E u \in Users : Callback(u, n)
         \/ WhoAmI \/ WhoAmI_Fails
  PROVE  Owners'
<1>0. Login \in Processes /\ proc \in [Processes -> Process]
  BY DEF Processes, TypeInv, TypeOK
<1>1. ASSUME NEW n \in Nonces, StoreOauthState(n) \/ StateExpires(n) PROVE Owners'
  BY <1>1 DEF StoreOauthState, StateExpires, OwnerInv, Sane, Owners, OwnFiles,
              ProcessesOwn, LegacyFiles, Alone, Single
<1>2. ASSUME NEW n \in Nonces, NEW u \in Users, Callback(u, n) PROVE Owners'
  <2>. DEFINE new == [user |-> u, n |-> issued[u] + 1]
              r   == [Idle EXCEPT !.pc = "who_am_i", !.api = new, !.ref = new]
  <2>1. /\ Begin(Login) /\ proc' = [proc EXCEPT ![Login] = r] /\ UNCHANGED <<api, ref, primary>>
    BY <1>2 DEF Callback, Exchanged
  <2>2. Alone' /\ Sane /\ Single' = Single
    BY <1>0, <2>1, BeginsAlone
  <2>3. Owners
    BY <2>2 DEF OwnerInv
  <2>4. r.pc = "who_am_i" /\ r.api = new /\ r.ref = new
    BY DEF Idle
  <2>5. ProcessOwn(r, primary', Single')
    BY <2>4 DEF ProcessOwn, OwnPath, LegacyPath
  <2>6. ProcessesOwn'
    BY <1>0, <2>1, <2>2, <2>3, <2>5, OneOwner DEF Owners
  <2>7. OwnFiles' /\ LegacyFiles'
    BY <1>0, <2>1, <2>2, <2>3 DEF Owners, OwnFiles, LegacyFiles, Begin, MirrorPath
  <2>. QED  BY <2>2, <2>6, <2>7 DEF Owners
<1>3. CASE WhoAmI
  <2>. DEFINE r == [proc[Login] EXCEPT !.pc = "own_api", !.who = proc[Login].api.user]
  <2>1. /\ proc[Login].pc = "who_am_i" /\ proc' = [proc EXCEPT ![Login] = r]
        /\ UNCHANGED <<api, ref, primary, happened>>
    BY <1>0, <1>3 DEF WhoAmI
  <2>2. Owners
    BY <2>1 DEF OwnerInv, Sane
  <2>3. proc[Login].api.user \in Users /\ ProcessOwn(proc[Login], primary, Single)
    BY <1>0, <2>1, <2>2 DEF TypeInv, Paths, Token, Owners, ProcessesOwn
  <2>4. /\ r.pc = "own_api" /\ r.who = proc[Login].api.user
        /\ r.api = proc[Login].api /\ r.ref = proc[Login].ref
    BY <1>0 DEF Process
  <2>5. ProcessOwn(r, primary', Single')
    BY <2>1, <2>3, <2>4 DEF ProcessOwn, OwnPath, LegacyPath, MirrorPath
  <2>6. ProcessesOwn' /\ Alone'
    BY <1>0, <2>1, <2>2, <2>5, OneOwner, StaysAlone DEF Owners, Single
  <2>7. OwnFiles' /\ LegacyFiles'
    BY <1>0, <2>1, <2>2 DEF Owners, OwnFiles, LegacyFiles, Single, MirrorPath
  <2>. QED  BY <2>6, <2>7 DEF Owners
<1>4. CASE WhoAmI_Fails
  <2>1. /\ proc[Login].pc = "who_am_i" /\ proc' = [proc EXCEPT ![Login] = Idle]
        /\ UNCHANGED <<api, ref, primary, happened>>
    BY <1>4 DEF WhoAmI_Fails, Return
  <2>2. Owners
    BY <2>1 DEF OwnerInv, Sane
  <2>3. ProcessesOwn' /\ Alone'
    BY <1>0, <2>1, <2>2, IdleOwns, OneOwner, StaysAlone DEF Owners, Single
  <2>4. OwnFiles' /\ LegacyFiles'
    BY <1>0, <2>1, <2>2 DEF Owners, OwnFiles, LegacyFiles, Single, MirrorPath
  <2>. QED  BY <2>3, <2>4 DEF Owners
<1>. QED  BY <1>1, <1>2, <1>3, <1>4

LEMMA OwnerStep == TypeInv /\ Kept /\ OwnerInv /\ [Next]_vars => OwnerInv'
<1>. SUFFICES ASSUME TypeInv, Kept, OwnerInv, [Next]_vars, Sane' PROVE Owners'
  BY DEF OwnerInv
<1>1. CASE UNCHANGED vars
  BY <1>1 DEF vars, OwnerInv, Sane, Owners, OwnFiles, ProcessesOwn, LegacyFiles,
              Alone, Single
<1>2. ASSUME NEW p \in Processes, SaveStep(p) PROVE Owners'
  <2>1. happened' = happened
    BY <1>2 DEF SaveStep, WriteLegacyApi, WriteLegacyRef, FindPrimary, WriteOwnApi, WriteOwnRef,
                ClaimPrimary, MirrorApi, MirrorRef
  <2>2. Sane
    BY <2>1 DEF Sane
  <2>. QED  BY <1>2, <2>2, OwnerSave DEF OwnerInv
<1>3. ASSUME NEW p \in Processes, Crash(p) PROVE Owners'
  <2>1. /\ proc' = [proc EXCEPT ![p] = Idle] /\ UNCHANGED <<api, ref, primary>>
        /\ happened' = happened \cup {"crash"}
    BY <1>3 DEF Crash, Hazard, Return
  <2>2. Owners /\ ~Single /\ ~Single'
    BY <2>1 DEF OwnerInv, Sane, Single
  <2>3. ProcessesOwn'
    <3>1. Single' = Single
      BY <2>1 DEF Single
    <3>. QED  BY <2>1, <2>2, <3>1, IdleOwns, OneOwner DEF Owners
  <2>4. Alone'
    BY <2>1, <2>2, IdleProcess DEF Owners, Alone, TypeInv, TypeOK
  <2>5. OwnFiles' /\ LegacyFiles'
    BY <2>1, <2>2 DEF Owners, OwnFiles, LegacyFiles, LegacyOf
  <2>. QED  BY <2>3, <2>4, <2>5 DEF Owners
<1>4. ASSUME NEW u \in Users, ForgetUser(u) PROVE Owners'
  <2>1. /\ api' = [api EXCEPT ![u] = NoToken] /\ ref' = [ref EXCEPT ![u] = NoToken]
        /\ UNCHANGED <<primary, proc>> /\ happened' = happened \cup {"forget"}
    BY <1>4 DEF ForgetUser, Hazard
  <2>2. Owners /\ Single'
    BY <2>1 DEF OwnerInv, Sane, Single
  <2>3. OwnFiles'
    BY <2>1, <2>2, IdleProcess DEF Owners, OwnFiles, TypeInv, TypeOK, Places
  <2>4. ref'[Legacy] = ref[Legacy]
    BY <2>1 DEF TypeInv, TypeOK, Places
  <2>5. ProcessesOwn' /\ LegacyFiles'
    BY <2>1, <2>2, <2>4 DEF Owners, ProcessesOwn, ProcessOwn, LegacyFiles, LegacyOf
  <2>. QED  BY <2>1, <2>2, <2>3, <2>5 DEF Owners, Alone
<1>5. CASE ForgetPrimary
  <2>1. /\ primary' = Legacy /\ api' = [api EXCEPT ![Legacy] = NoToken]
        /\ ref' = [ref EXCEPT ![Legacy] = NoToken] /\ UNCHANGED <<proc, happened>>
        /\ "forget" \in happened
    BY <1>5 DEF ForgetPrimary, Kept
  <2>2. Owners /\ Single
    BY <2>1 DEF OwnerInv, Sane, Single
  <2>3. OwnFiles'
    BY <2>1, <2>2 DEF Owners, OwnFiles, TypeInv, TypeOK, Places
  <2>4. ref'[Legacy] = NoToken
    BY <2>1 DEF TypeInv, TypeOK, Places
  <2>5. ProcessesOwn' /\ LegacyFiles'
    BY <2>1, <2>2, <2>4 DEF Owners, ProcessesOwn, ProcessOwn, LegacyFiles, LegacyOf, Single
  <2>. QED  BY <2>1, <2>2, <2>3, <2>5 DEF Owners, Alone
<1>. QED
  BY <1>1, <1>2, <1>3, <1>4, <1>5, OwnerRefresh, OwnerLogin DEF Next

(* The files of a user never hold another user's tokens: on an install that *)
(* began without legacy files, however logins and refreshes interleave and  *)
(* wherever they die; on any install, whomever is deleted and whenever, as  *)
(* long as one process at a time is at work.  Beyond these two the code has *)
(* windows in which they do (FiledUnderOwner names them).                   *)
THEOREM FilesUnderOwner == Spec => []FiledUnderOwner
<1>1. OwnerInv => FiledUnderOwner
  BY DEF OwnerInv, Sane, Owners, OwnFiles, FiledUnderOwner
<1>2. QED
  BY TypeInit, TypeStep, KeptInit, KeptStep, OwnerInit, OwnerStep, <1>1, PTL DEF Spec

-----------------------------------------------------------------------------
(* What Spotify still accepts, while one process at a time is at work.      *)

(* The places a process has still to write: they may hold the token that    *)
(* its refresh has replaced.                                                *)
Pending(r, first) ==
  (IF r.pc \in {"legacy_api", "legacy_ref"} THEN {Legacy, first} ELSE {})
    \cup (IF r.pc = "find_primary" THEN {first} \ {Legacy} ELSE {})
    \cup (IF r.pc \in {"own_api", "own_ref"} THEN {r.who} ELSE {})
    \cup (IF r.pc \in OwnPath /\ r.who = first THEN {Legacy} ELSE {})

Accepted(r) ==
  \A x \in Places \ Pending(r, primary) : ref[x] # NoToken => ref[x] \in valid

(* A refresh works with the token of its file, and then with one that       *)
(* Spotify accepts; it has written this one where it says.                  *)
InHand(r) ==
  /\ r.pc = "post" => r.ref = ref[r.who]
  /\ r.pc \notin {"idle", "post"} => r.ref \in valid
  /\ r.pc = "find_primary" => ref[Legacy] = r.ref
  /\ r.pc \in {"claim"} \cup MirrorPath => ref[r.who] = r.ref

(* Without a primary no user has files: the first login to write them is    *)
(* about to claim the slot.                                                 *)
NobodyYet(p, r) ==
  primary = Legacy =>
    /\ \A u \in Users : ref[u] = NoToken \/ (r.pc = "claim" /\ u = r.who)
    /\ r.pc \in OwnPath => p = Login

(* The primary's own file and the legacy one hold the same token, except    *)
(* while a process writes both.                                             *)
Mirrored(r) ==
  \/ primary = Legacy
  \/ ref[Legacy] = ref[primary]
  \/ r.pc \in LegacyPath
  \/ r.pc \in OwnPath /\ r.who = primary

Good(p, r) == Accepted(r) /\ InHand(r) /\ NobodyYet(p, r) /\ Mirrored(r)

OneAtWork(p) == \A q \in Processes : q # p => proc[q].pc = "idle"

UsableInv == Undisturbed => \E p \in Processes : OneAtWork(p) /\ Good(p, proc[p])

LEMMA IdleGood ==
  ASSUME NEW p, NEW q, NEW r, NEW s, r.pc = "idle", s.pc = "idle", Good(p, r)
  PROVE  Good(q, s)
<1>1. Pending(r, primary) = {} /\ Pending(s, primary) = {}
  BY DEF Pending, OwnPath
<1>. QED
  BY <1>1 DEF Good, Accepted, InHand, NobodyYet, Mirrored, LegacyPath, OwnPath, MirrorPath

LEMMA UsableInit == Init => UsableInv
<1>. SUFFICES ASSUME Init PROVE OneAtWork(Login) /\ Good(Login, proc[Login])
  BY DEF UsableInv, Processes
<1>1. PICK who \in Installs : InitInstalled(who)
  BY DEF Init
<1>2. (\A p \in Processes : proc[p] = Idle) /\ Login \in Processes /\ Idle.pc = "idle"
  BY IdleProcess DEF Init, Processes
<1>3. primary = Legacy /\ ref = [x \in Places |-> IF x = Legacy /\ who \in Users
                                                  THEN [user |-> who, n |-> 1] ELSE NoToken]
  BY <1>1 DEF Init, InitInstalled
<1>4. Accepted(Idle)
  BY <1>1, <1>3 DEF InitInstalled, Accepted
<1>5. NobodyYet(Login, Idle) /\ InHand(Idle) /\ Mirrored(Idle)
  BY <1>2, <1>3 DEF NobodyYet, InHand, Mirrored, Places, OwnPath, MirrorPath
<1>. QED  BY <1>2, <1>4, <1>5 DEF OneAtWork, Good

(* A write ends what was pending at its place.                              *)
LEMMA UsableSave ==
  ASSUME TypeInv, Kept, "forget" \notin happened, Owners, NEW p \in Processes,
         Good(p, proc[p]), SaveStep(p)
  PROVE  Good(p, proc[p])'
<1>. DEFINE r == proc[p]
            s == proc'[p]
            to(pc) == /\ s.pc = pc /\ s.who = r.who /\ s.ref = r.ref
<1>0. /\ r \in Process /\ proc \in [Processes -> Process] /\ ProcessOwn(r, primary, Single)
      /\ ref \in [Places -> Token \cup {NoToken}] /\ primary \in Places
      /\ Legacy \in Places /\ Users \subseteq Places /\ Legacy \notin Users
      /\ Places \subseteq Users \cup {Legacy}
  BY DEF TypeInv, TypeOK, Owners, ProcessesOwn, Places
<1>a. /\ \A pc : Goto(p, pc) => to(pc)
      /\ Return(p) => s.pc = "idle"
  BY <1>0, IdleProcess DEF Goto, Return, Process
<1>b. valid' = valid
  BY DEF SaveStep, WriteLegacyApi, WriteLegacyRef, FindPrimary, WriteOwnApi, WriteOwnRef,
         ClaimPrimary, MirrorApi, MirrorRef
<1>c. Accepted(r) /\ InHand(r) /\ NobodyYet(p, r) /\ Mirrored(r)
  BY DEF Good
<1>d. SUFFICES Accepted(r)' /\ InHand(r)' /\ NobodyYet(p, r)' /\ Mirrored(r)'
  BY DEF Good
<1>1. CASE WriteLegacyApi(p)
  <2>1. r.pc = "legacy_api" /\ to("legacy_ref") /\ UNCHANGED <<ref, primary>>
    BY <1>1, <1>a DEF WriteLegacyApi
  <2>. QED
    BY <1>b, <1>c, <2>1 DEF Accepted, Pending, InHand, NobodyYet, Mirrored, LegacyPath, OwnPath, MirrorPath
<1>2. CASE WriteLegacyRef(p)
  <2>1. /\ r.pc = "legacy_ref" /\ to("find_primary") /\ primary' = primary
        /\ ref' = [ref EXCEPT ![Legacy] = r.ref] /\ r.ref \in valid
    BY <1>2, <1>a, <1>c DEF WriteLegacyRef, InHand
  <2>2. Accepted(r)'
    BY <1>0, <1>b, <1>c, <2>1 DEF Accepted, Pending, OwnPath
  <2>3. InHand(r)' /\ NobodyYet(p, r)' /\ Mirrored(r)'
    BY <1>0, <1>b, <1>c, <2>1 DEF InHand, NobodyYet, Mirrored, LegacyPath, OwnPath, MirrorPath
  <2>. QED  BY <2>2, <2>3
<1>3. CASE FindPrimary(p)
  <2>1. /\ r.pc = "find_primary" /\ UNCHANGED <<ref, primary>> /\ r.ref \in valid /\ ref[Legacy] = r.ref
    BY <1>3, <1>c DEF FindPrimary, InHand
  <2>2. CASE primary = Legacy
    <3>1. s.pc = "idle"
      BY <1>3, <1>a, <2>2 DEF FindPrimary
    <3>. QED
      BY <1>b, <1>c, <2>1, <2>2, <3>1 DEF Accepted, Pending, InHand, NobodyYet, Mirrored, LegacyPath, OwnPath, MirrorPath
  <2>3. CASE primary # Legacy
    <3>1. s.pc = "own_api" /\ s.who = primary /\ s.ref = r.ref
      BY <1>0, <1>3, <2>3 DEF FindPrimary, Process
    <3>. QED
      BY <1>b, <1>c, <2>1, <2>3, <3>1 DEF Accepted, Pending, InHand, NobodyYet, Mirrored, LegacyPath, OwnPath, MirrorPath
  <2>. QED  BY <2>2, <2>3
<1>4. CASE WriteOwnApi(p)
  <2>1. r.pc = "own_api" /\ to("own_ref") /\ UNCHANGED <<ref, primary>>
    BY <1>4, <1>a DEF WriteOwnApi
  <2>. QED
    BY <1>b, <1>c, <2>1 DEF Accepted, Pending, InHand, NobodyYet, Mirrored, LegacyPath, OwnPath, MirrorPath
<1>5. CASE WriteOwnRef(p)
  <2>1. /\ r.pc = "own_ref" /\ primary' = primary /\ r.ref \in valid
        /\ r.who \in Users /\ api[r.who] # NoToken
    BY <1>0, <1>5, <1>c DEF WriteOwnRef, InHand, ProcessOwn, Kept, KeptFor, OwnPath
  <2>2. to("claim") /\ ref' = [ref EXCEPT ![r.who] = r.ref]
    BY <1>5, <1>a, <2>1 DEF WriteOwnRef
  <2>3. Accepted(r)'
    BY <1>0, <1>b, <1>c, <2>1, <2>2 DEF Accepted, Pending, OwnPath
  <2>4. InHand(r)' /\ NobodyYet(p, r)' /\ Mirrored(r)'
    BY <1>0, <1>b, <1>c, <2>1, <2>2 DEF InHand, NobodyYet, Mirrored, LegacyPath, OwnPath, MirrorPath
  <2>. QED  BY <2>3, <2>4
<1>6. CASE ClaimPrimary(p)
  <2>1. /\ r.pc = "claim" /\ ref' = ref /\ r.who \in Users
        /\ r.ref \in valid /\ ref[r.who] = r.ref
        /\ primary' = IF p = Login /\ primary = Legacy THEN r.who ELSE primary
    BY <1>0, <1>6, <1>c DEF ClaimPrimary, InHand, ProcessOwn, OwnPath
  <2>2. primary = Legacy => p = Login
    BY <1>c, <2>1 DEF NobodyYet, OwnPath
  <2>3. primary' # Legacy
    BY <1>0, <2>1, <2>2
  <2>4. CASE primary' = r.who
    <3>1. to("mirror_api")
      BY <1>6, <1>a, <2>4 DEF ClaimPrimary
    <3>2. \A x \in Places : x # Legacy => x \notin Pending(r, primary)
      BY <2>1 DEF Pending, OwnPath
    <3>3. Accepted(r)'
      BY <1>b, <1>c, <2>1, <2>4, <3>1, <3>2 DEF Accepted, Pending, OwnPath
    <3>. QED
      BY <1>b, <2>1, <2>3, <2>4, <3>1, <3>3 DEF InHand, NobodyYet, Mirrored, LegacyPath, OwnPath, MirrorPath
  <2>5. CASE primary' # r.who
    <3>1. s.pc = "idle" /\ primary' = primary
      BY <1>6, <1>a, <2>1, <2>5 DEF ClaimPrimary
    <3>. QED
      BY <1>b, <1>c, <2>1, <2>3, <2>5, <3>1 DEF Accepted, Pending, InHand, NobodyYet, Mirrored, LegacyPath, OwnPath, MirrorPath
  <2>. QED  BY <2>4, <2>5
<1>7. CASE MirrorApi(p)
  <2>1. r.pc = "mirror_api" /\ to("mirror_ref") /\ UNCHANGED <<ref, primary>>
    BY <1>7, <1>a DEF MirrorApi
  <2>. QED
    BY <1>b, <1>c, <2>1 DEF Accepted, Pending, InHand, NobodyYet, Mirrored, LegacyPath, OwnPath, MirrorPath
<1>8. CASE MirrorRef(p)
  <2>1. /\ r.pc = "mirror_ref" /\ s.pc = "idle" /\ primary' = primary
        /\ ref' = [ref EXCEPT ![Legacy] = r.ref] /\ r.ref \in valid /\ ref[r.who] = r.ref
        /\ r.who \in Users /\ primary = r.who
    BY <1>0, <1>8, <1>a, <1>c DEF MirrorRef, InHand, ProcessOwn, Kept, KeptFor, OwnPath, MirrorPath
  <2>2. Accepted(r)'
    BY <1>0, <1>b, <1>c, <2>1 DEF Accepted, Pending, OwnPath
  <2>3. InHand(r)' /\ NobodyYet(p, r)' /\ Mirrored(r)'
    BY <1>0, <1>b, <1>c, <2>1 DEF InHand, NobodyYet, Mirrored, LegacyPath, OwnPath, MirrorPath
  <2>. QED  BY <2>2, <2>3
<1>. QED
  BY <1>1, <1>2, <1>3, <1>4, <1>5, <1>6, <1>7, <1>8 DEF SaveStep

(* A grant may replace the token of one file; the files that hold it are    *)
(* those that this refresh goes on to write.                                *)
LEMMA UsableGranted ==
  ASSUME TypeInv, Owners, NEW p \in Refreshers, Good(p, proc[p]),
         NEW rotated \in BOOLEAN, Refresh_Granted(p, rotated)
  PROVE  Good(p, proc[p])'
<1>. DEFINE r   == proc[p]
            old == proc[p].ref
            new == [user |-> old.user, n |-> issued[old.user] + 1]
            s   == proc'[p]
<1>0. /\ p \in Processes /\ p # Login
      /\ r \in Process /\ proc \in [Processes -> Process] /\ ProcessOwn(r, primary, Single)
      /\ ref \in [Places -> Token \cup {NoToken}] /\ primary \in Places
      /\ Places = Users \cup {Legacy} /\ Legacy \notin Users
      /\ r.who \in Places /\ \A t \in Token : t.user \in Users
  BY DEF TypeInv, TypeOK, Owners, ProcessesOwn, Places, Processes, Process, Token
<1>1. /\ r.pc = "post" /\ old \in valid /\ UNCHANGED <<ref, primary>>
      /\ valid' = IF rotated THEN (valid \ {old}) \cup {new} ELSE valid
  BY DEF Refresh_Granted
<1>2. /\ s.pc = IF r.who = Legacy THEN "legacy_api" ELSE "own_api"
      /\ s.who = r.who /\ s.ref \in valid'
  <2>. HIDE DEF new
  <2>1. s.ref = IF rotated THEN new ELSE old
    BY <1>0 DEF Refresh_Granted, Process, new
  <2>. QED  BY <1>0, <1>1, <2>1 DEF Refresh_Granted, Process
<1>3. Accepted(r) /\ InHand(r) /\ NobodyYet(p, r) /\ Mirrored(r)
  BY DEF Good
<1>4. /\ old = ref[r.who] /\ old \in Token
      /\ \A x \in Places : ref[x] # NoToken => ref[x] \in valid
      /\ \A u \in Users : ref[u].user \in {u, Legacy} /\ (ref[u] # NoToken => ref[u].user = u)
      /\ primary = Legacy => \A u \in Users : ref[u] = NoToken
      /\ primary # Legacy => ref[Legacy] = ref[primary]
  <2>1. old = ref[r.who] /\ old \in Token
    BY <1>1, <1>3, <1>0 DEF InHand, TypeInv, TypeOK
  <2>2. \A x \in Places : ref[x] # NoToken => ref[x] \in valid
    BY <1>1, <1>3 DEF Accepted, Pending, OwnPath
  <2>3. \A u \in Users : ref[u].user \in {u, Legacy} /\ (ref[u] # NoToken => ref[u].user = u)
    BY <1>0 DEF Owners, OwnFiles
  <2>4. /\ primary = Legacy => \A u \in Users : ref[u] = NoToken
        /\ primary # Legacy => ref[Legacy] = ref[primary]
    BY <1>1, <1>3 DEF NobodyYet, Mirrored, LegacyPath, OwnPath
  <2>. QED  BY <2>1, <2>2, <2>3, <2>4
<1>5. ASSUME NEW x \in Places \ Pending(s, primary) PROVE ref[x] # old
  <2>1. CASE r.who = Legacy
    <3>1. x # Legacy /\ x # primary
      BY <1>2, <1>5, <2>1 DEF Pending
    <3>2. CASE primary = Legacy
      BY <1>0, <1>4, <3>1, <3>2, IdleProcess
    <3>3. CASE primary # Legacy
      <4>1. old.user = primary
        BY <1>0, <1>4, <2>1, <3>3, IdleProcess
      <4>. QED  BY <1>0, <1>4, <3>1, <4>1
    <3>. QED  BY <3>2, <3>3
  <2>2. CASE r.who # Legacy
    <3>1. x # r.who /\ (r.who = primary => x # Legacy) /\ old.user = r.who /\ r.who \in Users
      BY <1>0, <1>2, <1>4, <1>5, <2>2, IdleProcess DEF Pending, OwnPath
    <3>2. CASE x \in Users
      BY <1>0, <1>4, <3>1, <3>2
    <3>3. CASE x = Legacy
      <4>1. primary # Legacy /\ primary # r.who
        BY <1>4, <3>1, <3>3, IdleProcess
      <4>. QED  BY <1>0, <1>4, <3>1, <3>3, <4>1
    <3>. QED  BY <1>0, <3>2, <3>3
  <2>. QED  BY <2>1, <2>2
<1>6. Accepted(r)'
  BY <1>1, <1>4, <1>5 DEF Accepted
<1>7. InHand(r)'
  BY <1>1, <1>2 DEF InHand, MirrorPath
<1>8. NobodyYet(p, r)'
  <2>1. primary = Legacy => r.who = Legacy
    BY <1>0, <1>4, IdleProcess
  <2>. QED  BY <1>1, <1>2, <1>4, <2>1 DEF NobodyYet, OwnPath
<1>9. Mirrored(r)'
  BY <1>1, <1>4 DEF Mirrored
<1>. QED  BY <1>6, <1>7, <1>8, <1>9 DEF Good

(* A process begins from the quiet files, or it is no longer alone.         *)
LEMMA BeginsGood ==
  ASSUME TypeInv, UsableInv, Undisturbed', NEW p \in Processes, Begin(p)
  PROVE  /\ Undisturbed /\ OneAtWork(p)
         /\ Good(p, Idle)
<1>1. Undisturbed /\ Quiet
  BY DEF Begin, Undisturbed
<1>2. PICK q \in Processes : Good(q, proc[q])
  BY <1>1 DEF UsableInv
<1>3. Good(p, Idle)
  BY <1>1, <1>2, IdleProcess, IdleGood DEF Quiet
<1>. QED  BY <1>1, <1>3 DEF Quiet, OneAtWork

LEMMA UsableBegins ==
  ASSUME TypeInv, UsableInv, Undisturbed',
         \/ \E p \in Refreshers : \E who \in Places : Refresh_Begin(p, who)
         \/ \E n \in Nonces : \E u \in Users : Callback(u, n)
  PROVE  \E p \in Processes : OneAtWork(p)' /\ Good(p, proc[p])'
<1>0. proc \in [Processes -> Process]
  BY DEF TypeInv, TypeOK
<1>1. ASSUME NEW p \in Refreshers, NEW who \in Places, Refresh_Begin(p, who)
      PROVE  OneAtWork(p)' /\ Good(p, proc[p])'
  <2>. DEFINE r == [Idle EXCEPT !.pc = "post", !.who = who, !.ref = ref[who]]
  <2>1. /\ p \in Processes /\ Begin(p) /\ proc' = [proc EXCEPT ![p] = r]
        /\ UNCHANGED <<ref, primary, valid>>
    BY <1>1 DEF Refresh_Begin, Processes
  <2>2. Undisturbed /\ OneAtWork(p) /\ Good(p, Idle)
    BY <2>1, BeginsGood
  <2>3. /\ proc'[p].pc = "post" /\ proc'[p].who = who /\ proc'[p].ref = ref[who]
        /\ OneAtWork(p)'
    BY <1>0, <2>1, <2>2 DEF Idle, OneAtWork
  <2>4. Idle.pc = "idle"
    BY IdleProcess
  <2>. QED
    BY <2>1, <2>2, <2>3, <2>4 DEF Good, Accepted, Pending, InHand, NobodyYet, Mirrored,
         LegacyPath, OwnPath, MirrorPath
<1>2. ASSUME NEW n \in Nonces, NEW u \in Users, Callback(u, n)
      PROVE  OneAtWork(Login)' /\ Good(Login, proc[Login])'
  <2>. DEFINE new == [user |-> u, n |-> issued[u] + 1]
              r   == [Idle EXCEPT !.pc = "who_am_i", !.api = new, !.ref = new]
  <2>1. /\ Login \in Processes /\ Begin(Login) /\ proc' = [proc EXCEPT ![Login] = r]
        /\ UNCHANGED <<ref, primary>> /\ valid' = valid \cup {new}
    BY <1>2 DEF Callback, Exchanged, Processes
  <2>2. Undisturbed /\ OneAtWork(Login) /\ Good(Login, Idle)
    BY <2>1, BeginsGood
  <2>3. /\ proc'[Login].pc = "who_am_i" /\ proc'[Login].ref = new /\ OneAtWork(Login)'
    BY <1>0, <2>1, <2>2 DEF Idle, OneAtWork
  <2>4. Idle.pc = "idle"
    BY IdleProcess
  <2>. HIDE DEF new
  <2>. QED
    BY <2>1, <2>2, <2>3, <2>4 DEF Good, Accepted, Pending, InHand, NobodyYet, Mirrored,
         LegacyPath, OwnPath, MirrorPath
<1>3. Refreshers \subseteq Processes /\ Login \in Processes
  BY DEF Processes
<1>. QED  BY <1>1, <1>2, <1>3

(* A refresh that fails and a login that cannot ask leave the files alone.  *)
LEMMA UsableGivesUp ==
  ASSUME TypeInv, NEW p \in Processes, Good(p, proc[p]),
         Refresh_Fails(p) \/ (p = Login /\ (WhoAmI \/ WhoAmI_Fails))
  PROVE  Good(p, proc[p])'
<1>. DEFINE r == proc[p]
<1>1. /\ r.pc \in {"post", "who_am_i"} /\ UNCHANGED <<ref, primary, valid>>
      /\ proc \in [Processes -> Process] /\ r \in Process
  BY DEF Refresh_Fails, WhoAmI, WhoAmI_Fails, TypeInv, TypeOK
<1>2. Accepted(r) /\ InHand(r) /\ NobodyYet(p, r) /\ Mirrored(r)
  BY DEF Good
<1>3. \/ r'.pc = "idle"
      \/ r.pc = "who_am_i" /\ p = Login /\ r'.pc = "own_api" /\ r'.ref = r.ref
  BY <1>1, IdleProcess DEF Refresh_Fails, WhoAmI, WhoAmI_Fails, Return, Process
<1>4. \A x \in Places : ref[x] # NoToken => ref[x] \in valid
  BY <1>1, <1>2 DEF Accepted, Pending, OwnPath
<1>5. Accepted(r)'
  BY <1>1, <1>4 DEF Accepted
<1>6. InHand(r)' /\ NobodyYet(p, r)' /\ Mirrored(r)'
  BY <1>1, <1>2, <1>3 DEF InHand, NobodyYet, Mirrored, LegacyPath, OwnPath, MirrorPath
<1>. QED  BY <1>5, <1>6 DEF Good

LEMMA UsableStep == TypeInv /\ Kept /\ OwnerInv /\ UsableInv /\ [Next]_vars => UsableInv'
<1>. SUFFICES ASSUME TypeInv, Kept, OwnerInv, UsableInv, [Next]_vars, Undisturbed'
              PROVE  \E p \in Processes : OneAtWork(p)' /\ Good(p, proc[p])'
  BY DEF UsableInv
<1>0. proc \in [Processes -> Process] /\ Login \in Processes /\ Refreshers \subseteq Processes
  BY DEF Processes, TypeInv, TypeOK
<1>1. ASSUME UNCHANGED <<ref, primary, valid, proc>>, Undisturbed
      PROVE  \E p \in Processes : OneAtWork(p)' /\ Good(p, proc[p])'
  BY <1>1 DEF UsableInv, OneAtWork, Good, Accepted, InHand, NobodyYet, Mirrored
<1>2. CASE \/ \E n \in Nonces : StoreOauthState(n) \/ StateExpires(n)
           \/ UNCHANGED vars
  BY <1>1, <1>2 DEF StoreOauthState, StateExpires, vars, Undisturbed
<1>3. CASE \/ \E p \in Refreshers : \E who \in Places : Refresh_Begin(p, who)
           \/ \E n \in Nonces : \E u \in Users : Callback(u, n)
  BY <1>3, UsableBegins
<1>4. CASE (\E p \in Processes : Crash(p)) \/ (\E u \in Users : ForgetUser(u))
  <2>1. ~Undisturbed'
    BY <1>4 DEF Crash, ForgetUser, Hazard, Undisturbed
  <2>. QED  BY <2>1
<1>5. CASE ForgetPrimary
  BY <1>5 DEF ForgetPrimary, Undisturbed, Kept
<1>6. ASSUME NEW p \in Processes, proc[p].pc # "idle", happened' = happened,
             NEW x, proc' = [proc EXCEPT ![p] = x],
             Owners /\ Good(p, proc[p]) => Good(p, proc[p])'
      PROVE  \E q \in Processes : OneAtWork(q)' /\ Good(q, proc[q])'
  <2>1. Undisturbed /\ Owners
    BY <1>6 DEF Undisturbed, Sane, OwnerInv, TypeInv, TypeOK
  <2>2. OneAtWork(p) /\ Good(p, proc[p])
    BY <1>6, <2>1 DEF UsableInv, OneAtWork
  <2>3. OneAtWork(p)'
    BY <1>0, <1>6, <2>2 DEF OneAtWork
  <2>. QED  BY <1>6, <2>1, <2>2, <2>3
<1>7. ASSUME NEW p \in Processes, SaveStep(p)
      PROVE  \E q \in Processes : OneAtWork(q)' /\ Good(q, proc[q])'
  <2>1. /\ proc[p].pc # "idle" /\ happened' = happened
        /\ \E x : proc' = [proc EXCEPT ![p] = x]
    BY <1>7 DEF SaveStep, WriteLegacyApi, WriteLegacyRef, FindPrimary, WriteOwnApi, WriteOwnRef,
                ClaimPrimary, MirrorApi, MirrorRef, Goto, Return
  <2>2. "forget" \notin happened
    BY <2>1 DEF Undisturbed
  <2>. QED  BY <1>6, <1>7, <2>1, <2>2, UsableSave
<1>8. ASSUME NEW p \in Refreshers, NEW rotated \in BOOLEAN, Refresh_Granted(p, rotated)
      PROVE  \E q \in Processes : OneAtWork(q)' /\ Good(q, proc[q])'
  <2>1. /\ proc[p].pc # "idle" /\ happened' = happened
        /\ \E x : proc' = [proc EXCEPT ![p] = x]
    BY <1>0, <1>8 DEF Refresh_Granted
  <2>. QED  BY <1>0, <1>6, <1>8, <2>1, UsableGranted
<1>9. ASSUME NEW p \in Processes, Refresh_Fails(p) \/ (p = Login /\ (WhoAmI \/ WhoAmI_Fails))
      PROVE  \E q \in Processes : OneAtWork(q)' /\ Good(q, proc[q])'
  <2>1. /\ proc[p].pc # "idle" /\ happened' = happened
        /\ \E x : proc' = [proc EXCEPT ![p] = x]
    BY <1>0, <1>9 DEF Refresh_Fails, WhoAmI, WhoAmI_Fails, Return
  <2>. QED  BY <1>6, <1>9, <2>1, UsableGivesUp
<1>. QED
  BY <1>0, <1>2, <1>3, <1>4, <1>5, <1>7, <1>8, <1>9 DEF Next

(* Whatever Spotify rotates, and with whichever identity a refresh or login *)
(* comes: when no process is at work, every refresh token on disk is one    *)
(* that Spotify accepts, as long as processes did not overlap or die.       *)
THEOREM TokensStayUsable == Spec => []RefreshTokenUsable
<1>1. UsableInv => RefreshTokenUsable
  BY DEF UsableInv, RefreshTokenUsable, Quiet, Good, Accepted, Pending, OwnPath
<1>2. QED
  BY TypeInit, TypeStep, KeptInit, KeptStep, OwnerInit, OwnerStep, UsableInit, UsableStep, <1>1, PTL DEF Spec
=============================================================================
