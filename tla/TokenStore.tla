----------------------------- MODULE TokenStore -----------------------------
(***************************************************************************)
(* The token files under secrets/, the refresh that the engine and the     *)
(* command line tools make after a 401, and the login service that files   *)
(* the tokens of a new user.  Every file is written on its own, in the     *)
(* order of the code and without a lock; processes interleave between any  *)
(* two writes.  The login service handles one callback at a time.          *)
(*                                                                         *)
(* A token is known by its user and by the count of that user's tokens     *)
(* when Spotify issued it.  Definitions named Op_Slip are wrong variants,  *)
(* see the README's table.                                                 *)
(***************************************************************************)
EXTENDS Integers, FiniteSets

CONSTANTS
  Users,          \* Spotify users
  Legacy,         \* user_id None: the files directly under secrets/
  Refreshers,     \* processes that refresh tokens
  NamesUsers,     \* those that name a user: the engine; the tools use Legacy
  Login,          \* the login service
  Nonces,         \* the states /login/start mints
  Installs,       \* whose tokens the legacy files may hold at first; Legacy: there are none
  Hazards,        \* what may happen: processes that die, users that are deleted
  MaxIssued       \* how many tokens a user is issued (bound)

Places    == Users \cup {Legacy}
Processes == Refreshers \cup {Login}

ASSUME TokenAssumption ==
  /\ Legacy \notin Users /\ Login \notin Refreshers
  /\ NamesUsers \subseteq Refreshers
  /\ Installs \subseteq Places
  /\ Hazards \subseteq {"crash", "forget"}
  /\ MaxIssued \in Nat \ {0}

Token   == [user : Users, n : 1..MaxIssued]
NoToken == [user |-> Legacy, n |-> 0]       \* there is no such file

VARIABLES
  api,        \* spotify_api_token.secret of every user, and the legacy one
  ref,        \* spotify_refresh_token.secret
  primary,    \* .primary_user, Legacy if it does not exist
  issued,     \* Spotify: how many tokens each user was issued
  valid,      \* Spotify: the refresh tokens it accepts
  nonce,      \* Redis: the states of the logins
  proc,       \* the processes
  happened    \* history: what makes the properties below conditional

vars == <<api, ref, primary, issued, valid, nonce, proc, happened>>

(* What a process is about: the identity and the tokens it has to save.    *)
Process == [pc : {"idle", "post", "who_am_i", "legacy_api", "legacy_ref", "find_primary",
                  "own_api", "own_ref", "claim", "mirror_api", "mirror_ref"},
            who : Places, api : Token \cup {NoToken}, ref : Token \cup {NoToken}]

Idle == [pc |-> "idle", who |-> Legacy, api |-> NoToken, ref |-> NoToken]

Quiet == \A p \in Processes : proc[p].pc = "idle"

-----------------------------------------------------------------------------
Goto(p, pc) == proc' = [proc EXCEPT ![p].pc = pc]

Return(p) == proc' = [proc EXCEPT ![p] = Idle]

(* A process begins, possibly while others are at work.                    *)
Begin(p) ==
  /\ proc[p].pc = "idle"
  /\ happened' = IF Quiet THEN happened ELSE happened \cup {"overlap"}

(* A 401: refresh_spotify_auth reads the refresh token of the identity.    *)
Refresh_Begin(p, who) ==
  /\ Begin(p)
  /\ who # Legacy => p \in NamesUsers
  /\ ref[who] # NoToken
  /\ proc' = [proc EXCEPT ![p] = [Idle EXCEPT !.pc = "post", !.who = who, !.ref = ref[who]]]
  /\ UNCHANGED <<api, ref, primary, issued, valid, nonce>>

Issue(u) == issued' = [issued EXCEPT ![u] = @ + 1]

Refresh_Granted_NoFallback(p, rotated) ==
  LET old == proc[p].ref
      new == [user |-> old.user, n |-> issued[old.user] + 1] IN
  /\ proc[p].pc = "post"
  /\ old \in valid
  /\ new.n <= MaxIssued
  /\ Issue(old.user)
  /\ valid' = IF rotated THEN (valid \ {old}) \cup {new} ELSE valid
  /\ proc' = [proc EXCEPT ![p].pc = IF proc[p].who = Legacy THEN "legacy_api" ELSE "own_api",
                          ![p].api = new,
                          ![p].ref = IF rotated THEN new ELSE NoToken]
  /\ UNCHANGED <<api, ref, primary, nonce, happened>>

Refresh_Granted_KeepsOld(p, rotated) ==
  LET old == proc[p].ref
      new == [user |-> old.user, n |-> issued[old.user] + 1] IN
  /\ proc[p].pc = "post"
  /\ old \in valid
  /\ new.n <= MaxIssued
  /\ Issue(old.user)
  /\ valid' = IF rotated THEN (valid \ {old}) \cup {new} ELSE valid
  /\ proc' = [proc EXCEPT ![p].pc = IF proc[p].who = Legacy THEN "legacy_api" ELSE "own_api",
                          ![p].api = new,
                          ![p].ref = old]
  /\ UNCHANGED <<api, ref, primary, nonce, happened>>

(* The token endpoint.  Spotify mostly keeps the refresh token; when it    *)
(* sends a new one the old one is no longer accepted.                      *)
Refresh_Granted(p, rotated) ==
  LET old == proc[p].ref
      new == [user |-> old.user, n |-> issued[old.user] + 1] IN
  /\ proc[p].pc = "post"
  /\ old \in valid
  /\ new.n <= MaxIssued
  /\ Issue(old.user)
  /\ valid' = IF rotated THEN (valid \ {old}) \cup {new} ELSE valid
  /\ proc' = [proc EXCEPT ![p].pc = IF proc[p].who = Legacy THEN "legacy_api" ELSE "own_api",
                          ![p].api = new,
                          ![p].ref = IF rotated THEN new ELSE old]
  /\ UNCHANGED <<api, ref, primary, nonce, happened>>

(* invalid_grant, or the endpoint cannot be reached: the caller gives up.  *)
Refresh_Fails(p) ==
  /\ proc[p].pc = "post"
  /\ Return(p)
  /\ UNCHANGED <<api, ref, primary, issued, valid, nonce, happened>>

-----------------------------------------------------------------------------
(* /login/start and /callback.                                             *)

StoreOauthState(n) ==
  /\ nonce[n] = "unused"
  /\ nonce' = [nonce EXCEPT ![n] = "live"]
  /\ UNCHANGED <<api, ref, primary, issued, valid, proc, happened>>

StateExpires(n) ==
  /\ nonce[n] = "live"
  /\ nonce' = [nonce EXCEPT ![n] = "gone"]
  /\ UNCHANGED <<api, ref, primary, issued, valid, proc, happened>>

Exchanged(u) ==
  LET new == [user |-> u, n |-> issued[u] + 1] IN
  /\ new.n <= MaxIssued
  /\ Issue(u)
  /\ valid' = valid \cup {new}
  /\ proc' = [proc EXCEPT ![Login] = [Idle EXCEPT !.pc = "who_am_i", !.api = new, !.ref = new]]

(* The browser may call back again with a state that was used or expired:  *)
(* only a live one gets as far as the code exchange.                       *)
Callback(u, n) ==
  /\ Begin(Login)
  /\ nonce[n] = "live"
  /\ nonce' = [nonce EXCEPT ![n] = "gone"]
  /\ Exchanged(u)
  /\ UNCHANGED <<api, ref, primary>>

WhoAmI_Assumed ==
  /\ proc[Login].pc = "who_am_i"
  /\ proc' = [proc EXCEPT ![Login].pc = "own_api",
                          ![Login].who = IF primary = Legacy THEN proc[Login].api.user ELSE primary]
  /\ UNCHANGED <<api, ref, primary, issued, valid, nonce, happened>>

(* GET /v1/me says whose tokens they are.                                  *)
WhoAmI ==
  /\ proc[Login].pc = "who_am_i"
  /\ proc' = [proc EXCEPT ![Login].pc = "own_api", ![Login].who = proc[Login].api.user]
  /\ UNCHANGED <<api, ref, primary, issued, valid, nonce, happened>>

WhoAmI_Fails ==
  /\ proc[Login].pc = "who_am_i"
  /\ Return(Login)
  /\ UNCHANGED <<api, ref, primary, issued, valid, nonce, happened>>

-----------------------------------------------------------------------------
(* The writes of a legacy refresh, then of save_tokens.                    *)

WriteLegacyApi(p) ==
  /\ proc[p].pc = "legacy_api"
  /\ api' = [api EXCEPT ![Legacy] = proc[p].api]
  /\ Goto(p, "legacy_ref")
  /\ UNCHANGED <<ref, primary, issued, valid, nonce, happened>>

WriteLegacyRef(p) ==
  /\ proc[p].pc = "legacy_ref"
  /\ ref' = [ref EXCEPT ![Legacy] = proc[p].ref]
  /\ Goto(p, "find_primary")
  /\ UNCHANGED <<api, primary, issued, valid, nonce, happened>>

(* "The legacy refresh token IS the primary's": their own files follow.    *)
FindPrimary(p) ==
  /\ proc[p].pc = "find_primary"
  /\ IF primary = Legacy THEN Return(p)
     ELSE proc' = [proc EXCEPT ![p].pc = "own_api", ![p].who = primary]
  /\ UNCHANGED <<api, ref, primary, issued, valid, nonce, happened>>

(* mkdir(exist_ok) and the access token.                                   *)
WriteOwnApi(p) ==
  /\ proc[p].pc = "own_api"
  /\ api' = [api EXCEPT ![proc[p].who] = proc[p].api]
  /\ Goto(p, "own_ref")
  /\ UNCHANGED <<ref, primary, issued, valid, nonce, happened>>

(* The write fails if the user's directory was removed meanwhile.          *)
WriteOwnRef(p) ==
  /\ proc[p].pc = "own_ref"
  /\ IF api[proc[p].who] = NoToken THEN Return(p) /\ UNCHANGED ref
     ELSE /\ ref' = [ref EXCEPT ![proc[p].who] = proc[p].ref]
          /\ Goto(p, "claim")
  /\ UNCHANGED <<api, primary, issued, valid, nonce, happened>>

ClaimPrimary_Always(p) ==
  /\ proc[p].pc = "claim"
  /\ primary' = IF primary = Legacy THEN proc[p].who ELSE primary
  /\ IF primary' = proc[p].who THEN Goto(p, "mirror_api") ELSE Return(p)
  /\ UNCHANGED <<api, ref, issued, valid, nonce, happened>>

ClaimPrimary_NoMirror(p) ==
  /\ proc[p].pc = "claim"
  /\ primary' = IF p = Login /\ primary = Legacy THEN proc[p].who ELSE primary
  /\ IF primary = proc[p].who THEN Goto(p, "mirror_api") ELSE Return(p)
  /\ UNCHANGED <<api, ref, issued, valid, nonce, happened>>

(* Only a login claims the slot, and only an empty one; the primary's      *)
(* tokens are mirrored to the legacy files.                                *)
ClaimPrimary(p) ==
  /\ proc[p].pc = "claim"
  /\ primary' = IF p = Login /\ primary = Legacy THEN proc[p].who ELSE primary
  /\ IF primary' = proc[p].who THEN Goto(p, "mirror_api") ELSE Return(p)
  /\ UNCHANGED <<api, ref, issued, valid, nonce, happened>>

MirrorApi(p) ==
  /\ proc[p].pc = "mirror_api"
  /\ api' = [api EXCEPT ![Legacy] = proc[p].api]
  /\ Goto(p, "mirror_ref")
  /\ UNCHANGED <<ref, primary, issued, valid, nonce, happened>>

MirrorRef(p) ==
  /\ proc[p].pc = "mirror_ref"
  /\ ref' = [ref EXCEPT ![Legacy] = proc[p].ref]
  /\ Return(p)
  /\ UNCHANGED <<api, primary, issued, valid, nonce, happened>>

-----------------------------------------------------------------------------
(* Any number of deaths or any number of deletions, at any point, but not  *)
(* some of both (bound).                                                   *)
Hazard(kind) ==
  /\ kind \in Hazards
  /\ happened \cap Hazards \subseteq {kind}
  /\ happened' = happened \cup {kind}

Crash(p) ==
  /\ Hazard("crash")
  /\ proc[p].pc # "idle"
  /\ Return(p)
  /\ UNCHANGED <<api, ref, primary, issued, valid, nonce>>

(* rm -r secrets/users/<id>/, then for the primary the marker and the      *)
(* legacy files.                                                           *)
ForgetUser(u) ==
  /\ Hazard("forget")
  /\ api[u] # NoToken
  /\ api' = [api EXCEPT ![u] = NoToken]
  /\ ref' = [ref EXCEPT ![u] = NoToken]
  /\ UNCHANGED <<primary, issued, valid, nonce, proc>>

ForgetPrimary ==
  /\ primary # Legacy /\ api[primary] = NoToken
  /\ primary' = Legacy
  /\ api' = [api EXCEPT ![Legacy] = NoToken]
  /\ ref' = [ref EXCEPT ![Legacy] = NoToken]
  /\ UNCHANGED <<issued, valid, nonce, proc, happened>>

(* An install without users has legacy files of nobody or of one user.     *)
InitInstalled(who) ==
  LET first == [user |-> who, n |-> 1] IN
  /\ api = [x \in Places |-> IF x = Legacy /\ who \in Users THEN first ELSE NoToken]
  /\ ref = api
  /\ issued = [u \in Users |-> IF u = who THEN 1 ELSE 0]
  /\ valid = IF who \in Users THEN {first} ELSE {}
  /\ happened = IF who \in Users THEN {"installed"} ELSE {}

Init ==
  /\ \E who \in Installs : InitInstalled(who)
  /\ primary = Legacy
  /\ nonce = [n \in Nonces |-> "unused"]
  /\ proc = [p \in Processes |-> Idle]

SaveStep(p) ==
  \/ WriteLegacyApi(p) \/ WriteLegacyRef(p) \/ FindPrimary(p)
  \/ WriteOwnApi(p) \/ WriteOwnRef(p) \/ ClaimPrimary(p)
  \/ MirrorApi(p) \/ MirrorRef(p)

Next ==
  \/ \E p \in Refreshers :
       \/ \E who \in Places : Refresh_Begin(p, who)
       \/ \E rotated \in BOOLEAN : Refresh_Granted(p, rotated)
       \/ Refresh_Fails(p)
  \/ \E n \in Nonces :
       \/ StoreOauthState(n) \/ StateExpires(n)
       \/ \E u \in Users : Callback(u, n)
  \/ WhoAmI \/ WhoAmI_Fails
  \/ \E p \in Processes : SaveStep(p) \/ Crash(p)
  \/ \E u \in Users : ForgetUser(u)
  \/ ForgetPrimary

Spec == Init /\ [][Next]_vars

(* The writes are straight-line code: a process that is saving goes on.    *)
FairSpec == Spec /\ \A p \in Processes : WF_vars(SaveStep(p))

-----------------------------------------------------------------------------
TypeOK ==
  /\ api \in [Places -> Token \cup {NoToken}]
  /\ ref \in [Places -> Token \cup {NoToken}]
  /\ primary \in Places
  /\ issued \in [Users -> 0..MaxIssued]
  /\ valid \subseteq Token
  /\ nonce \in [Nonces -> {"unused", "live", "gone"}]
  /\ proc \in [Processes -> Process]
  /\ happened \subseteq {"installed", "overlap", "crash", "forget"}
  /\ \A p \in Processes : proc[p].pc # "idle" => proc[p].ref \in Token

Undisturbed == happened \cap {"overlap", "crash", "forget"} = {}

(* "Identity is derived, not assumed": the files of a user never hold      *)
(* another user's tokens.  That holds on an install that began without     *)
(* legacy files, however refreshes and logins interleave and die, and on   *)
(* any install, whoever is deleted and when, while one process at a time   *)
(* is at work.  A legacy refresh files under whoever is primary when it    *)
(* looks, so every other pair breaks it: where the legacy files are of a   *)
(* first user, or of a primary deleted under a refresh that still wrote    *)
(* them, the first login of another user may overlap a legacy refresh or   *)
(* die before it has mirrored its own tokens.                              *)
FiledUnderOwner ==
  \/ happened \subseteq {"overlap", "crash"}
  \/ happened \subseteq {"installed", "forget"}
  =>
    \A u \in Users : api[u].user \in {u, Legacy} /\ ref[u].user \in {u, Legacy}

(* Whether or not Spotify rotates the refresh token, no file is left with  *)
(* one that was replaced, as long as one process at a time is at work.     *)
RefreshTokenUsable ==
  Quiet /\ Undisturbed => \A x \in Places : ref[x] # NoToken => ref[x] \in valid

(* The role of the primary is sticky: it goes from one user to another     *)
(* only through a deletion, and to a user only in a login of theirs, never *)
(* in a background refresh.                                                *)
PrimaryIsSticky ==
  [][primary' # primary =>
       \/ primary' = Legacy /\ api[primary] = NoToken
       \/ primary = Legacy /\ proc[Login].pc = "claim" /\ primary' = proc[Login].api.user]_vars

(* A user that the slot is claimed for opens compose's gate, which tests   *)
(* the legacy access token, unless the login dies before its mirror.       *)
GateOpens ==
  (primary # Legacy) ~> (api[Legacy] # NoToken \/ happened \cap {"crash", "forget"} # {})
=============================================================================
