---------------------------- MODULE SessionTokens ----------------------------
(***************************************************************************)
(* The login of a user on the client side (SessionManager and              *)
(* SessionCacheManager of service/authentication.py, with the callers in   *)
(* client/client.py and cli/cli.py).  Every process of the user keeps its  *)
(* session in the same cache file, without a lock, and replaces the file   *)
(* by deleting and creating it.  Each request asks for a valid access      *)
(* token; one that has expired is exchanged, with the refresh token, for   *)
(* new ones.                                                               *)
(*                                                                         *)
(* The provider of the tokens is external: it takes a refresh token once   *)
(* and gives another with it, and ends the whole session at a logout.      *)
(* Answers of the server and of the provider may fail to come, and a       *)
(* process may be killed anywhere.                                         *)
(***************************************************************************)
EXTENDS Naturals

CONSTANTS
  Processes,  \* the processes of the user
  NoProcess,  \* of no file
  MaxTokens   \* bound on the token sets that are issued

ASSUME TokensAssumption == MaxTokens \in Nat /\ NoProcess \notin Processes

VARIABLES
  pc,       \* where each process is
  op,       \* what for
  held,     \* the token set it has loaded or been given
  file,     \* the cache file: who created it, and what it holds
  live,     \* the token sets whose refresh token the provider accepts
  expired,  \* the token sets whose access token has expired
  issued,   \* how many token sets there have been
  \* History
  kept,     \* a login has completed, and no logout was asked for since
  excused,  \* since the login, something but calls one by one has happened
  refused,  \* since the login, the provider has not served a request it could have
  ended     \* logins whose tokens were lost, or whose session was ended

processVars == <<pc, op, held>>
providerVars == <<live, expired, issued>>
historyVars == <<kept, excused, refused, ended>>
vars == <<processVars, file, providerVars, historyVars>>

\* A token set: the login it descends from, and its number.
TokenSets == [login: 1 .. MaxTokens, number: 1 .. MaxTokens]
None  == [login |-> 0, number |-> 0]
Files == [by: Processes \cup {NoProcess}, holds: TokenSets \cup {None}]

Absent == [by |-> NoProcess, holds |-> None]

Operations == {"none", "get", "login", "flow", "logout"}
Locations ==
  {"idle", "load", "reload", "refresh", "discard", "unlink", "create", "write", "chmod",
   "open", "truncate", "poll", "find", "take", "delete", "end"}

TypeOK ==
  /\ pc \in [Processes -> Locations] /\ op \in [Processes -> Operations]
  /\ held \in [Processes -> TokenSets \cup {None}]
  /\ file \in Files
  /\ live \subseteq TokenSets /\ expired \subseteq TokenSets /\ issued \in 0 .. MaxTokens
  /\ \A p \in Processes :
       pc[p] \in {"refresh", "unlink", "create", "write", "delete", "end"} => held[p] # None
  /\ kept \in BOOLEAN /\ excused \in BOOLEAN /\ refused \in BOOLEAN
  /\ ended \subseteq 1 .. MaxTokens

\* Nobody has logged in yet.
Init ==
  /\ pc = [p \in Processes |-> "idle"] /\ op = [p \in Processes |-> "none"]
  /\ held = [p \in Processes |-> None]
  /\ file = Absent
  /\ live = {} /\ expired = {} /\ issued = 0
  /\ kept = FALSE /\ excused = FALSE /\ refused = FALSE /\ ended = {}

-----------------------------------------------------------------------------
Goto(p, l) == pc' = [pc EXCEPT ![p] = l]

\* The operation returns or raises out of the process's call.
Finish(p) ==
  /\ Goto(p, "idle")
  /\ op' = [op EXCEPT ![p] = "none"] /\ held' = [held EXCEPT ![p] = None]

\* login takes any failure to get a token for the cue to log in anew; other
\* operations fail.
Fail(p) ==
  IF op[p] = "login"
  THEN Goto(p, "truncate") /\ held' = [held EXCEPT ![p] = None] /\ UNCHANGED op
  ELSE Finish(p)

Idle(p) == pc[p] = "idle"
Alone(p) == \A q \in Processes \ {p} : Idle(q)

\* load_cache gives a token set: else the file is not there, or not valid.
Loads == file.holds # None

\* What a request, login and logout begin with.
Start(p, operation, l) ==
  /\ Idle(p) /\ Goto(p, l) /\ op' = [op EXCEPT ![p] = operation]
  /\ excused' = (excused \/ ~Alone(p))
  /\ UNCHANGED <<held, file, providerVars, refused, ended>>

\* JWTAuth, run_blocking: get_valid_access_token.
StartGet(p) == Start(p, "get", "load") /\ UNCHANGED kept

\* login: from_cache, or at once the device flow.
StartLogin(p) == Start(p, "login", "open") /\ UNCHANGED kept

StartLogout(p) == Start(p, "logout", "find") /\ kept' = FALSE

-----------------------------------------------------------------------------
(* get_valid_access_token.                                                 *)

\* Fault: an expired token is an error like any other.
ExpiryIsError == "discard"

\* except ExpiredSignatureError comes before except Exception.
OnExpiry == "reload"

\* The access token is accepted, has expired, or cannot be verified because the
\* keys of the provider are out of reach: then, as when the cache does not
\* load, the cache is deleted.
Load(p) ==
  /\ pc[p] = "load"
  /\ \/ Loads /\ file.holds \notin expired /\ Finish(p) /\ UNCHANGED refused
     \/ Loads /\ file.holds \in expired /\ Goto(p, OnExpiry) /\ UNCHANGED <<op, held, refused>>
     \/ ~Loads /\ Goto(p, "discard") /\ UNCHANGED <<op, held, refused>>
     \/ Loads /\ Goto(p, "discard") /\ refused' = TRUE /\ UNCHANGED <<op, held>>
  /\ UNCHANGED <<file, providerVars, kept, excused, ended>>

\* Another process may have deleted or emptied it.
StillLoads == Loads

\* The cache is loaded again for the refresh token; an error is not caught.
Reload(p) ==
  /\ pc[p] = "reload"
  /\ IF StillLoads
     THEN Goto(p, "refresh") /\ held' = [held EXCEPT ![p] = file.holds] /\ UNCHANGED op
     ELSE Fail(p)
  /\ UNCHANGED <<file, providerVars, historyVars>>

\* Fault: the refresh token that was just spent is stored again.
Spent(p) == held[p]

\* The tokens of the answer.
Renewed(p) == [login |-> held[p].login, number |-> issued + 1]

\* _refresh_auth_token: the answer has new tokens, or another status than 200: that
\* of a spent token, or of a provider that is busy or out of order.
Refresh(p) ==
  /\ pc[p] = "refresh"
  /\ \/ /\ held[p] \in live /\ issued < MaxTokens /\ issued' = issued + 1
        /\ live' = (live \ {held[p]}) \cup {[login |-> held[p].login, number |-> issued + 1]}
        /\ held' = [held EXCEPT ![p] = Renewed(p)]
        /\ Goto(p, "unlink") /\ UNCHANGED refused
     \/ /\ Goto(p, "discard") /\ refused' = (refused \/ held[p] \in live)
        /\ UNCHANGED <<held, live, issued>>
  /\ UNCHANGED <<op, file, expired, kept, excused, ended>>

\* There is no answer: the error is not caught.  The provider may have taken the
\* refresh token.
RefreshLost(p) ==
  /\ pc[p] = "refresh" /\ Fail(p)
  /\ live' \in {live, live \ {held[p]}}
  /\ excused' = TRUE /\ ended' = ended \cup {held[p].login}
  /\ UNCHANGED <<file, expired, issued, kept, refused>>

\* delete_cache, and no token: the request goes out without one.
Discard(p) ==
  /\ pc[p] = "discard"
  /\ file' = Absent /\ Fail(p)
  /\ UNCHANGED <<providerVars, historyVars>>

-----------------------------------------------------------------------------
(* save_cache.                                                             *)

Unlink(p) ==
  /\ pc[p] = "unlink" /\ file' = Absent /\ Goto(p, "create")
  /\ UNCHANGED <<op, held, providerVars, historyVars>>

\* Mode "x": a file that another process has created is an error, and the new
\* tokens are gone.
Create(p) ==
  /\ pc[p] = "create"
  /\ IF file = Absent
     THEN /\ file' = [by |-> p, holds |-> None]
          /\ Goto(p, "write") /\ UNCHANGED <<op, held>>
     ELSE Fail(p) /\ UNCHANGED file
  /\ UNCHANGED <<providerVars, historyVars>>

\* A file that another process has deleted meanwhile is written all the same,
\* out of the path's sight.
Write(p) ==
  /\ pc[p] = "write" /\ Goto(p, "chmod")
  /\ file' = IF file.by = p THEN [file EXCEPT !.holds = held[p]] ELSE file
  /\ UNCHANGED <<op, held, providerVars, historyVars>>

\* chmod raises when there is no file.
Chmod(p) ==
  /\ pc[p] = "chmod"
  /\ IF file = Absent THEN Fail(p) ELSE Finish(p)
  /\ kept' = (kept \/ op[p] = "flow")
  /\ UNCHANGED <<file, providerVars, excused, refused, ended>>

-----------------------------------------------------------------------------
(* login.                                                                  *)

\* from_cache
Open(p) ==
  /\ pc[p] = "open"
  /\ IF Loads THEN Goto(p, "load") /\ UNCHANGED <<op, held>> ELSE Fail(p)
  /\ UNCHANGED <<file, providerVars, historyVars>>

\* start_device_flow: can_access_cache empties the file, or creates one.  (That
\* the server may have no authentication, or not answer, ends the login
\* before.)
Truncate(p) ==
  /\ pc[p] = "truncate"
  /\ \/ /\ file' = [by |-> IF file = Absent THEN p ELSE file.by, holds |-> None]
        /\ op' = [op EXCEPT ![p] = "flow"] /\ Goto(p, "poll")
        /\ excused' = ~Alone(p) /\ kept' = FALSE /\ refused' = FALSE
        /\ UNCHANGED held
     \/ Finish(p) /\ UNCHANGED <<file, kept, excused, refused>>
  /\ UNCHANGED <<providerVars, ended>>

\* poll_for_token: the user logs in with the provider.
LogIn(p) ==
  /\ pc[p] = "poll" /\ issued < MaxTokens /\ issued' = issued + 1
  /\ LET new == [login |-> issued + 1, number |-> issued + 1]
     IN held' = [held EXCEPT ![p] = new] /\ live' = live \cup {new}
  /\ Goto(p, "unlink")
  /\ UNCHANGED <<op, file, expired, historyVars>>

PollTimesOut(p) ==
  /\ pc[p] = "poll" /\ Finish(p)
  /\ UNCHANGED <<file, providerVars, historyVars>>

-----------------------------------------------------------------------------
(* logout: the cache is loaded twice, for the server's configuration and    *)
(* for the tokens, then deleted, then the session is ended.                *)

Find(p) ==
  /\ pc[p] = "find"
  /\ IF Loads THEN Goto(p, "take") /\ UNCHANGED <<op, held>> ELSE Finish(p)
  /\ UNCHANGED <<file, providerVars, historyVars>>

Take(p) ==
  /\ pc[p] = "take"
  /\ IF Loads
     THEN Goto(p, "delete") /\ held' = [held EXCEPT ![p] = file.holds] /\ UNCHANGED op
     ELSE Finish(p)
  /\ UNCHANGED <<file, providerVars, historyVars>>

\* delete_cache
Delete(p) ==
  /\ pc[p] = "delete" /\ file' = Absent /\ Goto(p, "end")
  /\ UNCHANGED <<op, held, providerVars, historyVars>>

\* A request to end the session that fails is reported, no more.
EndSession(p) ==
  /\ pc[p] = "end" /\ Finish(p)
  /\ live' \in {live, {s \in live : s.login # held[p].login}}
  /\ ended' = ended \cup {held[p].login}
  /\ UNCHANGED <<file, expired, issued, kept, excused, refused>>

-----------------------------------------------------------------------------
\* A process is killed.
Kill(p) ==
  /\ ~Idle(p) /\ Finish(p) /\ excused' = TRUE
  /\ ended' = IF pc[p] = "unlink" THEN ended \cup {held[p].login} ELSE ended
  /\ UNCHANGED <<file, providerVars, kept, refused>>

\* The clock.
Expire(s) ==
  /\ s \in live \ expired /\ expired' = expired \cup {s}
  /\ UNCHANGED <<processVars, file, live, issued, historyVars>>

GetStep(p) == Load(p) \/ Reload(p) \/ Refresh(p) \/ RefreshLost(p) \/ Discard(p)
SaveStep(p) == Unlink(p) \/ Create(p) \/ Write(p) \/ Chmod(p)
LoginStep(p) == Open(p) \/ Truncate(p) \/ LogIn(p) \/ PollTimesOut(p)
LogoutStep(p) == Find(p) \/ Take(p) \/ Delete(p) \/ EndSession(p)

Next ==
  \/ \E p \in Processes :
       \/ StartGet(p) \/ StartLogin(p) \/ StartLogout(p)
       \/ GetStep(p) \/ SaveStep(p) \/ LoginStep(p) \/ LogoutStep(p)
       \/ Kill(p)
  \/ \E s \in TokenSets : Expire(s)

Spec == Init /\ [][Next]_vars

-----------------------------------------------------------------------------
(* Properties.                                                             *)

AllIdle == \A p \in Processes : Idle(p)

\* The cache has tokens that can be refreshed; or it is gone, which is what the code
\* makes of any answer of the provider but new tokens, or keys.
Cached == file.holds \in live \/ (refused /\ file = Absent)

\* save_cache, _refresh_auth_token: a login whose processes work one after the other
\* is kept for as long as nobody logs out and the provider serves what it could: between
\* calls the cache holds tokens that can be refreshed.  Once the provider has refused
\* to, that is still so or there is no cache: never one that is empty, spent or half
\* written.  Whatever crashes and overlaps have left, logging in again restores it.
LoginKept == kept /\ ~excused /\ AllIdle => Cached

\* get_valid_access_token and save_cache, however processes overlap: the cache
\* holds tokens that have been spent only while the process that spent them is
\* about to replace them, so that a login is not lost to a token stored late.
\* Exceptions are those the code cannot mend: a process killed or an answer
\* lost just then, and a session ended at the provider.
SpentIsReplaced ==
  file.holds \in live \cup {None} \/ file.holds.login \in ended
    \/ \E p \in Processes : pc[p] = "unlink" /\ held[p].login = file.holds.login
=============================================================================
