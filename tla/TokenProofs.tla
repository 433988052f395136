----------------------------- MODULE TokenProofs -----------------------------
(***************************************************************************)
(* Proofs that, however the processes of a user overlap, the cache holds   *)
(* spent tokens only while they are about to be replaced, and that a login *)
(* nothing disturbs is kept.                                               *)
(*                                                                         *)
(* SpentIsReplaced is not inductive: nothing in it keeps save_cache from   *)
(* writing a token that another process has spent meanwhile.  It cannot be *)
(* spent, because nobody else has it: a token set that is being saved was  *)
(* just issued, is not in the cache yet and is held by one process.  That  *)
(* is Fresh; that a new one is different from all before is Numbered.      *)
(*                                                                         *)
(* LoginKept only speaks of the time between calls.  Steadiness says where *)
(* the tokens are in the middle of one, for a process nobody interferes    *)
(* with (Sole).                                                            *)
(***************************************************************************)
EXTENDS SessionTokens, TLAPS

\* Where a process has token sets that were just issued.
Saving == {"unlink", "create", "write"}

\* Every token set in sight was issued.
Numbered ==
  /\ file.holds.number <= issued
  /\ \A p \in Processes : held[p].number <= issued

\* The token set a process is about to save is accepted, unless its session is
\* over, and only that process has it.
Fresh ==
  \A p \in Processes :
    pc[p] \in Saving =>
      /\ held[p] # file.holds
      /\ held[p] \in live \/ held[p].login \in ended
      /\ \A q \in Processes \ {p} :
           pc[q] \in Saving \cup {"refresh"} => held[q] # held[p]

TokensInv == TypeOK /\ Numbered /\ Fresh /\ SpentIsReplaced

\* The ends of a call move one process, which holds nothing afterwards.
LEMMA FailMoves ==
  ASSUME TypeOK, NEW p \in Processes, Fail(p)
  PROVE  \E l \in {"idle", "truncate"}, o \in Operations :
           /\ pc' = [pc EXCEPT ![p] = l] /\ op' = [op EXCEPT ![p] = o]
           /\ held' = [held EXCEPT ![p] = None]
<1> USE DEF TypeOK, Fail, Finish, Goto, Operations
<1>1. CASE op[p] = "login"
  <2>1. op' = [op EXCEPT ![p] = op[p]] /\ op[p] \in Operations
    BY <1>1
  <2> QED
    BY <1>1, <2>1
<1>2. CASE op[p] # "login"
  BY <1>2
<1> QED
  BY <1>1, <1>2

\* The steps of get_valid_access_token.
LEMMA GetKeepsTokens ==
  ASSUME TokensInv, NEW p \in Processes, GetStep(p)
  PROVE  TokensInv'
<1> USE TokensAssumption DEF TokensInv, TypeOK, TokenSets, None, Files, Locations, Operations,
        Goto, providerVars, historyVars
<1>1. CASE Load(p)
  <2>1. TypeOK'
    BY <1>1, ZenonT(30) DEF Load, OnExpiry, Loads, Finish
  <2>2. Numbered'
    BY <1>1 DEF Load, OnExpiry, Loads, Finish, Numbered
  <2>3. Fresh'
    BY <1>1 DEF Load, OnExpiry, Loads, Finish, Fresh, Saving
  <2>4. SpentIsReplaced'
    BY <1>1 DEF Load, OnExpiry, Loads, Finish, SpentIsReplaced
  <2> QED
    BY <2>1, <2>2, <2>3, <2>4
<1>2. CASE Reload(p)
  <2>1. TypeOK'
    <3>1. CASE StillLoads
      BY <1>2, <3>1 DEF Reload, StillLoads, Loads
    <3>2. CASE ~StillLoads
      <4>1. PICK l \in {"idle", "truncate"}, o \in Operations :
              /\ pc' = [pc EXCEPT ![p] = l] /\ op' = [op EXCEPT ![p] = o]
              /\ held' = [held EXCEPT ![p] = None]
        BY <1>2, <3>2, FailMoves DEF Reload
      <4> QED
        BY <1>2, <4>1 DEF Reload
    <3> QED
      BY <3>1, <3>2
  <2>2. Numbered'
    BY <1>2, FailMoves DEF Reload, StillLoads, Loads, Numbered
  <2>3. Fresh'
    BY <1>2, FailMoves DEF Reload, StillLoads, Loads, Fresh, Saving
  <2>4. SpentIsReplaced'
    BY <1>2, FailMoves DEF Reload, StillLoads, Loads, SpentIsReplaced
  <2> QED
    BY <2>1, <2>2, <2>3, <2>4
<1>3. CASE Refresh(p)
  <2>1. TypeOK'
    <3>1. CASE issued' = issued
      <4>1. refused' \in BOOLEAN
        BY <1>3 DEF Refresh
      <4>2. pc' = [pc EXCEPT ![p] = "discard"]
            /\ UNCHANGED <<op, held, file, live, expired, issued, kept, excused, ended>>
        BY <1>3, <3>1 DEF Refresh
      <4> QED
        BY <4>1, <4>2
    <3>2. CASE issued' # issued
      BY <1>3, <3>2 DEF Refresh, Renewed
    <3> QED
      BY <3>1, <3>2
  <2>2. Numbered'
    BY <1>3 DEF Refresh, Renewed, Numbered
  <2>3. Fresh'
    <3>1. CASE issued' # issued
      <4>1. held'[p] \in live' /\ held'[p].number = issued + 1
        BY <1>3, <3>1 DEF Refresh, Renewed
      <4>2. \A q \in Processes \ {p} :
              held'[q] = held[q] /\ pc'[q] = pc[q] /\ held'[p] # held[q]
        BY <1>3, <3>1, <4>1 DEF Refresh, Numbered
      <4>3. held'[p] # file'.holds
        BY <1>3, <4>1 DEF Refresh, Numbered
      <4>4. \A q \in Processes \ {p} :
              pc[q] \in Saving => held[q] # held[p] /\ (held[q] \in live => held[q] \in live')
        BY <1>3, <3>1 DEF Refresh, Fresh
      <4> QED
        BY <1>3, <3>1, <4>1, <4>2, <4>3, <4>4 DEF Refresh, Fresh
    <3>2. CASE issued' = issued
      BY <1>3, <3>2 DEF Refresh, Fresh, Saving
    <3> QED
      BY <3>1, <3>2
  <2>4. SpentIsReplaced'
    BY <1>3 DEF Refresh, Renewed, SpentIsReplaced
  <2> QED
    BY <2>1, <2>2, <2>3, <2>4
<1>4. CASE RefreshLost(p)
  <2>1. TypeOK'
    <3>1. PICK l \in {"idle", "truncate"}, o \in Operations :
            /\ pc' = [pc EXCEPT ![p] = l] /\ op' = [op EXCEPT ![p] = o]
            /\ held' = [held EXCEPT ![p] = None]
      BY <1>4, FailMoves DEF RefreshLost
    <3>2. held[p].login \in 1 .. MaxTokens
      BY <1>4 DEF RefreshLost
    <3> QED
      BY <1>4, <3>1, <3>2 DEF RefreshLost
  <2>2. Numbered'
    BY <1>4, FailMoves, SMTT(30) DEF RefreshLost, Numbered
  <2>3. Fresh'
    BY <1>4, FailMoves DEF RefreshLost, Fresh, Saving
  <2>4. SpentIsReplaced'
    BY <1>4, FailMoves DEF RefreshLost, SpentIsReplaced
  <2> QED
    BY <2>1, <2>2, <2>3, <2>4
<1>5. CASE Discard(p)
  <2>1. TypeOK'
    <3>1. PICK l \in {"idle", "truncate"}, o \in Operations :
            /\ pc' = [pc EXCEPT ![p] = l] /\ op' = [op EXCEPT ![p] = o]
            /\ held' = [held EXCEPT ![p] = None]
      BY <1>5, FailMoves DEF Discard
    <3>2. Absent \in Files
      BY DEF Absent
    <3> QED
      BY <1>5, <3>1, <3>2 DEF Discard
  <2>2. Numbered'
    BY <1>5, FailMoves DEF Discard, Absent, Numbered
  <2>3. Fresh'
    BY <1>5, FailMoves DEF Discard, Absent, Fresh, Saving
  <2>4. SpentIsReplaced'
    BY <1>5, FailMoves DEF Discard, Absent, SpentIsReplaced
  <2> QED
    BY <2>1, <2>2, <2>3, <2>4
<1> QED
  BY <1>1, <1>2, <1>3, <1>4, <1>5 DEF GetStep

\* The steps of save_cache.
LEMMA SaveKeepsTokens ==
  ASSUME TokensInv, NEW p \in Processes, SaveStep(p)
  PROVE  TokensInv'
<1> USE TokensAssumption DEF TokensInv, TypeOK, TokenSets, None, Files, Locations, Operations,
        Goto, providerVars, historyVars
<1>1. CASE Unlink(p)
  <2>1. TypeOK'
    BY <1>1 DEF Unlink, Absent
  <2>2. Numbered'
    BY <1>1 DEF Unlink, Absent, Numbered
  <2>3. Fresh'
    BY <1>1 DEF Unlink, Absent, Fresh, Saving
  <2>4. SpentIsReplaced'
    BY <1>1 DEF Unlink, Absent, SpentIsReplaced
  <2> QED
    BY <2>1, <2>2, <2>3, <2>4
<1>2. CASE Create(p)
  <2>1. TypeOK'
    <3>1. CASE file = Absent
      BY <1>2, <3>1 DEF Create
    <3>2. CASE file # Absent
      <4>1. PICK l \in {"idle", "truncate"}, o \in Operations :
              /\ pc' = [pc EXCEPT ![p] = l] /\ op' = [op EXCEPT ![p] = o]
              /\ held' = [held EXCEPT ![p] = None]
        BY <1>2, <3>2, FailMoves DEF Create
      <4> QED
        BY <1>2, <3>2, <4>1 DEF Create
    <3> QED
      BY <3>1, <3>2
  <2>2. Numbered'
    BY <1>2, FailMoves DEF Create, Absent, Numbered
  <2>3. Fresh'
    BY <1>2, FailMoves DEF Create, Absent, Fresh, Saving
  <2>4. SpentIsReplaced'
    BY <1>2, FailMoves DEF Create, Absent, SpentIsReplaced
  <2> QED
    BY <2>1, <2>2, <2>3, <2>4
<1>3. CASE Write(p)
  <2>1. TypeOK'
    BY <1>3 DEF Write
  <2>2. Numbered'
    BY <1>3 DEF Write, Numbered
  <2>3. Fresh'
    BY <1>3 DEF Write, Fresh, Saving
  <2>4. SpentIsReplaced'
    <3>1. CASE file.by = p
      <4>1. file'.holds = held[p]
        BY <1>3, <3>1 DEF Write
      <4>2. held[p] \in live \/ held[p].login \in ended
        BY <1>3 DEF Write, Fresh, Saving
      <4> QED
        BY <1>3, <4>1, <4>2 DEF Write, SpentIsReplaced
    <3>2. CASE file.by # p
      BY <1>3, <3>2 DEF Write, SpentIsReplaced
    <3> QED
      BY <3>1, <3>2
  <2> QED
    BY <2>1, <2>2, <2>3, <2>4
<1>4. CASE Chmod(p)
  <2>1. TypeOK'
    <3>1. CASE file = Absent
      <4>1. PICK l \in {"idle", "truncate"}, o \in Operations :
              /\ pc' = [pc EXCEPT ![p] = l] /\ op' = [op EXCEPT ![p] = o]
              /\ held' = [held EXCEPT ![p] = None]
        BY <1>4, <3>1, FailMoves DEF Chmod
      <4> QED
        BY <1>4, <4>1 DEF Chmod
    <3>2. CASE file # Absent
      BY <1>4, <3>2 DEF Chmod, Finish
    <3> QED
      BY <3>1, <3>2
  <2>2. Numbered'
    BY <1>4, FailMoves DEF Chmod, Finish, Absent, Numbered
  <2>3. Fresh'
    BY <1>4, FailMoves DEF Chmod, Finish, Absent, Fresh, Saving
  <2>4. SpentIsReplaced'
    BY <1>4, FailMoves DEF Chmod, Finish, Absent, SpentIsReplaced
  <2> QED
    BY <2>1, <2>2, <2>3, <2>4
<1> QED
  BY <1>1, <1>2, <1>3, <1>4 DEF SaveStep

\* The steps of login.
LEMMA LoginKeepsTokens ==
  ASSUME TokensInv, NEW p \in Processes, LoginStep(p)
  PROVE  TokensInv'
<1> USE TokensAssumption DEF TokensInv, TypeOK, TokenSets, None, Files, Locations, Operations,
        Goto, providerVars, historyVars
<1>1. CASE Open(p)
  <2>1. TypeOK'
    BY <1>1, FailMoves, SMTT(30) DEF Open, Loads
  <2>2. Numbered'
    BY <1>1, FailMoves DEF Open, Loads, Numbered
  <2>3. Fresh'
    BY <1>1, FailMoves DEF Open, Loads, Fresh, Saving
  <2>4. SpentIsReplaced'
    BY <1>1, FailMoves DEF Open, Loads, SpentIsReplaced
  <2> QED
    BY <2>1, <2>2, <2>3, <2>4
<1>2. CASE Truncate(p)
  <2>1. TypeOK'
    <3>1. CASE Finish(p) /\ UNCHANGED <<file, kept, excused, refused>>
      BY <1>2, <3>1 DEF Truncate, Finish
    <3>2. CASE pc' = [pc EXCEPT ![p] = "poll"]
      <4>1. excused' \in BOOLEAN /\ kept' \in BOOLEAN
        BY <1>2 DEF Truncate, Finish
      <4>2. file' \in [by: Processes \cup {NoProcess}, holds: TokenSets \cup {None}]
        BY <1>2 DEF Truncate
      <4> QED
        BY <1>2, <3>2, <4>1, <4>2 DEF Truncate, Finish
    <3> QED
      BY <1>2, <3>1, <3>2 DEF Truncate
  <2>2. Numbered'
    BY <1>2 DEF Truncate, Absent, Alone, Idle, Finish, Numbered
  <2>3. Fresh'
    BY <1>2 DEF Truncate, Absent, Alone, Idle, Finish, Fresh, Saving
  <2>4. SpentIsReplaced'
    BY <1>2 DEF Truncate, Absent, Alone, Idle, Finish, SpentIsReplaced
  <2> QED
    BY <2>1, <2>2, <2>3, <2>4
<1>3. CASE LogIn(p)
  <2>1. TypeOK'
    BY <1>3 DEF LogIn
  <2>2. Numbered'
    BY <1>3 DEF LogIn, Numbered
  <2>3. Fresh'
    <3>1. held'[p] \in live' /\ held'[p].number = issued + 1
      BY <1>3 DEF LogIn
    <3>2. \A q \in Processes \ {p} :
            held'[q] = held[q] /\ pc'[q] = pc[q] /\ held'[p] # held[q]
      BY <1>3, <3>1 DEF LogIn, Numbered
    <3>3. held'[p] # file'.holds
      BY <1>3, <3>1 DEF LogIn, Numbered
    <3> QED
      BY <1>3, <3>1, <3>2, <3>3 DEF LogIn, Fresh
  <2>4. SpentIsReplaced'
    BY <1>3 DEF LogIn, SpentIsReplaced
  <2> QED
    BY <2>1, <2>2, <2>3, <2>4
<1>4. CASE PollTimesOut(p)
  <2>1. TypeOK'
    BY <1>4 DEF PollTimesOut, Finish
  <2>2. Numbered'
    BY <1>4 DEF PollTimesOut, Finish, Numbered
  <2>3. Fresh'
    BY <1>4 DEF PollTimesOut, Finish, Fresh, Saving
  <2>4. SpentIsReplaced'
    BY <1>4 DEF PollTimesOut, Finish, SpentIsReplaced
  <2> QED
    BY <2>1, <2>2, <2>3, <2>4
<1> QED
  BY <1>1, <1>2, <1>3, <1>4 DEF LoginStep

\* The steps of logout.
LEMMA LogoutKeepsTokens ==
  ASSUME TokensInv, NEW p \in Processes, LogoutStep(p)
  PROVE  TokensInv'
<1> USE TokensAssumption DEF TokensInv, TypeOK, TokenSets, None, Files, Locations, Operations,
        Goto, providerVars, historyVars
<1>1. CASE Find(p)
  <2>1. TypeOK'
    BY <1>1, ZenonT(30) DEF Find, Loads, Finish
  <2>2. Numbered'
    BY <1>1 DEF Find, Loads, Finish, Numbered
  <2>3. Fresh'
    BY <1>1 DEF Find, Loads, Finish, Fresh, Saving
  <2>4. SpentIsReplaced'
    BY <1>1 DEF Find, Loads, Finish, SpentIsReplaced
  <2> QED
    BY <2>1, <2>2, <2>3, <2>4
<1>2. CASE Take(p)
  <2>1. TypeOK'
    BY <1>2 DEF Take, Loads, Finish
  <2>2. Numbered'
    BY <1>2 DEF Take, Loads, Finish, Numbered
  <2>3. Fresh'
    BY <1>2 DEF Take, Loads, Finish, Fresh, Saving
  <2>4. SpentIsReplaced'
    BY <1>2 DEF Take, Loads, Finish, SpentIsReplaced
  <2> QED
    BY <2>1, <2>2, <2>3, <2>4
<1>3. CASE Delete(p)
  <2>1. TypeOK'
    BY <1>3 DEF Delete, Absent
  <2>2. Numbered'
    BY <1>3 DEF Delete, Absent, Numbered
  <2>3. Fresh'
    BY <1>3 DEF Delete, Absent, Fresh, Saving
  <2>4. SpentIsReplaced'
    BY <1>3 DEF Delete, Absent, SpentIsReplaced
  <2> QED
    BY <2>1, <2>2, <2>3, <2>4
<1>4. CASE EndSession(p)
  <2>1. TypeOK'
    BY <1>4 DEF EndSession, Finish
  <2>2. Numbered'
    BY <1>4 DEF EndSession, Finish, Numbered
  <2>3. Fresh'
    BY <1>4 DEF EndSession, Finish, Fresh, Saving
  <2>4. SpentIsReplaced'
    BY <1>4 DEF EndSession, Finish, SpentIsReplaced
  <2> QED
    BY <2>1, <2>2, <2>3, <2>4
<1> QED
  BY <1>1, <1>2, <1>3, <1>4 DEF LogoutStep

\* A process begins an operation, or is killed; the clock goes on.
LEMMA OthersKeepTokens ==
  ASSUME TokensInv,
         \/ \E p \in Processes : StartGet(p) \/ StartLogin(p) \/ StartLogout(p) \/ Kill(p)
         \/ \E s \in TokenSets : Expire(s)
  PROVE  TokensInv'
<1> USE TokensAssumption DEF TokensInv, TypeOK, TokenSets, None, Files, Locations, Operations,
        Goto, providerVars, historyVars
<1>1. ASSUME NEW p \in Processes, StartGet(p) \/ StartLogin(p) \/ StartLogout(p)
      PROVE  TokensInv'
  <2>1. TypeOK'
    BY <1>1, ZenonT(30) DEF StartGet, StartLogin, StartLogout, Start, Alone, Idle
  <2>2. Numbered' /\ SpentIsReplaced'
    BY <1>1 DEF StartGet, StartLogin, StartLogout, Start, Idle, Numbered, SpentIsReplaced
  <2>3. Fresh'
    BY <1>1 DEF StartGet, StartLogin, StartLogout, Start, Idle, Fresh, Saving
  <2> QED
    BY <2>1, <2>2, <2>3
<1>2. ASSUME NEW p \in Processes, Kill(p)
      PROVE  TokensInv'
  <2>1. TypeOK'
    BY <1>2 DEF Kill, Finish
  <2>2. Numbered'
    BY <1>2 DEF Kill, Finish, Numbered
  <2>3. Fresh'
    BY <1>2 DEF Kill, Finish, Fresh, Saving
  <2>4. SpentIsReplaced'
    BY <1>2 DEF Kill, Finish, SpentIsReplaced
  <2> QED
    BY <2>1, <2>2, <2>3, <2>4
<1>3. ASSUME NEW s \in TokenSets, Expire(s)
      PROVE  TokensInv'
  BY <1>3 DEF Expire, processVars, Numbered, Fresh, Saving, SpentIsReplaced
<1> QED
  BY <1>1, <1>2, <1>3

\* A step preserves the invariant.
LEMMA TokensInductive == TokensInv /\ [Next]_vars => TokensInv'
<1> SUFFICES ASSUME TokensInv, [Next]_vars
             PROVE  TokensInv'
  OBVIOUS
<1>1. CASE UNCHANGED vars
  BY <1>1 DEF TokensInv, TypeOK, Numbered, Fresh, SpentIsReplaced, vars, processVars,
              providerVars, historyVars
<1>2. CASE Next
  BY <1>2, GetKeepsTokens, SaveKeepsTokens, LoginKeepsTokens, LogoutKeepsTokens,
     OthersKeepTokens DEF Next
<1> QED
  BY <1>1, <1>2

\* The invariant of the tokens.
THEOREM TokensInvariant == Spec => []TokensInv
<1>1. ASSUME Init
      PROVE  TokensInv
  <2>1. TypeOK
    <3>1. file \in Files /\ issued \in 0 .. MaxTokens
      BY <1>1, TokensAssumption DEF Init, Files, Absent
    <3> QED
      BY <1>1, <3>1 DEF Init, TypeOK, Locations, Operations
  <2>2. Numbered
    BY <1>1 DEF Init, Numbered, None, Absent
  <2>3. Fresh /\ SpentIsReplaced
    BY <1>1 DEF Init, Fresh, Saving, SpentIsReplaced, Absent
  <2> QED
    BY <2>1, <2>2, <2>3 DEF TokensInv
<1> QED
  BY <1>1, TokensInductive, PTL DEF Spec

\* get_valid_access_token and save_cache: what the processes, the cache file
\* and the provider hold is of the kind the code expects.
THEOREM TokenTypes == Spec => []TypeOK
<1>1. TokensInv => TypeOK
  BY DEF TokensInv
<1> QED
  BY <1>1, TokensInvariant, PTL

\* get_valid_access_token and save_cache, for any number of processes: the
\* cache holds spent tokens only while the process that spent them is about to
\* replace them, or their session cannot be saved any more.
THEOREM SpentTokensReplaced == Spec => []SpentIsReplaced
<1>1. TokensInv => SpentIsReplaced
  BY DEF TokensInv
<1> QED
  BY <1>1, TokensInvariant, PTL

-----------------------------------------------------------------------------
(* A login that nothing disturbs.                                          *)

\* Nobody else is in the middle of a call, or it was noticed.
Sole ==
  ~excused => \A p, q \in Processes : p # q => Idle(p) \/ Idle(q)

\* How a login that should be kept goes through a call: the cache holds its
\* tokens, or the process holds them and has just made way for the file; or the
\* provider has refused to serve, and the cache goes.
Steady(p) ==
  /\ pc[p] \in Locations \ {"idle", "find", "take", "delete", "end"}
  /\ pc[p] \in {"load", "open"} => Cached
  /\ pc[p] \in {"reload", "refresh", "chmod"} => file.holds \in live
  /\ pc[p] \in {"discard", "truncate"} => refused
  /\ pc[p] = "truncate" => file = Absent
  /\ pc[p] = "refresh" => held[p] = file.holds
  /\ pc[p] \in Saving => held[p] \in live
  /\ pc[p] = "create" => file = Absent
  /\ pc[p] = "write" => file.by = p
  /\ pc[p] = "poll" => ~kept

Steadiness ==
  \A p \in Processes : ~Idle(p) /\ ~excused /\ (kept \/ op[p] = "flow") => Steady(p)

FlowPlaces ==
  \A p \in Processes : op[p] = "flow" => pc[p] \in Saving \cup {"poll", "chmod"}

LoginInv == Sole /\ LoginKept /\ Steadiness /\ FlowPlaces

\* The steps of get_valid_access_token.
LEMMA GetKeepsLogin ==
  ASSUME TokensInv, LoginInv, NEW p \in Processes, GetStep(p)
  PROVE  LoginInv'
<1>a. None \notin live
  BY DEF TokensInv, TypeOK, TokenSets, None
<1>b. /\ pc \in [Processes -> Locations] /\ op \in [Processes -> Operations]
      /\ held \in [Processes -> TokenSets \cup {None}]
  BY DEF TokensInv, TypeOK
<1>c. Absent.holds = None
  BY DEF Absent
<1>d. ASSUME Fail(p)
      PROVE  \E l \in {"idle", "truncate"}, o \in Operations :
               /\ pc' = [pc EXCEPT ![p] = l] /\ op' = [op EXCEPT ![p] = o]
               /\ l = "truncate" => o = "login"
               /\ l = "idle" => o = "none"
  BY <1>b, <1>d DEF Fail, Finish, Goto, Operations
<1> USE <1>a, <1>b, <1>c DEF Cached, Locations, LoginInv, Goto, providerVars, historyVars, Idle, AllIdle
<1>1. CASE Load(p)
  <2>1. Sole'
    BY <1>1 DEF Load, OnExpiry, Loads, Finish, Sole
  <2>2. LoginKept'
    BY <1>1 DEF Load, OnExpiry, Loads, Finish, LoginKept, Steadiness, Steady, Sole
  <2>3. Steadiness'
    BY <1>1 DEF Load, OnExpiry, Loads, Finish, Steadiness, Steady, Sole, LoginKept, Saving
  <2>4. FlowPlaces'
    BY <1>1 DEF Load, OnExpiry, Loads, Finish, FlowPlaces, Saving
  <2> QED
    BY <2>1, <2>2, <2>3, <2>4
<1>2. CASE Reload(p)
  <2>1. Sole'
    BY <1>2, <1>d DEF Reload, StillLoads, Loads, Sole
  <2>2. LoginKept'
    BY <1>2, <1>d DEF Reload, StillLoads, Loads, LoginKept, Steadiness, Steady, Sole
  <2>3. Steadiness'
    BY <1>2, <1>d DEF Reload, StillLoads, Loads, Steadiness, Steady, Sole, LoginKept, Saving
  <2>4. FlowPlaces'
    BY <1>2, <1>d DEF Reload, StillLoads, Loads, FlowPlaces, Saving
  <2> QED
    BY <2>1, <2>2, <2>3, <2>4
<1>3. CASE Refresh(p)
  <2>1. Sole'
    BY <1>3 DEF Refresh, Renewed, Sole
  <2>2. LoginKept'
    BY <1>3 DEF Refresh, Renewed, LoginKept, Steadiness, Steady, Sole
  <2>3. Steadiness'
    <3>1. CASE issued' = issued
      <4>1. UNCHANGED <<held, live, file, op, kept, excused>> /\ Goto(p, "discard")
            /\ refused' = (refused \/ held[p] \in live) /\ pc[p] = "refresh"
        BY <1>3, <3>1 DEF Refresh, TokensInv, TypeOK
      <4>2. pc'[p] = "discard" /\ \A q \in Processes \ {p} : pc'[q] = pc[q]
        BY <4>1
      <4>3. ~excused /\ (kept \/ op[p] = "flow") => refused'
        BY <4>1 DEF Steadiness, Steady
      <4> QED
        BY <4>1, <4>2, <4>3 DEF Steadiness, Steady, Sole, Saving
    <3>2. CASE issued' # issued
      BY <1>3, <3>2 DEF Refresh, Renewed, Steadiness, Steady, Sole, Saving
    <3> QED
      BY <3>1, <3>2
  <2>4. FlowPlaces'
    BY <1>3 DEF Refresh, Renewed, FlowPlaces, Saving
  <2> QED
    BY <2>1, <2>2, <2>3, <2>4
<1>4. CASE RefreshLost(p)
  <2>1. Sole'
    BY <1>4, <1>d DEF RefreshLost, Sole
  <2>2. LoginKept'
    BY <1>4, <1>d DEF RefreshLost, LoginKept, Steadiness, Steady, Sole
  <2>3. Steadiness'
    BY <1>4, <1>d DEF RefreshLost, Steadiness, Steady, Sole, LoginKept, Saving
  <2>4. FlowPlaces'
    BY <1>4, <1>d DEF RefreshLost, FlowPlaces, Saving
  <2> QED
    BY <2>1, <2>2, <2>3, <2>4
<1>5. CASE Discard(p)
  <2>1. Sole'
    BY <1>5, <1>d DEF Discard, Sole
  <2>2. LoginKept'
    BY <1>5, <1>d DEF Discard, LoginKept, Steadiness, Steady, Sole
  <2>3. Steadiness'
    BY <1>5, <1>d DEF Discard, Steadiness, Steady, Sole, LoginKept, Saving
  <2>4. FlowPlaces'
    BY <1>5, <1>d DEF Discard, FlowPlaces, Saving
  <2> QED
    BY <2>1, <2>2, <2>3, <2>4
<1> QED
  BY <1>1, <1>2, <1>3, <1>4, <1>5 DEF GetStep

\* The steps of save_cache.
LEMMA SaveKeepsLogin ==
  ASSUME TokensInv, LoginInv, NEW p \in Processes, SaveStep(p)
  PROVE  LoginInv'
<1>a. None \notin live
  BY DEF TokensInv, TypeOK, TokenSets, None
<1>b. /\ pc \in [Processes -> Locations] /\ op \in [Processes -> Operations]
      /\ held \in [Processes -> TokenSets \cup {None}]
  BY DEF TokensInv, TypeOK
<1>c. Absent.holds = None
  BY DEF Absent
<1>d. ASSUME Fail(p)
      PROVE  \E l \in {"idle", "truncate"}, o \in Operations :
               /\ pc' = [pc EXCEPT ![p] = l] /\ op' = [op EXCEPT ![p] = o]
               /\ l = "truncate" => o = "login"
               /\ l = "idle" => o = "none"
  BY <1>b, <1>d DEF Fail, Finish, Goto, Operations
<1> USE <1>a, <1>b, <1>c DEF Cached, Locations, LoginInv, Goto, providerVars, historyVars, Idle, AllIdle
<1>1. CASE Unlink(p)
  <2>1. Sole'
    BY <1>1 DEF Unlink, Sole
  <2>2. LoginKept'
    BY <1>1 DEF Unlink, LoginKept, Steadiness, Steady, Sole
  <2>3. Steadiness'
    BY <1>1 DEF Unlink, Steadiness, Steady, Sole, LoginKept, Saving
  <2>4. FlowPlaces'
    BY <1>1 DEF Unlink, FlowPlaces, Saving
  <2> QED
    BY <2>1, <2>2, <2>3, <2>4
<1>2. CASE Create(p)
  <2>1. Sole'
    BY <1>2, <1>d DEF Create, Sole
  <2>2. LoginKept'
    BY <1>2, <1>d DEF Create, LoginKept, Steadiness, Steady, Sole
  <2>3. Steadiness'
    BY <1>2, <1>d DEF Create, Steadiness, Steady, Sole, LoginKept, Saving
  <2>4. FlowPlaces'
    BY <1>2, <1>d DEF Create, FlowPlaces, Saving
  <2> QED
    BY <2>1, <2>2, <2>3, <2>4
<1>3. CASE Write(p)
  <2>1. Sole'
    BY <1>3 DEF Write, Sole
  <2>2. LoginKept'
    BY <1>3 DEF Write, LoginKept, Steadiness, Steady, Sole
  <2>3. Steadiness'
    BY <1>3 DEF Write, Steadiness, Steady, Sole, LoginKept, Saving
  <2>4. FlowPlaces'
    BY <1>3 DEF Write, FlowPlaces, Saving
  <2> QED
    BY <2>1, <2>2, <2>3, <2>4
<1>4. CASE Chmod(p)
  <2>1. Sole'
    BY <1>4, <1>d DEF Chmod, Finish, Sole
  <2>2. LoginKept'
    BY <1>4, <1>d DEF Chmod, Finish, LoginKept, Steadiness, Steady, Sole
  <2>3. Steadiness'
    <3> SUFFICES ASSUME NEW q \in Processes, ~Idle(q)', ~excused', (kept \/ op[q] = "flow")'
                 PROVE  Steady(q)'
      BY DEF Steadiness
    <3>1. op'[p] # "flow" /\ excused' = excused /\ pc[p] = "chmod"
      BY <1>4, <1>d DEF Chmod, Finish, FlowPlaces, Saving
    <3>2. CASE q = p
      <4>1. kept \/ op[p] = "flow"
        BY <1>4, <3>1, <3>2 DEF Chmod
      <4>2. file.holds \in live
        BY <3>1, <4>1 DEF Steadiness, Steady
      <4> QED
        BY <1>4, <3>2, <4>2 DEF Chmod, Finish
    <3>3. CASE q # p
      BY <1>4, <1>d, <3>1, <3>3 DEF Chmod, Finish, Sole
    <3> QED
      BY <3>2, <3>3
  <2>4. FlowPlaces'
    BY <1>4, <1>d DEF Chmod, Finish, FlowPlaces, Saving
  <2> QED
    BY <2>1, <2>2, <2>3, <2>4
<1> QED
  BY <1>1, <1>2, <1>3, <1>4 DEF SaveStep

\* The steps of login.
LEMMA LoginKeepsLogin ==
  ASSUME TokensInv, LoginInv, NEW p \in Processes, LoginStep(p)
  PROVE  LoginInv'
<1>a. None \notin live
  BY DEF TokensInv, TypeOK, TokenSets, None
<1>b. /\ pc \in [Processes -> Locations] /\ op \in [Processes -> Operations]
      /\ held \in [Processes -> TokenSets \cup {None}]
  BY DEF TokensInv, TypeOK
<1>c. Absent.holds = None
  BY DEF Absent
<1>d. ASSUME Fail(p)
      PROVE  \E l \in {"idle", "truncate"}, o \in Operations :
               /\ pc' = [pc EXCEPT ![p] = l] /\ op' = [op EXCEPT ![p] = o]
               /\ l = "truncate" => o = "login"
               /\ l = "idle" => o = "none"
  BY <1>b, <1>d DEF Fail, Finish, Goto, Operations
<1> USE <1>a, <1>b, <1>c DEF Cached, Locations, LoginInv, Goto, providerVars, historyVars, Idle, AllIdle
<1>1. CASE Open(p)
  <2>1. Sole'
    BY <1>1, <1>d DEF Open, Loads, Sole
  <2>2. LoginKept'
    BY <1>1, <1>d DEF Open, Loads, LoginKept, Steadiness, Steady, Sole
  <2>3. Steadiness'
    BY <1>1, <1>d DEF Open, Loads, Steadiness, Steady, Sole, LoginKept, Saving
  <2>4. FlowPlaces'
    BY <1>1, <1>d DEF Open, Loads, FlowPlaces, Saving
  <2> QED
    BY <2>1, <2>2, <2>3, <2>4
<1>2. CASE Truncate(p)
  <2>1. Sole'
    <3>1. CASE Finish(p) /\ UNCHANGED <<file, kept, excused, refused>>
      BY <3>1 DEF Finish, Sole
    <3>2. CASE pc' = [pc EXCEPT ![p] = "poll"] /\ excused' = ~Alone(p)
      BY <3>2 DEF Alone, Sole
    <3> QED
      BY <1>2, <3>1, <3>2 DEF Truncate
  <2>2. LoginKept'
    BY <1>2 DEF Truncate, Alone, Finish, LoginKept, Steadiness, Steady, Sole
  <2>3. Steadiness'
    BY <1>2, ZenonT(30) DEF Truncate, Alone, Finish, Steadiness, Steady, Sole, LoginKept, Saving
  <2>4. FlowPlaces'
    BY <1>2 DEF Truncate, Alone, Finish, FlowPlaces, Saving
  <2> QED
    BY <2>1, <2>2, <2>3, <2>4
<1>3. CASE LogIn(p)
  <2>1. Sole'
    BY <1>3 DEF LogIn, Sole
  <2>2. LoginKept'
    BY <1>3 DEF LogIn, LoginKept, Steadiness, Steady, Sole
  <2>3. Steadiness'
    BY <1>3 DEF LogIn, Steadiness, Steady, Sole, LoginKept, Saving
  <2>4. FlowPlaces'
    BY <1>3 DEF LogIn, FlowPlaces, Saving
  <2> QED
    BY <2>1, <2>2, <2>3, <2>4
<1>4. CASE PollTimesOut(p)
  <2>1. Sole'
    BY <1>4 DEF PollTimesOut, Finish, Sole
  <2>2. LoginKept'
    BY <1>4 DEF PollTimesOut, Finish, LoginKept, Steadiness, Steady, Sole
  <2>3. Steadiness'
    BY <1>4 DEF PollTimesOut, Finish, Steadiness, Steady, Sole, LoginKept, Saving
  <2>4. FlowPlaces'
    BY <1>4 DEF PollTimesOut, Finish, FlowPlaces, Saving
  <2> QED
    BY <2>1, <2>2, <2>3, <2>4
<1> QED
  BY <1>1, <1>2, <1>3, <1>4 DEF LoginStep

\* The steps of logout.
LEMMA LogoutKeepsLogin ==
  ASSUME TokensInv, LoginInv, NEW p \in Processes, LogoutStep(p)
  PROVE  LoginInv'
<1>a. None \notin live
  BY DEF TokensInv, TypeOK, TokenSets, None
<1>b. /\ pc \in [Processes -> Locations] /\ op \in [Processes -> Operations]
      /\ held \in [Processes -> TokenSets \cup {None}]
  BY DEF TokensInv, TypeOK
<1>c. Absent.holds = None
  BY DEF Absent
<1>d. ASSUME Fail(p)
      PROVE  \E l \in {"idle", "truncate"}, o \in Operations :
               /\ pc' = [pc EXCEPT ![p] = l] /\ op' = [op EXCEPT ![p] = o]
               /\ l = "truncate" => o = "login"
               /\ l = "idle" => o = "none"
  BY <1>b, <1>d DEF Fail, Finish, Goto, Operations
<1> USE <1>a, <1>b, <1>c DEF Cached, Locations, LoginInv, Goto, providerVars, historyVars, Idle, AllIdle
<1>1. CASE Find(p)
  <2>1. Sole'
    BY <1>1 DEF Find, Loads, Finish, Sole
  <2>2. LoginKept'
    BY <1>1 DEF Find, Loads, Finish, LoginKept, Steadiness, Steady, Sole
  <2>3. Steadiness'
    BY <1>1 DEF Find, Loads, Finish, Steadiness, Steady, Sole, LoginKept, Saving
  <2>4. FlowPlaces'
    BY <1>1 DEF Find, Loads, Finish, FlowPlaces, Saving
  <2> QED
    BY <2>1, <2>2, <2>3, <2>4
<1>2. CASE Take(p)
  <2>1. Sole'
    BY <1>2 DEF Take, Loads, Finish, Sole
  <2>2. LoginKept'
    BY <1>2 DEF Take, Loads, Finish, LoginKept, Steadiness, Steady, Sole
  <2>3. Steadiness'
    BY <1>2 DEF Take, Loads, Finish, Steadiness, Steady, Sole, LoginKept, Saving
  <2>4. FlowPlaces'
    BY <1>2 DEF Take, Loads, Finish, FlowPlaces, Saving
  <2> QED
    BY <2>1, <2>2, <2>3, <2>4
<1>3. CASE Delete(p)
  <2>1. Sole'
    BY <1>3 DEF Delete, Sole
  <2>2. LoginKept'
    BY <1>3 DEF Delete, LoginKept, Steadiness, Steady, Sole
  <2>3. Steadiness'
    BY <1>3 DEF Delete, Steadiness, Steady, Sole, LoginKept, Saving
  <2>4. FlowPlaces'
    BY <1>3 DEF Delete, FlowPlaces, Saving
  <2> QED
    BY <2>1, <2>2, <2>3, <2>4
<1>4. CASE EndSession(p)
  <2>1. Sole'
    BY <1>4 DEF EndSession, Finish, Sole
  <2>2. LoginKept'
    BY <1>4 DEF EndSession, Finish, LoginKept, Steadiness, Steady, Sole
  <2>3. Steadiness'
    BY <1>4 DEF EndSession, Finish, Steadiness, Steady, Sole, LoginKept, Saving
  <2>4. FlowPlaces'
    BY <1>4 DEF EndSession, Finish, FlowPlaces, Saving
  <2> QED
    BY <2>1, <2>2, <2>3, <2>4
<1> QED
  BY <1>1, <1>2, <1>3, <1>4 DEF LogoutStep

\* A process begins an operation, or is killed; the clock goes on.
LEMMA OthersKeepLogin ==
  ASSUME TokensInv, LoginInv,
         \/ \E p \in Processes : StartGet(p) \/ StartLogin(p) \/ StartLogout(p) \/ Kill(p)
         \/ \E s \in TokenSets : Expire(s)
  PROVE  LoginInv'
<1>a. /\ pc \in [Processes -> Locations] /\ op \in [Processes -> Operations]
      /\ held \in [Processes -> TokenSets \cup {None}]
  BY DEF TokensInv, TypeOK
<1> USE <1>a DEF Cached, Locations, LoginInv, Goto, providerVars, historyVars, Idle, AllIdle
<1>1. ASSUME NEW p \in Processes, StartGet(p) \/ StartLogin(p)
      PROVE  LoginInv'
  <2>0. PICK l \in {"load", "open"}, o \in {"get", "login"} :
          /\ pc[p] = "idle" /\ pc' = [pc EXCEPT ![p] = l] /\ op' = [op EXCEPT ![p] = o]
          /\ excused' = (excused \/ ~Alone(p))
          /\ UNCHANGED <<held, file, live, kept, refused>>
    BY <1>1 DEF StartGet, StartLogin, Start
  <2>1. Sole'
    BY <2>0 DEF Alone, Sole
  <2>2. LoginKept'
    BY <1>1 DEF StartGet, StartLogin, Start, LoginKept
  <2>3. Steadiness'
    <3>1. ~excused' => \A q \in Processes \ {p} : pc[q] = "idle" /\ pc'[q] = "idle"
      BY <2>0 DEF Alone
    <3>2. ~excused' /\ kept => Cached
      BY <2>0, <3>1 DEF LoginKept
    <3> QED
      BY <2>0, <3>1, <3>2 DEF Steadiness, Steady, Saving
  <2>4. FlowPlaces'
    BY <1>1 DEF StartGet, StartLogin, Start, FlowPlaces, Saving
  <2> QED
    BY <2>1, <2>2, <2>3, <2>4
<1>2. ASSUME NEW p \in Processes, StartLogout(p)
      PROVE  LoginInv'
  <2>1. Sole'
    BY <1>2 DEF StartLogout, Start, Alone, Sole
  <2>2. LoginKept' /\ FlowPlaces'
    BY <1>2 DEF StartLogout, Start, LoginKept, FlowPlaces, Saving
  <2>3. Steadiness'
    BY <1>2 DEF StartLogout, Start, Steadiness, Steady, Saving
  <2> QED
    BY <2>1, <2>2, <2>3
<1>3. ASSUME NEW p \in Processes, Kill(p)
      PROVE  LoginInv'
  BY <1>3 DEF Kill, Finish, Sole, LoginKept, Steadiness, FlowPlaces, Saving
<1>4. ASSUME NEW s \in TokenSets, Expire(s)
      PROVE  LoginInv'
  BY <1>4 DEF Expire, processVars, Sole, LoginKept, Steadiness, Steady, FlowPlaces, Saving
<1> QED
  BY <1>1, <1>2, <1>3, <1>4

\* A step preserves it.
LEMMA LoginInductive == TokensInv /\ LoginInv /\ [Next]_vars => LoginInv'
<1> SUFFICES ASSUME TokensInv, LoginInv, [Next]_vars
             PROVE  LoginInv'
  OBVIOUS
<1>1. CASE UNCHANGED vars
  BY <1>1 DEF LoginInv, Sole, LoginKept, Cached, AllIdle, Idle, Steadiness, Steady, FlowPlaces,
              vars, processVars, providerVars, historyVars
<1>2. CASE Next
  BY <1>2, GetKeepsLogin, SaveKeepsLogin, LoginKeepsLogin, LogoutKeepsLogin,
     OthersKeepLogin DEF Next
<1> QED
  BY <1>1, <1>2

\* login, save_cache and get_valid_access_token, for any number of processes and
\* tokens: a login whose processes work one after the other is kept until somebody
\* logs out or the provider refuses to serve it, after which it is kept or the cache is
\* gone; and a new login restores it after whatever has happened.
THEOREM LoginStaysKept == Spec => []LoginKept
<1>1. Init => LoginInv
  BY DEF Init, LoginInv, Sole, LoginKept, Idle, Steadiness, FlowPlaces
<1>2. LoginInv => LoginKept
  BY DEF LoginInv
<1> QED
  BY <1>1, <1>2, TokensInvariant, LoginInductive, PTL DEF Spec
==============================================================================
