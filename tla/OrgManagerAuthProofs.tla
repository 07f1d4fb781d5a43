------------------------ MODULE OrgManagerAuthProofs ------------------------
(***************************************************************************)
(* Proofs about OrgManagerAuth, for any number of requests, any cache TTL, *)
(* token lifetime and timeout of the manager check.  IndInv is inductive.  *)
(* CachedAnswerIsReal alone is not: the answer that enters the cache may   *)
(* be overtaken while it is on its way, so the invariant also says how     *)
(* long ago that can have been (LateAnswerIsRecent).  Nor is               *)
(* RetryCarriesNewToken, which looks at the answer only: the token a retry *)
(* carries is one it minted itself (SecondTokenNew).                       *)
(***************************************************************************)
EXTENDS OrgManagerAuth, TLAPS

\* An answer is on its way only to a request that waits for it.
AnswersBelong == \A r \in Requests : reply[r] # None => pc[r] = "check"

\* An answer overtaken by a change of role was so within the time its call
\* has spent.
LateAnswerIsRecent ==
    \A r \in Requests :
        reply[r] # None /\ reply[r] \in {"true", "false"} /\ (reply[r] = "true") # manager
            => since + patience[r] <= MaxCheck

EntryIsRecent ==
    Cached /\ entry.val # manager => since + entry.left <= MaxCheck + CacheTTL

\* _token_lock is held just by the request that mints.
OneMint ==
    /\ \A r \in Requests : pc[r] = "mint" => lock = r
    /\ lock # None => pc[lock] = "mint"

\* A second attempt waits for a token, mints one or carries one, and that one
\* was accepted when it was minted.
SecondTokenNew ==
    \A r \in Requests : attempt[r] = 2 =>
        /\ pc[r] \in {"token"} \cup InFlight
        /\ pc[r] = "check" /\ ~carried[r] => r \in struck
        /\ reply[r] = "401" => r \in struck

IndInv ==
    /\ TypeOK
    /\ AnswersBelong
    /\ LateAnswerIsRecent
    /\ EntryIsRecent
    /\ OneMint
    /\ SecondTokenNew

Places == {"idle", "get", "token", "probe", "probe_other"} \cup InFlight \cup Ended

-----------------------------------------------------------------------------
(* Steps of one request                                                    *)

\* A request that goes from one place to another, neither of them a call in
\* flight, disturbs nothing (is_org_manager's cache hit, the two probes).
LEMMA MovesOn ==
    ASSUME IndInv, NEW r \in Requests, NEW where \in Places \ InFlight,
           pc[r] \notin {"token"} \cup InFlight, Goto(r, where),
           UNCHANGED <<upstream, entry, token, lock, attempt, carried, reply, patience, struck>>
    PROVE  IndInv'
<1>1. TypeOK'
  BY DEF IndInv, TypeOK, Goto, Places, upstream
<1>2. AnswersBelong'
  BY DEF IndInv, TypeOK, Goto, AnswersBelong, InFlight
<1>3. LateAnswerIsRecent' /\ EntryIsRecent'
  BY DEF IndInv, LateAnswerIsRecent, EntryIsRecent, Cached, upstream
<1>4. OneMint'
  BY AuthAssumption DEF IndInv, TypeOK, OneMint, Goto, InFlight, AuthAssumption
<1>5. SecondTokenNew'
  BY DEF IndInv, TypeOK, SecondTokenNew, Goto
<1> QED
  BY <1>1, <1>2, <1>3, <1>4, <1>5 DEF IndInv

\* The GET of the manager check goes out with nothing on its way back, the
\* token lock released if the request held it (_request_manager_check); on a
\* second attempt its token is good.
LEMMA CallGoesOut ==
    ASSUME IndInv, NEW r \in Requests, NEW good \in BOOLEAN, Send(r, good),
           reply[r] = None, good \/ attempt[r] = 1,
           token' = None \/ token' \in [left : 0..TokenLife, good : BOOLEAN],
           lock' = (IF pc[r] = "mint" THEN None ELSE lock),
           UNCHANGED <<upstream, entry, attempt, reply, struck>>
    PROVE  IndInv'
<1>0. MaxCheck \in 0..MaxCheck
  BY AuthAssumption DEF AuthAssumption
<1>1. TypeOK'
  BY <1>0 DEF IndInv, TypeOK, Send, Goto, upstream, InFlight
<1>2. AnswersBelong'
  BY DEF IndInv, TypeOK, Send, Goto, AnswersBelong
<1>3. LateAnswerIsRecent' /\ EntryIsRecent'
  BY DEF IndInv, TypeOK, LateAnswerIsRecent, EntryIsRecent, Cached, Send, upstream
<1>4. OneMint'
  BY AuthAssumption DEF IndInv, TypeOK, OneMint, Send, Goto, AuthAssumption
<1>5. SecondTokenNew'
  BY AuthAssumption DEF IndInv, TypeOK, SecondTokenNew, Send, Goto, InFlight
<1> QED
  BY <1>1, <1>2, <1>3, <1>4, <1>5 DEF IndInv

\* A call ends, whatever becomes of the request, unless an answer was cached.
LEMMA CallEnds ==
    ASSUME IndInv, NEW r \in Requests, NEW where \in Places \ InFlight,
           pc[r] \in InFlight, Goto(r, where), EndCall(r),
           NEW n \in {1, 2}, attempt' = [attempt EXCEPT ![r] = n], n = 2 => where = "token",
           lock' = (IF lock = r THEN None ELSE lock),
           entry' = None \/ entry' \in [val : BOOLEAN, left : 1..CacheTTL],
           EntryIsRecent',
           UNCHANGED <<upstream, token>>
    PROVE  IndInv'
<1>1. TypeOK'
  BY AuthAssumption DEF IndInv, TypeOK, Goto, EndCall, Places, upstream, AuthAssumption
<1>2. AnswersBelong'
  BY DEF IndInv, TypeOK, Goto, EndCall, AnswersBelong
<1>3. LateAnswerIsRecent'
  BY DEF IndInv, TypeOK, LateAnswerIsRecent, EndCall, upstream
<1>4. OneMint'
  BY AuthAssumption DEF IndInv, TypeOK, OneMint, Goto, AuthAssumption, InFlight
<1>5. SecondTokenNew'
  BY AuthAssumption DEF IndInv, TypeOK, SecondTokenNew, Goto, EndCall, AuthAssumption, Replies
<1> QED
  BY <1>1, <1>2, <1>3, <1>4, <1>5 DEF IndInv

-----------------------------------------------------------------------------
(* One lemma per action that is more than a move                           *)

\* require_org_manager up to its first await.
LEMMA RequestInv ==
    ASSUME IndInv, NEW r \in Requests, NEW who \in {"outsider", "nameless", "member"}, Request(r, who)
    PROVE  IndInv'
<1>1. pc[r] \notin {"token"} \cup InFlight /\ reply[r] = None /\ attempt[r] = 1
  BY DEF Request, IndInv, TypeOK, AnswersBelong, SecondTokenNew, InFlight, Ended
<1>2. CASE (Goto(r, "not_member") \/ Goto(r, "not_manager")) /\ UNCHANGED <<carried, patience>>
  BY <1>1, <1>2, MovesOn DEF Request, Places, Ended, InFlight
<1>3. CASE Goto(r, "get") /\ UNCHANGED <<carried, patience>>
  BY <1>1, <1>3, MovesOn DEF Request, Places, Ended, InFlight
<1>4. CASE Goto(r, "token") /\ UNCHANGED <<carried, patience>>
  BY <1>1, <1>4, MovesOn DEF Request, Places, Ended, InFlight
<1>5. CASE TokenIsFresh /\ Send(r, token.good)
  <2>1. token.good \in BOOLEAN
    BY <1>5 DEF IndInv, TypeOK, TokenIsFresh
  <2> QED
    BY <1>1, <1>5, <2>1, CallGoesOut DEF Request, IndInv, TypeOK, InFlight
<1> QED
  BY <1>2, <1>3, <1>4, <1>5 DEF Request

\* The cached answer decides (return _cache[cache_key]).
LEMMA GetInv ==
    ASSUME IndInv, NEW r \in Requests, Get(r)
    PROVE  IndInv'
<1>1. PICK where \in {"probe", "not_manager", "keyerror"} : Goto(r, where)
  BY DEF Get, Decide
<1> QED
  BY <1>1, MovesOn DEF Get, Places, Ended, InFlight

\* _access_token() inside the lock.
LEMMA EnterLockInv ==
    ASSUME IndInv, NEW r \in Requests, EnterLock(r)
    PROVE  IndInv'
<1>1. pc[r] = "token" /\ reply[r] = None /\ lock = None
  BY DEF EnterLock, IndInv, AnswersBelong
<1>2. CASE attempt[r] = 1 /\ TokenIsFresh /\ Send(r, token.good) /\ UNCHANGED lock
  <2>1. token.good \in BOOLEAN
    BY <1>2 DEF IndInv, TypeOK, TokenIsFresh
  <2> QED
    BY <1>1, <1>2, <2>1, CallGoesOut DEF EnterLock, IndInv, TypeOK
<1>3. CASE /\ lock' = r /\ Goto(r, "mint")
           /\ patience' = [patience EXCEPT ![r] = MaxCheck] /\ UNCHANGED carried
  <2>0. MaxCheck \in 0..MaxCheck
    BY AuthAssumption DEF AuthAssumption
  <2>1. TypeOK'
    BY <1>3, <2>0 DEF EnterLock, IndInv, TypeOK, Goto, upstream, InFlight
  <2>2. AnswersBelong'
    BY <1>1, <1>3 DEF EnterLock, IndInv, TypeOK, Goto, AnswersBelong
  <2>3. LateAnswerIsRecent' /\ EntryIsRecent'
    BY <1>1, <1>3 DEF EnterLock, IndInv, TypeOK, LateAnswerIsRecent, EntryIsRecent,
       Cached, upstream
  <2>4. OneMint'
    BY <1>1, <1>3, AuthAssumption DEF IndInv, TypeOK, OneMint, Goto, AuthAssumption
  <2>5. SecondTokenNew'
    BY <1>3 DEF EnterLock, IndInv, TypeOK, SecondTokenNew, Goto, InFlight
  <2> QED
    BY <2>1, <2>2, <2>3, <2>4, <2>5 DEF IndInv
<1> QED
  BY <1>2, <1>3 DEF EnterLock

\* _fetch_token() succeeds and the check goes out with the new token.
LEMMA MintedInv ==
    ASSUME IndInv, NEW r \in Requests, NEW life \in {0, TokenLife}, Minted(r, life)
    PROVE  IndInv'
<1>1. pc[r] = "mint" /\ reply[r] = None
  BY DEF Minted, IndInv, AnswersBelong
<1>2. life \in 0..TokenLife
  BY AuthAssumption DEF AuthAssumption
<1> QED
  BY <1>1, <1>2, CallGoesOut DEF Minted

\* A call to MITx Online that fails.
LEMMA CallFailsInv ==
    ASSUME IndInv, NEW r \in Requests, NEW how \in {"bad_gateway", "unreachable", "crashed"},
           CallFails(r, how)
    PROVE  IndInv'
<1>1. how \in Places \ InFlight
  BY DEF Places, Ended, InFlight
<1>2. EntryIsRecent'
  BY DEF CallFails, IndInv, EntryIsRecent, Cached, upstream
<1>3. entry' = None \/ entry' \in [val : BOOLEAN, left : 1..CacheTTL]
  BY DEF CallFails, IndInv, TypeOK
<1>4. /\ pc[r] \in InFlight /\ Goto(r, how) /\ EndCall(r)
      /\ attempt' = [attempt EXCEPT ![r] = 1] /\ 1 \in {1, 2} /\ (1 = 2 => how = "token")
      /\ lock' = (IF lock = r THEN None ELSE lock) /\ UNCHANGED <<upstream, token>>
  BY DEF CallFails
<1> QED
  BY <1>1, <1>2, <1>3, <1>4, CallEnds

\* The answer of the manager check: a Boolean enters the cache, no later
\* after a change of role than the call lasted.
LEMMA ReceiveInv ==
    ASSUME IndInv, NEW r \in Requests, Receive(r)
    PROVE  IndInv'
<1>1. pc[r] = "check" /\ reply[r] # None /\ lock # r /\ lock' = lock
  BY AuthAssumption DEF Receive, IndInv, OneMint, AuthAssumption
<1>2. PICK where \in {"token", "bad_gateway", "crashed", "probe", "not_manager"} : Goto(r, where)
  BY DEF Receive, Decide
<1>3. PICK n \in {1, 2} : attempt' = [attempt EXCEPT ![r] = n] /\ (n = 2 => where = "token")
  <2>1. pc'[r] = where
    BY <1>2 DEF Goto, IndInv, TypeOK
  <2>2. CASE where = "token"
    <3> attempt' = [attempt EXCEPT ![r] = 2]
      BY <2>1, <2>2 DEF Receive
    <3> QED
      BY <2>2
  <2>3. CASE where # "token"
    <3> attempt' = [attempt EXCEPT ![r] = 1]
      BY <2>1, <2>3 DEF Receive
    <3> QED
      OBVIOUS
  <2> QED
    BY <2>2, <2>3
<1>4. /\ entry' = None \/ entry' \in [val : BOOLEAN, left : 1..CacheTTL]
      /\ EntryIsRecent'
  <2>1. CASE UNCHANGED entry
    BY <2>1 DEF Receive, IndInv, TypeOK, EntryIsRecent, Cached, upstream
  <2>2. CASE reply[r] \in {"true", "false"}
             /\ entry' = [val |-> reply[r] = "true", left |-> CacheTTL]
    <3>1. CacheTTL \in 1..CacheTTL /\ CacheTTL \in Nat /\ MaxCheck \in Nat
      BY AuthAssumption DEF AuthAssumption
    <3>2. (reply[r] = "true") # manager => since + patience[r] <= MaxCheck
      BY <1>1, <2>2 DEF IndInv, LateAnswerIsRecent
    <3>3. patience[r] \in Nat /\ since \in Nat
      BY DEF IndInv, TypeOK
    <3> QED
      BY <2>2, <3>1, <3>2, <3>3 DEF Receive, EntryIsRecent, Cached, upstream
  <2> QED
    BY <2>1, <2>2 DEF Receive
<1>5. where \in Places \ InFlight /\ pc[r] \in InFlight
  BY <1>1 DEF Places, Ended, InFlight
<1> QED
  BY <1>1, <1>2, <1>3, <1>4, <1>5, CallEnds DEF Receive

\* The probes of the warehouse.
LEMMA ProbesInv ==
    ASSUME IndInv, NEW r \in Requests,
           \/ \E named \in BOOLEAN : Probe(r, named)
           \/ ProbeOther(r)
           \/ ProbeFails(r)
    PROVE  IndInv'
<1>1. PICK where \in {"ok", "probe_other", "not_loaded", "not_yours", "db_error"} :
         Goto(r, where)
  BY DEF Probe, ProbeOther, ProbeFails
<1>2. pc[r] \notin {"token"} \cup InFlight
  BY DEF Probe, ProbeOther, ProbeFails, InFlight
<1>3. UNCHANGED <<upstream, entry, token, lock, attempt, carried, reply, patience, struck>>
  BY DEF Probe, ProbeOther, ProbeFails
<1>4. where \in Places \ InFlight
  BY DEF Places, Ended, InFlight
<1> QED
  BY <1>1, <1>2, <1>3, <1>4, MovesOn

-----------------------------------------------------------------------------
(* The environment                                                         *)

\* An answer is true when it is given.
LEMMA ReplyInv ==
    ASSUME IndInv, NEW r \in Requests, NEW odd \in {None, "odd", "garbage", "error"},
           Reply(r, odd)
    PROVE  IndInv'
<1>1. TypeOK'
  BY DEF Reply, IndInv, TypeOK, Replies, upstream
<1>2. AnswersBelong'
  BY DEF Reply, IndInv, TypeOK, AnswersBelong
<1>3. LateAnswerIsRecent'
  <2> SUFFICES ASSUME NEW q \in Requests, reply'[q] # None, reply'[q] \in {"true", "false"},
                      (reply'[q] = "true") # manager
               PROVE  since + patience[q] <= MaxCheck
    BY DEF LateAnswerIsRecent, Reply, upstream
  <2>1. CASE q = r
    <3>1. manager \in BOOLEAN
      BY DEF IndInv, TypeOK
    <3>2. reply'[r] = IF manager THEN "true" ELSE "false"
      BY <2>1 DEF Reply, IndInv, TypeOK
    <3> QED
      BY <2>1, <3>1, <3>2
  <2>2. CASE q # r
    BY <2>2 DEF Reply, IndInv, TypeOK, LateAnswerIsRecent
  <2> QED
    BY <2>1, <2>2
<1>4. EntryIsRecent' /\ OneMint'
  BY DEF Reply, IndInv, EntryIsRecent, OneMint, Cached, upstream
<1>5. SecondTokenNew'
  BY AuthAssumption DEF Reply, IndInv, TypeOK, SecondTokenNew, AuthAssumption, Replies
<1> QED
  BY <1>1, <1>2, <1>3, <1>4, <1>5 DEF IndInv

\* A change of role overtakes whatever is cached or on its way, just now.
LEMMA ChangeRoleInv ==
    ASSUME IndInv, ChangeRole
    PROVE  IndInv'
<1>1. CacheTTL \in Nat /\ MaxCheck \in Nat /\ Settled \in Nat
  BY AuthAssumption DEF AuthAssumption, Settled
<1>2. TypeOK'
  BY <1>1 DEF ChangeRole, IndInv, TypeOK, reqVars
<1>3. LateAnswerIsRecent'
  BY <1>1 DEF ChangeRole, IndInv, TypeOK, LateAnswerIsRecent, reqVars
<1>4. EntryIsRecent'
  BY <1>1 DEF ChangeRole, IndInv, TypeOK, EntryIsRecent, Cached
<1>5. AnswersBelong' /\ OneMint' /\ SecondTokenNew'
  BY DEF ChangeRole, IndInv, AnswersBelong, OneMint, SecondTokenNew, reqVars
<1> QED
  BY <1>2, <1>3, <1>4, <1>5 DEF IndInv

\* A load leaves all of it alone; when tokens are revoked, a second attempt in
\* flight is struck.
LEMMA LoadInv ==
    ASSUME IndInv, Load \/ RevokeTokens
    PROVE  IndInv'
<1>1. UNCHANGED <<manager, since, owner, entry, lock, pc, attempt, reply, patience>>
  BY DEF Load, RevokeTokens, reqVars, upstream
<1>2. TypeOK'
  <2>1. CASE Load
    BY <2>1 DEF Load, IndInv, TypeOK, reqVars
  <2>2. CASE RevokeTokens
    BY <2>2 DEF RevokeTokens, IndInv, TypeOK, upstream
  <2> QED
    BY <2>1, <2>2
<1>3. SecondTokenNew'
  BY <1>1 DEF Load, RevokeTokens, IndInv, TypeOK, SecondTokenNew, reqVars
<1> QED
  BY <1>1, <1>2, <1>3 DEF IndInv, AnswersBelong, LateAnswerIsRecent, EntryIsRecent, OneMint,
     Cached

\* Time passes: every entry and every call ages as fast as the change of role.
LEMMA TickInv ==
    ASSUME IndInv, Tick
    PROVE  IndInv'
<1>1. CacheTTL \in Nat /\ TokenLife \in Nat /\ MaxCheck \in Nat /\ Settled \in Nat
  BY AuthAssumption DEF AuthAssumption, Settled
<1>2. since' \in 0..Settled /\ since' <= since + 1
  BY <1>1 DEF Tick, IndInv, TypeOK
<1>3. /\ entry' = None \/ entry' \in [val : BOOLEAN, left : 1..CacheTTL]
      /\ entry' # None => Cached /\ entry'.val = entry.val /\ entry'.left = entry.left - 1
  BY <1>1 DEF Tick, IndInv, TypeOK, Cached
<1>4. token' = None \/ token' \in [left : 0..TokenLife, good : BOOLEAN]
  BY <1>1 DEF Tick, IndInv, TypeOK, Less
<1>5. patience' \in [Requests -> 0..MaxCheck]
  BY <1>1 DEF Tick, IndInv, TypeOK, Less
<1>6. TypeOK'
  BY <1>2, <1>3, <1>4, <1>5 DEF Tick, IndInv, TypeOK
<1>7. LateAnswerIsRecent'
  <2> SUFFICES ASSUME NEW r \in Requests, reply[r] # None, reply[r] \in {"true", "false"},
                      (reply[r] = "true") # manager
               PROVE  since' + patience'[r] <= MaxCheck
    BY DEF LateAnswerIsRecent, Tick
  <2>1. patience[r] > 0 /\ since + patience[r] <= MaxCheck
    BY DEF Tick, IndInv, AnswersBelong, LateAnswerIsRecent, InFlight
  <2>2. patience'[r] = patience[r] - 1 /\ patience[r] \in Nat
    BY <1>1, <2>1 DEF Tick, Less, IndInv, TypeOK
  <2>3. since \in Nat
    BY <1>1 DEF IndInv, TypeOK
  <2> QED
    BY <1>1, <1>2, <2>1, <2>2, <2>3
<1>8. EntryIsRecent'
  <2> SUFFICES ASSUME entry' # None, entry'.val # manager
               PROVE  since' + entry'.left <= MaxCheck + CacheTTL
    BY DEF EntryIsRecent, Cached, Tick
  <2>1. since + entry.left <= MaxCheck + CacheTTL
    BY <1>3 DEF IndInv, EntryIsRecent
  <2>2. entry.left \in Nat /\ since \in Nat
    BY <1>1, <1>3 DEF IndInv, TypeOK, Cached
  <2> QED
    BY <1>1, <1>2, <1>3, <2>1, <2>2
<1>9. AnswersBelong' /\ OneMint' /\ SecondTokenNew'
  BY DEF Tick, IndInv, AnswersBelong, OneMint, SecondTokenNew
<1> QED
  BY <1>6, <1>7, <1>8, <1>9 DEF IndInv

-----------------------------------------------------------------------------
(* Theorems                                                                *)

\* The inductive invariant holds in every behaviour of the authorization.
THEOREM IndInvHolds == Spec => []IndInv
<1>1. Init => IndInv
  <2> SUFFICES ASSUME Init PROVE IndInv
    OBVIOUS
  <2>1. TypeOK
    BY AuthAssumption DEF Init, TypeOK, AuthAssumption, Settled
  <2> QED
    BY <2>1, AuthAssumption DEF Init, IndInv, AnswersBelong, LateAnswerIsRecent, EntryIsRecent,
       OneMint, SecondTokenNew, Cached, AuthAssumption
<1>2. IndInv /\ [Next]_vars => IndInv'
  <2> SUFFICES ASSUME IndInv, [Next]_vars PROVE IndInv'
    OBVIOUS
  <2>1. ASSUME NEW r \in Requests, \E who \in {"outsider", "nameless", "member"} : Request(r, who)
        PROVE  IndInv'
    BY <2>1, RequestInv
  <2>2. ASSUME NEW r \in Requests, ServiceStep(r)
        PROVE  IndInv'
    BY <2>2, GetInv, EnterLockInv, ReceiveInv, MintedInv, CallFailsInv, ProbesInv DEF ServiceStep
  <2>3. ASSUME NEW r \in Requests, \E odd \in {None, "odd", "garbage", "error"} : Reply(r, odd)
        PROVE  IndInv'
    BY <2>3, ReplyInv
  <2>4. CASE ChangeRole
    BY <2>4, ChangeRoleInv
  <2>5. CASE RevokeTokens \/ Load
    BY <2>5, LoadInv
  <2>6. CASE Tick
    BY <2>6, TickInv
  <2>7. CASE UNCHANGED vars
    BY <2>7 DEF vars, upstream, reqVars, IndInv, TypeOK, AnswersBelong, LateAnswerIsRecent,
       EntryIsRecent, OneMint, SecondTokenNew, Cached
  <2> QED
    BY <2>1, <2>2, <2>3, <2>4, <2>5, <2>6, <2>7 DEF Next
<1> QED
  BY <1>1, <1>2, PTL DEF Spec

\* Every variable keeps its type, the lifetimes and deadlines their ranges.
THEOREM TypeCorrect == Spec => []TypeOK
<1>1. IndInv => TypeOK
  BY DEF IndInv
<1> QED
  BY <1>1, IndInvHolds, PTL

\* is_org_manager: whatever the TTL and the timeout, a cached answer differs
\* from MITx Online's for no longer than its age plus one call.
THEOREM CacheIsHonest == Spec => []CachedAnswerIsReal
<1>1. IndInv => CachedAnswerIsReal
  <2> SUFFICES ASSUME IndInv, Cached, entry.val # manager
               PROVE  since <= MaxCheck + (CacheTTL - entry.left)
    BY DEF CachedAnswerIsReal
  <2>1. since + entry.left <= MaxCheck + CacheTTL
    BY DEF IndInv, EntryIsRecent
  <2>2. entry.left \in Nat /\ since \in Nat /\ MaxCheck \in Nat /\ CacheTTL \in Nat
    BY AuthAssumption DEF AuthAssumption, IndInv, TypeOK, Cached
  <2> QED
    BY <2>1, <2>2
<1> QED
  BY <1>1, IndInvHolds, PTL

\* require_org_manager lets nobody in whose role was revoked more than
\* CacheTTL + MaxCheck ago, from the cache or from a late answer.
THEOREM RevocationBounded == Spec => RevocationTakesEffect
<1>1. IndInv /\ [Next]_vars => [GateStep]_vars
  <2> SUFFICES ASSUME IndInv, Next, NEW r \in Requests, pc'[r] = "probe", pc[r] # "probe",
                      ~manager
               PROVE  since <= CacheTTL + MaxCheck
    BY DEF GateStep
  <2>1. since \in Nat /\ MaxCheck \in Nat /\ CacheTTL \in Nat
    BY AuthAssumption DEF AuthAssumption, IndInv, TypeOK
  <2>2. (Get(r) /\ Cached /\ entry.val) \/ (Receive(r) /\ reply[r] = "true")
    <3>1. pc' # pc
      OBVIOUS
    <3>2. PICK q \in Requests :
             \/ \E who \in {"outsider", "nameless", "member"} : Request(q, who)
             \/ ServiceStep(q)
      BY <3>1 DEF Next, Reply, ChangeRole, RevokeTokens, Load, Tick, reqVars
    <3>3. ASSUME NEW where, Goto(q, where)
          PROVE  q = r /\ where = "probe"
      BY <3>3 DEF Goto, IndInv, TypeOK
    <3>4. ~(\E who \in {"outsider", "nameless", "member"} : Request(q, who))
      <4> SUFFICES ASSUME NEW who \in {"outsider", "nameless", "member"}, Request(q, who) PROVE FALSE
        OBVIOUS
      <4>1. PICK where \in {"not_member", "not_manager", "get", "check", "token"} : Goto(q, where)
        BY DEF Request, Send
      <4> QED
        BY <3>3, <4>1
    <3>5. ~EnterLock(q) /\ ~(\E life \in {0, TokenLife} : Minted(q, life))
      <4> SUFFICES ASSUME EnterLock(q) \/ (\E life \in {0, TokenLife} : Minted(q, life))
                   PROVE  FALSE
        OBVIOUS
      <4>1. PICK where \in {"check", "mint"} : Goto(q, where)
        BY DEF EnterLock, Minted, Send
      <4> QED
        BY <3>3, <4>1
    <3>6. ~(\E how \in {"bad_gateway", "unreachable", "crashed"} : CallFails(q, how))
      BY <3>3, Zenon DEF CallFails
    <3>7. /\ ~(\E named \in BOOLEAN : Probe(q, named))
          /\ ~ProbeOther(q) /\ ~ProbeFails(q)
      BY <3>3 DEF Probe, ProbeOther, ProbeFails
    <3>8. Get(q) => q = r /\ Cached /\ entry.val
      BY <3>3 DEF Get, Decide
    <3>9. Receive(q) => q = r /\ reply[q] = "true"
      BY <3>3 DEF Receive, Decide
    <3> QED
      BY <3>2, <3>4, <3>5, <3>6, <3>7, <3>8, <3>9 DEF ServiceStep
  <2>3. CASE Get(r) /\ Cached /\ entry.val
    <3>1. entry \in [val : BOOLEAN, left : 1..CacheTTL]
      BY <2>3 DEF IndInv, TypeOK, Cached
    <3>2. entry.val # manager
      BY <2>3
    <3>3. since + entry.left <= MaxCheck + CacheTTL
      BY <2>3, <3>2, Zenon DEF IndInv, EntryIsRecent
    <3> QED
      BY <2>1, <3>1, <3>3
  <2>4. CASE Receive(r) /\ reply[r] = "true"
    <3>1. since + patience[r] <= MaxCheck /\ patience[r] \in Nat
      BY <2>4 DEF Receive, IndInv, TypeOK, LateAnswerIsRecent
    <3> QED
      BY <2>1, <3>1
  <2> QED
    BY <2>2, <2>3, <2>4
<1> QED
  BY <1>1, IndInvHolds, PTL DEF Spec, RevocationTakesEffect

\* is_org_manager: whoever shares the token and the lock, a retry is rejected
\* again only if the token minted for it was revoked after that.
THEOREM RetriesAreFresh == Spec => []RetryCarriesNewToken
<1>1. IndInv => RetryCarriesNewToken
  BY DEF IndInv, SecondTokenNew, RetryCarriesNewToken
<1> QED
  BY <1>1, IndInvHolds, PTL

\* At most one token is being minted, and the lock is never left behind by a
\* request that does not mint (_access_token, _token_lock).
THEOREM MintsOneAtATime == Spec => []OneMint
<1>1. IndInv => OneMint
  BY DEF IndInv
<1> QED
  BY <1>1, IndInvHolds, PTL
=============================================================================
