--------------------------- MODULE OrgManagerAuth ---------------------------
(***************************************************************************)
(* The dashboard's authorization: require_org_manager() with the MITx      *)
(* Online client behind it (service token, token lock, retry on 401,       *)
(* answer cache), then require_org_loaded() or require_contract_in_org().  *)
(* All requests ask about one user and one organization; the cache keeps   *)
(* users apart, and the token is shared by them all.                       *)
(*                                                                         *)
(* MITx Online is the environment: it grants and revokes the manager role, *)
(* rejects tokens, answers late, wrongly or not at all.  The warehouse     *)
(* loads the contract some time after MITx Online created it, possibly     *)
(* before its organization has an id.  A step is the code between two      *)
(* awaits, except that time may pass between "in _cache" and _cache[...].  *)
(***************************************************************************)
EXTENDS Naturals

CONSTANTS
    Requests,
    CacheTTL,       \* settings.org_manager_cache_ttl_seconds
    TokenLife,      \* expires_in less _TOKEN_EXPIRY_MARGIN_SECONDS
    MaxCheck,       \* settings.mitxonline_manager_check_timeout_seconds
    None

\* What comes back from the manager check: a Boolean, other JSON, no JSON, an
\* error status, a rejected token.
Replies == {"true", "false", "odd", "garbage", "error", "401"}

ASSUME AuthAssumption ==
    /\ CacheTTL \in Nat \ {0} /\ TokenLife \in Nat \ {0} /\ MaxCheck \in Nat
    /\ None \notin Requests /\ None \notin Replies

VARIABLES
    manager,    \* what MITx Online's database says now
    since,      \* time since that changed, up to Settled
    owner,      \* the contract's organization: the caller's or another
    loaded,     \* the contract's row in the warehouse: absent, unnamed or owned
    entry,      \* _cache: answer and lifetime left, None when absent
    token,      \* _token: lifetime left and whether it is still accepted
    lock,       \* holder of _token_lock
    pc,         \* where each request is, or how it ended
    attempt,    \* 2 after a 401: force_refresh
    carried,    \* the token the request sent is still accepted
    reply,      \* MITx Online's answer on its way
    patience,   \* time the call in flight may still take
    struck      \* history: requests whose second token was revoked in flight

upstream == <<manager, since, owner, loaded>>
reqVars  == <<pc, attempt, carried, reply, patience, struck>>
vars == <<upstream, entry, token, lock, reqVars>>

Settled == CacheTTL + MaxCheck + 1
InFlight == {"mint", "check"}
Ended == {"ok", "not_member", "not_manager", "bad_gateway", "unreachable", "crashed",
          "keyerror", "not_loaded", "not_yours", "db_error"}

TypeOK ==
    /\ manager \in BOOLEAN /\ since \in 0..Settled
    /\ owner \in {"caller", "other"} /\ loaded \in {"absent", "unnamed", "owned"}
    /\ entry = None \/ entry \in [val : BOOLEAN, left : 1..CacheTTL]
    /\ token = None \/ token \in [left : 0..TokenLife, good : BOOLEAN]
    /\ lock \in Requests \cup {None}
    /\ pc \in [Requests -> {"idle", "get", "token", "probe", "probe_other"} \cup InFlight \cup Ended]
    /\ attempt \in [Requests -> {1, 2}]
    /\ carried \in [Requests -> BOOLEAN]
    /\ reply \in [Requests -> Replies \cup {None}]
    /\ patience \in [Requests -> 0..MaxCheck]
    /\ struck \in SUBSET Requests

Init ==
    /\ manager \in BOOLEAN /\ since = Settled
    /\ owner \in {"caller", "other"} /\ loaded = "absent"
    /\ entry = None /\ token = None /\ lock = None
    /\ pc = [r \in Requests |-> "idle"]
    /\ attempt = [r \in Requests |-> 1]
    /\ carried = [r \in Requests |-> FALSE]
    /\ reply = [r \in Requests |-> None] /\ patience = [r \in Requests |-> 0]
    /\ struck = {}

TokenIsFresh == token # None /\ token.left > 0
Cached == entry # None
Quiet == \A r \in Requests : pc[r] # "get"
Goto(r, where) == pc' = [pc EXCEPT ![r] = where]

-----------------------------------------------------------------------------
(* require_org_manager and is_org_manager                                  *)

\* _request_manager_check() has its token: the GET goes out.
Send(r, good) ==
    /\ Goto(r, "check")
    /\ carried' = [carried EXCEPT ![r] = good]
    /\ patience' = [patience EXCEPT ![r] = MaxCheck]

\* The membership claim is checked first, then that there is a sub; then the
\* answer cache; then the token is used as it is or waited for.
Request(r, who) ==
    /\ Quiet /\ pc[r] \in {"idle"} \cup Ended
    /\ \/ who = "outsider" /\ Goto(r, "not_member") /\ UNCHANGED <<carried, patience>>
       \/ who = "nameless" /\ Goto(r, "not_manager") /\ UNCHANGED <<carried, patience>>
       \/ who = "member" /\ Cached /\ Goto(r, "get") /\ UNCHANGED <<carried, patience>>
       \/ who = "member" /\ ~Cached /\ TokenIsFresh /\ Send(r, token.good)
       \/ who = "member" /\ ~Cached /\ ~TokenIsFresh /\ Goto(r, "token")
          /\ UNCHANGED <<carried, patience>>
    /\ UNCHANGED <<upstream, entry, token, lock, attempt, reply, struck>>

Decide(r, isManager) == Goto(r, IF isManager THEN "probe" ELSE "not_manager")

\* Mutant: a hit renews the cached answer.
GetSliding(r) ==
    /\ pc[r] = "get" /\ Cached
    /\ Decide(r, entry.val)
    /\ entry' = [entry EXCEPT !.left = CacheTTL]
    /\ UNCHANGED <<upstream, token, lock, attempt, carried, reply, patience, struck>>

\* return _cache[cache_key], which TTLCache refuses once the entry expired.
Get(r) ==
    /\ pc[r] = "get"
    /\ IF Cached THEN Decide(r, entry.val) ELSE Goto(r, "keyerror")
    /\ UNCHANGED <<upstream, entry, token, lock, attempt, carried, reply, patience, struck>>

\* Mutant: a forced refresh takes the token it finds.
EnterLockUnforced(r) ==
    /\ Quiet /\ pc[r] = "token" /\ lock = None
    /\ \/ TokenIsFresh /\ Send(r, token.good) /\ UNCHANGED lock
       \/ /\ ~TokenIsFresh
          /\ lock' = r /\ Goto(r, "mint")
          /\ patience' = [patience EXCEPT ![r] = MaxCheck]
          /\ UNCHANGED carried
    /\ UNCHANGED <<upstream, entry, token, attempt, reply, struck>>

\* _access_token() inside the lock: somebody may have minted meanwhile, which
\* serves a first attempt but not a forced one.
EnterLock(r) ==
    /\ Quiet /\ pc[r] = "token" /\ lock = None
    /\ \/ attempt[r] = 1 /\ TokenIsFresh /\ Send(r, token.good) /\ UNCHANGED lock
       \/ /\ ~(attempt[r] = 1 /\ TokenIsFresh)
          /\ lock' = r /\ Goto(r, "mint")
          /\ patience' = [patience EXCEPT ![r] = MaxCheck]
          /\ UNCHANGED carried
    /\ UNCHANGED <<upstream, entry, token, attempt, reply, struck>>

\* _fetch_token() succeeds; without a usable expires_in the token is kept
\* but never counts as fresh.
Minted(r, life) ==
    /\ Quiet /\ pc[r] = "mint"
    /\ token' = [left |-> life, good |-> TRUE]
    /\ lock' = None
    /\ Send(r, TRUE)
    /\ UNCHANGED <<upstream, entry, attempt, reply, struck>>

EndCall(r) ==
    /\ reply' = [reply EXCEPT ![r] = None]
    /\ patience' = [patience EXCEPT ![r] = 0]
    /\ carried' = [carried EXCEPT ![r] = FALSE]
    /\ struck' = struck \ {r}

\* A call ends without an answer: how is an HTTP error status, a transport
\* error or timeout, or (for a mint) a body without an access_token.
CallFails(r, how) ==
    /\ Quiet /\ pc[r] \in InFlight
    /\ how = "crashed" => pc[r] = "mint"
    /\ Goto(r, how)
    /\ lock' = IF lock = r THEN None ELSE lock
    /\ EndCall(r) /\ attempt' = [attempt EXCEPT ![r] = 1]
    /\ UNCHANGED <<upstream, entry, token>>

\* Mutant: an unexpected payload is cached as a refusal.
ReceiveCachingOdd(r) ==
    /\ Quiet /\ pc[r] = "check" /\ reply[r] = "odd"
    /\ entry' = [val |-> FALSE, left |-> CacheTTL]
    /\ Decide(r, FALSE)
    /\ EndCall(r) /\ attempt' = [attempt EXCEPT ![r] = 1]
    /\ UNCHANGED <<upstream, token, lock>>

\* The answer of the manager check: retry once on 401, cache a Boolean,
\* fail closed and uncached on anything else that is JSON.
Receive(r) ==
    /\ Quiet /\ pc[r] = "check" /\ reply[r] # None
    /\ \/ /\ reply[r] = "401" /\ attempt[r] = 1
          /\ Goto(r, "token") /\ UNCHANGED entry
       \/ /\ reply[r] = "error" \/ (reply[r] = "401" /\ attempt[r] = 2)
          /\ Goto(r, "bad_gateway") /\ UNCHANGED entry
       \/ /\ reply[r] = "garbage"
          /\ Goto(r, "crashed") /\ UNCHANGED entry
       \/ /\ reply[r] = "odd"
          /\ Decide(r, FALSE) /\ UNCHANGED entry
       \/ /\ reply[r] \in {"true", "false"}
          /\ entry' = [val |-> reply[r] = "true", left |-> CacheTTL]
          /\ Decide(r, reply[r] = "true")
    /\ attempt' = [attempt EXCEPT ![r] = IF pc'[r] = "token" THEN 2 ELSE 1]
    /\ EndCall(r)
    /\ UNCHANGED <<upstream, token, lock>>

-----------------------------------------------------------------------------
(* require_org_loaded and require_contract_in_org                          *)

Mine == loaded = "owned" /\ owner = "caller"

\* Is the named contract (or any contract, for an organization endpoint) in
\* the warehouse under the caller's organization?
Probe(r, named) ==
    /\ Quiet /\ pc[r] = "probe"
    /\ Goto(r, IF Mine THEN "ok" ELSE IF named THEN "probe_other" ELSE "not_loaded")
    /\ UNCHANGED <<upstream, entry, token, lock, attempt, carried, reply, patience, struck>>

\* sso_organization_id <> the caller's: a NULL never matches.
UnderAnother == loaded = "owned" /\ owner = "other"

ProbeOther(r) ==
    /\ Quiet /\ pc[r] = "probe_other"
    /\ Goto(r, IF UnderAnother THEN "not_yours" ELSE "not_loaded")
    /\ UNCHANGED <<upstream, entry, token, lock, attempt, carried, reply, patience, struck>>

ProbeFails(r) ==
    /\ Quiet /\ pc[r] \in {"probe", "probe_other"}
    /\ Goto(r, "db_error")
    /\ UNCHANGED <<upstream, entry, token, lock, attempt, carried, reply, patience, struck>>

-----------------------------------------------------------------------------
(* Environment                                                             *)

\* MITx Online evaluates the check: 401 for a token it no longer accepts.
Reply(r, odd) ==
    /\ pc[r] = "check" /\ reply[r] = None
    /\ reply' = [reply EXCEPT ![r] =
          IF ~carried[r] THEN "401"
          ELSE IF odd # None THEN odd
          ELSE IF manager THEN "true" ELSE "false"]
    /\ UNCHANGED <<upstream, entry, token, lock, pc, attempt, carried, patience, struck>>

ChangeRole ==
    /\ manager' = ~manager /\ since' = 0
    /\ UNCHANGED <<owner, loaded, entry, token, lock, reqVars>>

\* Every token issued so far stops being accepted.
RevokeTokens ==
    /\ token # None /\ token.good
    /\ token' = [token EXCEPT !.good = FALSE]
    /\ carried' = [r \in Requests |-> FALSE]
    /\ struck' = struck \cup {r \in Requests : pc[r] = "check" /\ attempt[r] = 2}
    /\ UNCHANGED <<upstream, entry, lock, pc, attempt, reply, patience>>

\* A warehouse load, perhaps ahead of the organization's id.
Load ==
    /\ loaded # "owned"
    /\ loaded' \in {"unnamed", "owned"} \ {loaded}
    /\ UNCHANGED <<manager, since, owner, entry, token, lock, reqVars>>

Less(n) == IF n = 0 THEN 0 ELSE n - 1

Tick ==
    /\ \A r \in Requests : pc[r] \in InFlight => patience[r] > 0
    /\ since' = IF since < Settled THEN since + 1 ELSE since
    /\ entry' = IF Cached /\ entry.left > 1 THEN [entry EXCEPT !.left = @ - 1] ELSE None
    /\ token' = IF token = None THEN None ELSE [token EXCEPT !.left = Less(@)]
    /\ patience' = [r \in Requests |-> Less(patience[r])]
    /\ UNCHANGED <<manager, owner, loaded, lock, pc, attempt, carried, reply, struck>>

\* The steps this service takes, failures of its callees included.
ServiceStep(r) ==
    \/ Get(r) \/ EnterLock(r) \/ Receive(r)
    \/ \E life \in {0, TokenLife} : Minted(r, life)
    \/ \E how \in {"bad_gateway", "unreachable", "crashed"} : CallFails(r, how)
    \/ (\E named \in BOOLEAN : Probe(r, named)) \/ ProbeOther(r) \/ ProbeFails(r)

Next ==
    \/ \E r \in Requests :
          \/ \E who \in {"outsider", "nameless", "member"} : Request(r, who)
          \/ ServiceStep(r)
          \/ \E odd \in {None, "odd", "garbage", "error"} : Reply(r, odd)
    \/ ChangeRole \/ RevokeTokens \/ Load \/ Tick

Spec == Init /\ [][Next]_vars

-----------------------------------------------------------------------------
(* Properties                                                              *)

\* What is cached is an answer MITx Online gave, and it is overtaken by no
\* more than its age plus one call: late answers arriving out of order,
\* rejected tokens and glitches neither extend a revoked manager's access
\* nor lock a real manager out "for the rest of the TTL".
CachedAnswerIsReal ==
    Cached => entry.val = manager \/ since <= MaxCheck + (CacheTTL - entry.left)

\* A revoked manager is let in no later than CacheTTL + MaxCheck after.
GateStep ==
    \A r \in Requests :
        pc'[r] = "probe" /\ pc[r] # "probe" => manager \/ since <= CacheTTL + MaxCheck
RevocationTakesEffect == [][GateStep]_vars

\* "A second 401 is a real misconfiguration": the retry never fails on a token
\* that was already dead when the retry began, however many requests share the
\* token, mint under the same lock and replace each other's.  It is rejected
\* again only if the token minted for it was revoked in its turn.
RetryCarriesNewToken ==
    \A r \in Requests : attempt[r] = 2 /\ reply[r] = "401" => r \in struck
=============================================================================
