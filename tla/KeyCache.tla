------------------------------ MODULE KeyCache ------------------------------
(***************************************************************************)
(* GitHubJWKSCache (deployment/jwks.py) under the verifications that share *)
(* it (deployment/oidc_verifier.py).                                       *)
(*                                                                         *)
(* get_key decides under one condition variable; the two documents are     *)
(* fetched without it.  The issuer rotates its keys at any time.  A key is *)
(* named by its kid, a document is valid or not, and time is a number of   *)
(* ticks: a call, all of whose network waits have timeouts, takes at most  *)
(* MaxDelay of them.                                                       *)
(***************************************************************************)
EXTENDS Integers

CONSTANTS
    Threads,       \* verifications that may run at once
    Kids,          \* key identifiers
    MAX_CACHE_TTL, \* MAX_CACHE_TTL_SECONDS, in ticks
    MaxDelay,      \* bound on the ticks a call takes
    MaxTime,       \* bound on the clock
    MaxRefreshes,  \* bound on the refreshes started
    MaxRotations   \* bound on the issuer's rotations

\* A fetch has six seconds and a refresh makes two; a set is reused for 300.
CacheAssumption ==
    /\ MAX_CACHE_TTL \in Nat
    /\ MaxDelay \in Nat
    /\ MaxDelay <= MAX_CACHE_TTL

VARIABLES
    now,        \* the monotonic clock
    published,  \* keys the issuer publishes
    version,    \* rotations of the issuer so far
    gone,       \* when each key was last published
    keys,       \* _keys
    held,       \* version of the issuer that _keys was read from (history)
    expires,    \* _expires_at
    refreshing, \* _refreshing
    serial,     \* _refresh_serial
    completed,  \* _completed_serial
    success,    \* _completed_success
    call,       \* each thread's verification in progress
    staleness,  \* age of the oldest key a verification used (history)
    overslept   \* a waiter started a refresh beside another one (history)

issuer == <<published, version, gone>>
stored == <<keys, held, expires, success>>
flight == <<refreshing, serial, completed>>
history == <<staleness, overslept>>
cacheVars == <<now, issuer, stored, flight, call, history>>

Running == {"discovery", "jwks", "stamp", "install", "fail"}
Idle == [pc |-> "idle"]

CacheInit ==
    /\ now = 0
    /\ published \in (SUBSET Kids) \ {{}}
    /\ version = 0
    /\ gone = [k \in Kids |-> 0]
    /\ keys = {}
    /\ held = -1
    /\ expires = 0
    /\ refreshing = FALSE
    /\ serial = 0
    /\ completed = 0
    /\ success = FALSE
    /\ call = [t \in Threads |-> Idle]
    /\ staleness = 0
    /\ overslept = FALSE

-----------------------------------------------------------------------------
(* The verification around get_key.                                        *)

\* When a key was last published.
LastPublished(kid) == IF kid \in published THEN now ELSE gone[kid]

\* A token whose signature or claims are not accepted is refused, whatever
\* the key; a token that is accepted has used it.
Decode(kid) ==
    \/ UNCHANGED staleness
    \/ staleness' = IF now - LastPublished(kid) > staleness
                    THEN now - LastPublished(kid) ELSE staleness

\* The call ends: with the requested key if it is among the given ones,
\* with a rejection otherwise.
Return(t, kid, found) ==
    /\ call' = [call EXCEPT ![t] = Idle]
    /\ IF kid \in found THEN Decode(kid) ELSE UNCHANGED staleness

\* OIDCVerificationUnavailable.
Unavailable(t) ==
    /\ call' = [call EXCEPT ![t] = Idle]
    /\ UNCHANGED staleness

-----------------------------------------------------------------------------
(* get_key, while it holds the condition.                                  *)

\* Mutant: a known key is returned without comparing the expiry.
CachedForever(kid) == kid \in keys

\* The cached set may be used.
Cached(kid) == now < expires /\ kid \in keys

\* This thread becomes the one that refreshes.
StartRefresh(t, kid, since) ==
    /\ serial < MaxRefreshes
    /\ refreshing' = TRUE
    /\ serial' = serial + 1
    /\ call' = [call EXCEPT ![t] = [pc |-> "discovery", kid |-> kid, serial |-> serial + 1,
                                    since |-> since, found |-> << >>]]
    /\ UNCHANGED <<completed, staleness>>

\* Mutant: a call that misses does not look for a refresh in progress.
GetKeyAlwaysRefreshes(t, kid) ==
    /\ call[t].pc = "idle"
    /\ \/ Cached(kid) /\ Return(t, kid, keys) /\ UNCHANGED <<flight, overslept>>
       \/ ~Cached(kid) /\ StartRefresh(t, kid, now) /\ UNCHANGED overslept
    /\ UNCHANGED <<now, issuer, stored>>

\* A well-formed token naming kid arrives: the cache answers, the call joins
\* the refresh in progress, or it starts one.
GetKey(t, kid) ==
    /\ call[t].pc = "idle"
    /\ \/ Cached(kid) /\ Return(t, kid, keys) /\ UNCHANGED <<flight, overslept>>
       \/ /\ ~Cached(kid) /\ refreshing
          /\ call' = [call EXCEPT ![t] = [pc |-> "waiting", kid |-> kid, serial |-> serial,
                                          since |-> now]]
          /\ UNCHANGED <<flight, history>>
       \/ ~Cached(kid) /\ ~refreshing /\ StartRefresh(t, kid, now) /\ UNCHANGED overslept
    /\ UNCHANGED <<now, issuer, stored>>

\* What the loop around condition.wait() waits for.
Awake(t) == ~(refreshing /\ serial = call[t].serial)

\* The waiter takes the outcome of the refresh it joined.  If another one has
\* completed in the meantime it starts its own, whether or not yet another
\* is in progress.
Wake(t) ==
    /\ call[t].pc = "waiting"
    /\ Awake(t)
    /\ IF completed = call[t].serial
       THEN /\ IF success THEN Return(t, call[t].kid, keys) ELSE Unavailable(t)
            /\ UNCHANGED <<flight, overslept>>
       ELSE /\ StartRefresh(t, call[t].kid, call[t].since)
            /\ overslept' = (overslept \/ refreshing)
    /\ UNCHANGED <<now, issuer, stored>>

-----------------------------------------------------------------------------
(* The refresh, without the condition.                                     *)

\* _cache_ttl: Cache-Control can only shorten the reuse.
CacheTtl == 0..MAX_CACHE_TTL

Shorter(a, b) == IF a < b THEN a ELSE b

\* The thread goes on with what it has found so far.
CacheStep(t, pc, next, found) ==
    /\ call[t].pc = pc
    /\ call' = [call EXCEPT ![t] = [pc |-> next, kid |-> @.kid, serial |-> @.serial,
                                    since |-> @.since, found |-> found]]
    /\ UNCHANGED <<now, issuer, stored, flight, history>>

\* _fetch and the document's validation: one of the valid answers within its
\* timeouts, or a failed refresh.
Fetch(t, pc, next, answers) ==
    /\ call[t].pc = pc
    /\ \/ \E found \in answers : CacheStep(t, pc, next, found)
       \/ CacheStep(t, pc, "fail", << >>)

\* fetch_discovery and validate_discovery.
FetchDiscovery(t) == Fetch(t, "discovery", "jwks", {[ttl |-> ttl] : ttl \in CacheTtl})

\* fetch_jwks and validate_jwks: the keys of the moment the issuer answers.
FetchJwks(t) ==
    Fetch(t, "jwks", "stamp",
          {[ttl |-> Shorter(call[t].found.ttl, ttl), keys |-> published, version |-> version] :
               ttl \in CacheTtl})

\* The clock is sampled before the condition is taken again.
Stamp(t) ==
    LET found == call[t].found
    IN  CacheStep(t, "stamp", "install", [keys |-> found.keys, version |-> found.version,
                                     until |-> now + found.ttl])

\* Mutant: the failed refresh leaves _refreshing set.
FailStillRefreshing(t) ==
    /\ call[t].pc = "fail"
    /\ completed' = call[t].serial
    /\ success' = FALSE
    /\ Unavailable(t)
    /\ UNCHANGED <<now, issuer, keys, held, expires, refreshing, serial, overslept>>

\* A failed refresh keeps the cached set and its expiry.
Fail(t) ==
    /\ call[t].pc = "fail"
    /\ refreshing' = FALSE
    /\ completed' = call[t].serial
    /\ success' = FALSE
    /\ Unavailable(t)
    /\ UNCHANGED <<now, issuer, keys, held, expires, serial, overslept>>

\* The whole set is replaced.
Install(t) ==
    /\ call[t].pc = "install"
    /\ keys' = call[t].found.keys
    /\ held' = call[t].found.version
    /\ expires' = call[t].found.until
    /\ refreshing' = FALSE
    /\ completed' = call[t].serial
    /\ success' = TRUE
    /\ Return(t, call[t].kid, call[t].found.keys)
    /\ UNCHANGED <<now, issuer, serial, overslept>>

-----------------------------------------------------------------------------
(* The environment.                                                        *)

IssuerRotates ==
    /\ version < MaxRotations
    /\ version' = version + 1
    /\ published' \in (SUBSET Kids) \ {{}, published}
    /\ gone' = [k \in Kids |-> LastPublished(k)]
    /\ UNCHANGED <<now, stored, flight, call, history>>

Tick ==
    /\ now < MaxTime
    /\ \A t \in Threads : call[t].pc # "idle" => now < call[t].since + MaxDelay
    /\ now' = now + 1
    /\ UNCHANGED <<issuer, stored, flight, call, history>>

CacheNext ==
    \/ \E t \in Threads, kid \in Kids : GetKey(t, kid)
    \/ \E t \in Threads :
           \/ Wake(t) \/ FetchDiscovery(t) \/ FetchJwks(t) \/ Stamp(t)
           \/ Fail(t) \/ Install(t)
    \/ IssuerRotates
    \/ Tick

CacheSpec == CacheInit /\ [][CacheNext]_cacheVars

-----------------------------------------------------------------------------
(* Properties.                                                             *)

\* No verification uses a key that the issuer withdrew longer ago than the
\* longest reuse and one call's duration, whether the key came from the cache,
\* from the thread's own refresh or from one it waited for, and however
\* refreshes fail.
KeyIsTimely == staleness <= MAX_CACHE_TTL + MaxDelay

\* A thread that has to wait waits for a refresh that some thread is still
\* running: get_key lets nobody wait for a refresh that failed, finished or
\* was never started.
WaiterHasRefresher ==
    \A t \in Threads :
        (call[t].pc = "waiting" /\ ~Awake(t)) =>
            \E u \in Threads : call[u].pc \in Running /\ call[u].serial = call[t].serial

\* "removed keys cease to be accepted after successful replacement"
\* (deployment/README.md): the cache never goes back to an older set of the
\* issuer, as refreshes are serialized.  The exception: a waiter that sleeps
\* through two refreshes starts one beside the third, and the older answer may
\* be installed last.
CacheMovesForward ==
    [][~overslept' => held' >= held]_cacheVars
=============================================================================
