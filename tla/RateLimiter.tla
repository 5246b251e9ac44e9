----------------------------- MODULE RateLimiter ------------------------------
(***************************************************************************)
(* _RateLimiter of the REST front end: the hits of each client in a        *)
(* sliding window, and the eviction when the table of clients is full.     *)
(* Each check has its own time, which the log of accepted requests is      *)
(* indexed with.  RateLimitMiddleware runs before the body and token       *)
(* checks, so refused requests count as well.                              *)
(***************************************************************************)
EXTENDS Naturals, FiniteSets, FiniteSetsExt

CONSTANTS
  Keys,      \* clients, or tenants
  NoKey,
  Limit,     \* REST_RATE_LIMIT
  Window,    \* REST_RATE_WINDOW
  MaxKeys,   \* RATE_MAX_IPS
  MaxTime    \* bound: times of a behaviour

VARIABLES
  clock,
  hits,      \* _hits: the keys in the table, with the times of their hits
  log        \* who was accepted at each time, or NoKey

vars == <<clock, hits, log>>

Times == 1..MaxTime

Bounds == Limit \in Nat /\ Window \in Nat /\ MaxKeys \in Nat /\ MaxTime \in Nat /\ NoKey \notin Keys

TypeOK ==
  /\ clock \in 0..MaxTime
  /\ DOMAIN hits \subseteq Keys /\ Cardinality(DOMAIN hits) <= MaxKeys
  /\ \A k \in DOMAIN hits : hits[k] \subseteq 1..clock
  /\ log \in [Times -> Keys \cup {NoKey}]

Init ==
  /\ clock = 0
  /\ hits = [k \in {} |-> {}]
  /\ log = [t \in Times |-> NoKey]

-----------------------------------------------------------------------------

Within(now, t) == t <= now /\ t + Window > now
Fresh(k, now) == {t \in IF k \in DOMAIN hits THEN hits[k] ELSE {} : Within(now, t)}

\* The hits of a client are trimmed only when it asks: its oldest may be out of the window.
Oldest(k) == Min(hits[k])

\* _evict drops the stale clients; if that is not enough, those with the oldest first hit.
Kept(now) ==
  LET live == {k \in DOMAIN hits : Fresh(k, now) # {}}
      excess == Cardinality(live) + 1 - MaxKeys IN
    {k \in live : Cardinality({l \in live : Oldest(l) < Oldest(k)}) >= excess}

\* Mutant of Room: a full table is always evicted from.
RoomAlways(key, now) == IF Cardinality(DOMAIN hits) >= MaxKeys THEN Kept(now) ELSE DOMAIN hits

\* The clients that keep their hits when key asks.
Room(key, now) ==
  IF key \notin DOMAIN hits /\ Cardinality(DOMAIN hits) >= MaxKeys THEN Kept(now) ELSE DOMAIN hits

\* check
Request(key) ==
  /\ clock < MaxTime
  /\ LET now == clock + 1
         fresh == Fresh(key, now)
         accepted == Cardinality(fresh) < Limit
         room == IF accepted THEN Room(key, now) ELSE DOMAIN hits IN
       /\ clock' = now
       /\ hits' = [k \in room \cup {key} |->
                     IF k = key THEN fresh \cup (IF accepted THEN {now} ELSE {}) ELSE hits[k]]
       /\ log' = IF accepted THEN [log EXCEPT ![now] = key] ELSE log

\* The lock-free check is one step of the event loop; between checks time passes.
Pass ==
  /\ clock < MaxTime
  /\ clock' = clock + 1
  /\ UNCHANGED <<hits, log>>

Next == Pass \/ \E key \in Keys : Request(key)

-----------------------------------------------------------------------------

Accepted(k, now) == {t \in Times : Within(now, t) /\ log[t] = k}
Crowded(now) == Cardinality({log[t] : t \in {u \in Times : Within(now, u)}} \ {NoKey}) > MaxKeys

\* A client gets more than Limit requests into one window only if more than
\* RATE_MAX_IPS clients were accepted within a window that ends in it: up to that
\* number the eviction forgets nobody who counts.
LimitUnlessCrowded ==
  \A k \in Keys : Cardinality(Accepted(k, clock)) > Limit =>
    \E t \in Times : Within(clock, t) /\ Crowded(t)
==============================================================================
