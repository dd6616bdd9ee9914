----------------------------- MODULE RateLimit ------------------------------
(***************************************************************************)
(* The rate limit of the web service (app.py, rate_limit): each gunicorn   *)
(* worker keeps, for every route and client, the times of the requests it  *)
(* let through; a request is let through if fewer than MaxCalls of them    *)
(* are younger than Period.  The table forgets clients when it is full,    *)
(* and a worker that gunicorn replaces forgets them all.                   *)
(*                                                                         *)
(* The list of a key's times is in the order of the times, which all       *)
(* differ, so the set of them says the same.                               *)
(***************************************************************************)
EXTENDS Integers, FiniteSets

CONSTANTS
  Workers,     \* gunicorn workers
  Clients,     \* a route's name and a client's address
  MaxCalls, Period,
  MaxKeys      \* _rate_max_keys, 4096

\* What the decorator is used with, and a table with an oldest quarter to drop.
ASSUME RateAssumption ==
  /\ MaxCalls \in Nat \ {0}
  /\ Period \in Nat \ {0}
  /\ MaxKeys \in Nat /\ MaxKeys >= 3

VARIABLES
  rate,       \* rate[w]: the table _rate of a worker, from keys to times
  now,        \* time.time(), which no two requests share
  passed,     \* history: passed[w][k], when requests were let through
  since,      \* history: since[w][k], when w last forgot what it knew of k
  refused     \* history: [worker, key, time] of the last request, if refused

rateVars == <<rate, now, passed, since, refused>>

RateInit ==
  /\ rate = [w \in Workers |-> [k \in {} |-> {}]]
  /\ now = 1
  /\ passed = [w \in Workers |-> [k \in Clients |-> {}]]
  /\ since = [w \in Workers |-> [k \in Clients |-> 0]]
  /\ refused = {}

\* The times of a key, none if it is new, that are young enough.
Recent(table, k) ==
  IF k \in DOMAIN table THEN {t \in table[k] : now - t < Period} ELSE {}

With(table, k, times) ==
  [x \in DOMAIN table \cup {k} |-> IF x = k THEN times ELSE table[x]]

\* a was last used before b was.
UsedBefore(table, a, b) == \E t \in table[b] : \A u \in table[a] : u < t

\* Mutant: the keys that were used last are dropped.
EvictedLatest(table) ==
  IF Cardinality(DOMAIN table) > MaxKeys
  THEN {k \in DOMAIN table :
          Cardinality({x \in DOMAIN table : UsedBefore(table, k, x)})
            < Cardinality(DOMAIN table) \div 4}
  ELSE {}

\* What is dropped from a table that is over its limit: a quarter of the keys,
\* those not used for longest.
Evicted(table) ==
  IF Cardinality(DOMAIN table) > MaxKeys
  THEN {k \in DOMAIN table :
          Cardinality({x \in DOMAIN table : UsedBefore(table, x, k)})
            < Cardinality(DOMAIN table) \div 4}
  ELSE {}

\* Mutant: requests that are refused count as well.
Refuse429Counts(w, k) ==
  LET recent == Recent(rate[w], k)
  IN  /\ Cardinality(recent) >= MaxCalls
      /\ rate' = [rate EXCEPT ![w] = With(@, k, recent \cup {now})]
      /\ refused' = {[worker |-> w, key |-> k, time |-> now]}
      /\ UNCHANGED <<passed, since>>

\* Too many requests of the key are too young; what is too old is dropped.
Refuse429(w, k) ==
  LET recent == Recent(rate[w], k)
  IN  /\ Cardinality(recent) >= MaxCalls
      /\ rate' = [rate EXCEPT ![w] = With(@, k, recent)]
      /\ refused' = {[worker |-> w, key |-> k, time |-> now]}
      /\ UNCHANGED <<passed, since>>

LetThrough(w, k) ==
  LET recent == Recent(rate[w], k)
      table == With(rate[w], k, recent \cup {now})
      gone == Evicted(table)
  IN  /\ Cardinality(recent) < MaxCalls
      /\ rate' = [rate EXCEPT ![w] = [x \in DOMAIN table \ gone |-> table[x]]]
      /\ passed' = [passed EXCEPT ![w][k] = @ \cup {now}]
      /\ since' = [since EXCEPT ![w] = [x \in Clients |-> IF x \in gone THEN now ELSE @[x]]]
      /\ refused' = {}

\* wrapper: a request of a key reaches a worker; some time passes until the next.
Request(w, k) ==
  /\ Refuse429(w, k) \/ LetThrough(w, k)
  /\ now' \in {now + 1, now + Period}

\* gunicorn replaces a worker after --max-requests (Dockerfile:89).
ReplaceWorker(w) ==
  /\ rate' = [rate EXCEPT ![w] = [k \in {} |-> {}]]
  /\ since' = [since EXCEPT ![w] = [k \in Clients |-> now]]
  /\ refused' = {}
  /\ now' = now + 1
  /\ UNCHANGED passed

RateNext == \E w \in Workers : ReplaceWorker(w) \/ \E k \in Clients : Request(w, k)

RateSpec == RateInit /\ [][RateNext]_rateVars

-----------------------------------------------------------------------------
(* Properties.                                                             *)

\* What w let through for k, and has not forgotten since, between two times.
Within(w, k, from, to) ==
  {t \in passed[w][k] : t >= since[w][k] /\ t \in from .. to}

\* What a worker lets through for a client keeps to the limit in every period,
\* from when it last forgot the client; two workers let through twice as much.
EachWorkerKeepsTheLimit ==
  \A w \in Workers, k \in Clients : Cardinality(Within(w, k, now - Period, now)) <= MaxCalls

\* A request is only refused if as many were let through within the period: being
\* refused does not put off the next one, and who waits is served.
RefusedOnlyForWhatPassed ==
  \A r \in refused :
    Cardinality(Within(r.worker, r.key, r.time - Period + 1, r.time)) = MaxCalls

\* PROPERTY: a worker neither lets through more than the limit in any period nor
\* refuses for anything but what it let through (app.py:114-137).
LimitIsExact == EachWorkerKeepsTheLimit /\ RefusedOnlyForWhatPassed

\* PROPERTY: the table is bounded, and it is not the client just served that it
\* forgets.
TableIsBounded ==
  \A w \in Workers :
    /\ Cardinality(DOMAIN rate[w]) <= MaxKeys
    /\ \A k \in Clients :
         (\E t \in passed[w][k] : /\ t >= since[w][k]
                                  /\ \A x \in Clients : \A u \in passed[w][x] : u <= t)
           => k \in DOMAIN rate[w]

-----------------------------------------------------------------------------
(* The inductive invariant.                                                *)

RateTypeOK ==
  /\ rate = [w \in Workers |-> rate[w]]
  /\ \A w \in Workers : /\ DOMAIN rate[w] \subseteq Clients
                        /\ \A k \in DOMAIN rate[w] : rate[w][k] \subseteq Nat
  /\ now \in Nat
  /\ passed \in [Workers -> [Clients -> SUBSET Nat]]
  /\ since \in [Workers -> [Clients -> Nat]]
  /\ refused \subseteq [worker : Workers, key : Clients, time : Nat]

\* Everything on record is past.
PastOnly ==
  \A w \in Workers, k \in Clients :
    since[w][k] < now /\ \A t \in passed[w][k] : t < now

\* A key in the table has let through what is noted of it, up to the limit, and
\* what is not noted any more is older than the period; of a key that is not in
\* the table nothing was let through since it was forgotten.
KeyIsTrue(w, k) ==
  IF k \in DOMAIN rate[w]
  THEN /\ IsFiniteSet(rate[w][k]) /\ Cardinality(rate[w][k]) \in 1 .. MaxCalls
       /\ \A t \in rate[w][k] : t \in passed[w][k] /\ t >= since[w][k]
       /\ \A t \in passed[w][k] \ rate[w][k] : t >= since[w][k] => now - t > Period
  ELSE \A t \in passed[w][k] : t < since[w][k]

TableIsTrue == \A w \in Workers, k \in Clients : KeyIsTrue(w, k)

TablesAreFinite == \A w \in Workers : IsFiniteSet(DOMAIN rate[w])

RateIInv ==
  /\ RateTypeOK /\ PastOnly /\ TableIsTrue /\ TablesAreFinite
  /\ RefusedOnlyForWhatPassed /\ TableIsBounded
=============================================================================
