---------------------------- MODULE MatchFinder ----------------------------
(***************************************************************************)
(* The hash chains of the two LZ77 coders (lz_find_match in zupt_lz.c,     *)
(* find_match in zupt_lzh.c).  Positions count from 0.  The positions      *)
(* inserted so far are a set; the chain of a hash value is its members,    *)
(* newest first.  A search is described by a record                        *)
(*   [window, chain, minMatch]                                             *)
(* of how far back, how many candidates, and how short a match may be.     *)
(***************************************************************************)
EXTENDS Window

CONSTANTS
  HashUnits,  \* units needed for a hash (4: the hash reads a word)
  KeyUnits,   \* units that tell two hashes apart; fewer than HashUnits gives
              \* positions of the same hash that are not equal
  MaxMatch    \* the longest match ever taken

ASSUME MatchFinderAssumption ==
  /\ HashUnits \in Nat \ {0}
  /\ KeyUnits \in 1 .. HashUnits
  /\ MaxMatch \in Nat \ {0}

NoMatch == [len |-> 0, dist |-> 0]

CanHash(data, i) == i + HashUnits <= Len(data)

HashKey(data, i) == Slice(data, i, i + KeyUnits)

\* How many units from ref on repeat from ip on, up to the end and MaxMatch.
MatchLength(data, ref, ip) ==
  Max({n \in 0 .. Min({Len(data) - ip, MaxMatch}) :
         \A i \in 0 .. n - 1 : At(data, ref + i) = At(data, ip + i)})

\* The candidates a search visits: the chain is walked from the newest
\* position back, and left at the first one out of the window.
Candidates(data, inserted, ip, search) ==
  LET near == {r \in inserted : /\ CanHash(data, r)
                                /\ HashKey(data, r) = HashKey(data, ip)
                                /\ ip - r \in 1 .. search.window}
  IN  {r \in near : Cardinality({q \in near : q > r}) < search.chain}

\* The longest match among them, the nearest of equals.
FindMatch(data, inserted, ip, search) ==
  IF ~CanHash(data, ip) THEN NoMatch
  ELSE LET found == Candidates(data, inserted, ip, search)
           length == Max({0} \cup {MatchLength(data, r, ip) : r \in found})
       IN  IF length < search.minMatch THEN NoMatch
           ELSE [len |-> length,
                 dist |-> ip - Max({r \in found : MatchLength(data, r, ip) = length})]
=============================================================================
