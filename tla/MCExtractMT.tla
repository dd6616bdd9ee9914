---------------------------- MODULE MCExtractMT -----------------------------
(***************************************************************************)
(* Instances of ExtractMT for TLC.                                         *)
(***************************************************************************)
EXTENDS ExtractMT

SeqsUpTo(S, n) == UNION {[1 .. k -> S] : k \in 0 .. n}

Kinds == {"data", "bad", "ref", "badref", "other"}

\* Two files: a first one with any frames, a second one that is sound.
MixedArchives ==
  {<<a, b>> : a \in SeqsUpTo(Kinds, 3), b \in {<<"data", "data">>, <<"ref", "data">>}}

\* A file longer than a batch of three, before a short sound one.
LongArchives ==
  {<<a, <<"data", "data">>>> :
     a \in {<<"data", "data", "data", "data", "data">>,
            <<"data", "ref", "data", "data", "data">>,
            <<"data", "data", "bad", "ref", "data">>,
            <<"data", "data", "ref">>, <<"data", "badref">>,
            <<"data", "other">>}}

TwoFiles ==
  {<<<<"data", "bad", "data">>, <<"data", "data">>>>}

OneFile == {<<<<"data", "data", "data">>>>}
=============================================================================
