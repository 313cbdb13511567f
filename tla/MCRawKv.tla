------------------------------ MODULE MCRawKv ------------------------------
(* Small instances of RawScanAnswer.                                       *)
EXTENDS RawScanAnswer

CONSTANTS v1, v2

\* Keys 1 and 2 are in one column family and key 3 in the next.  Keys 1 and 2
\* are not UTF-8 and share a cache key.
MCCFOf == <<"default", "default", "write">>
MCCacheKeyOf == <<"c1", "c1", "c3">>
MCBatches == {<<<<3, v2>>, <<1, None>>>>}
MCFullKey == [rs \in {<<1, 1>>} |-> 1]

\* Every tier in use; a key with an old copy in a hotter tier and one absent.
MCStored ==
  {[hot |-> <<None, v1, None>>, warm |-> <<v1, None, None>>, cold |-> <<None, None, v1>>],
   [hot |-> <<v1, None, None>>, warm |-> <<v2, v1, None>>, cold |-> NoKeys]}
=============================================================================
