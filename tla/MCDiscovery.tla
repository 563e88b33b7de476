----------------------------- MODULE MCDiscovery -----------------------------
(* Small dependency graphs for TLC: shared dependencies, a longer and a      *)
(* shorter way to the same service, cycles, self-dependency, duplicates, a   *)
(* dependency that is no url, and two spellings of one service's url.        *)
EXTENDS Discovery

CONSTANTS root, a, b, c, cSlash, postgres

TrimSlash == [u \in URLs |-> IF u = cSlash THEN c ELSE u]

SmallManifests ==
  { <<>>, <<a>>, <<b>>, <<c>>, <<root>>, <<a, b>>, <<b, a>>, <<cSlash, postgres>>,
    <<b, cSlash>>, <<a, a, b>> }
=============================================================================
