------------------------------- MODULE Cache -------------------------------
(***************************************************************************)
(* The two-phase cache of src/src/cache.rs as operators on its CacheState: *)
(* what each critical section reads and leaves behind. Who runs them, and  *)
(* what happens between the read lock and the write lock, is up to the     *)
(* module that uses the cache. A map is a function on the keys it has.     *)
(***************************************************************************)
EXTENDS Functions

\* CacheState::Active with an empty map.
NewCache == [frozen |-> FALSE, map |-> << >>, view |-> << >>]

HasKey(c, k) == k \in DOMAIN c.map

\* The read section of get_or_init answers by itself: a hit, or a miss once frozen.
Answered(c, k) == HasKey(c, k) \/ c.frozen

\* What a lookup under either lock returns.
Lookup(c, k) == IF HasKey(c, k) THEN c.map[k] ELSE "None"

\* Mutant: what was computed replaces what another thread inserted meanwhile.
InsertOver(c, k, v) ==
  IF c.frozen THEN c
  ELSE [c EXCEPT !.map = [x \in DOMAIN c.map \cup {k} |-> IF x = k THEN v ELSE c.map[x]]]

\* The write section of get_or_init: insert only if still absent and active.
Insert(c, k, v) ==
  IF c.frozen \/ HasKey(c, k) THEN c
  ELSE [c EXCEPT !.map = [x \in DOMAIN c.map \cup {k} |-> IF x = k THEN v ELSE c.map[x]]]

\* The write section of get_or_init_python_mapping: add an entry v for the keys
\* ks that are missing, build the view, freeze.
Freeze(c, ks, v) ==
  IF c.frozen THEN c
  ELSE LET map == [x \in DOMAIN c.map \cup ks |-> IF HasKey(c, x) THEN c.map[x] ELSE v]
       IN [frozen |-> TRUE, map |-> map, view |-> map]
=============================================================================
