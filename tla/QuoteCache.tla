----------------------------- MODULE QuoteCache -----------------------------
(***************************************************************************)
(* The cache of quote batches of the API (quote-cache.ts) as functions     *)
(* from one cache to the next.  A cache is                                 *)
(*   entries     the kept batches, with the turn in which each was put;    *)
(*   generation  how often the cache was cleared;                          *)
(*   previous    the last reading of its clock.                            *)
(* Payload bytes, the second reason to evict the oldest entries, are left  *)
(* out: an entry counts as one.                                            *)
(***************************************************************************)
EXTENDS Integers, FiniteSets, FiniteSetsExt

CONSTANTS Ttl,         \* how long a batch is kept, counted from before it was read
          MaxEntries

ASSUME CacheAssumption == Ttl \in Nat \ {0} /\ MaxEntries \in Nat \ {0}

EmptyCache == [entries |-> {}, generation |-> 0, previous |-> 0]

Cleared(c) == [c EXCEPT !.entries = {}, !.generation = @ + 1]

Backwards(c, now) == now < c.previous

\* Every operation first looks at the clock: a clock that went back clears the
\* cache, any other reading evicts what has grown too old.
Timed(c, now) ==
  IF Backwards(c, now)
  THEN [Cleared(c) EXCEPT !.previous = now]
  ELSE [c EXCEPT !.previous = now,
                 !.entries = {e \in @ : now - e.at < Ttl}]

\* A stamp is taken before the batch is read; none when the clock went back.
Begun(c, now) ==
  IF Backwards(c, now) THEN {} ELSE {[at |-> now, generation |-> c.generation]}

\* The entry kept under key, as a set of at most one.
Found(c, now, key) ==
  IF Backwards(c, now)
  THEN {}
  ELSE {e \in Timed(c, now).entries : e.key = key}

\* A Map keeps its entries in the order in which they were put.
NextTurn(entries) == 1 + Max({e.turn : e \in entries} \cup {0})

WithoutOldest(entries) == {e \in entries : \E older \in entries : older.turn < e.turn}

\* A plausible fault: the age counted from the end of the read.
Entry_AgedFromPut(key, stamp, now, block, turn) ==
  [key |-> key, at |-> now, stamp |-> stamp, block |-> block, turn |-> turn]

\* The code keeps the time of the stamp; the stamp itself and the block the
\* batch was read at are there for the properties.
Entry(key, stamp, now, block, turn) ==
  [key |-> key, at |-> stamp.at, stamp |-> stamp, block |-> block, turn |-> turn]

\* A stamp is good for one put, in its own generation and before it is too old,
\* and never replaces an entry; the oldest entry makes room.
Put(c, now, key, stamps, block) ==
  LET t == Timed(c, now)
      good == {s \in stamps : /\ ~Backwards(c, now)
                              /\ s.generation = t.generation
                              /\ s.at <= now
                              /\ now - s.at < Ttl
                              /\ \A e \in t.entries : e.key # key}
      room == IF Cardinality(t.entries) >= MaxEntries THEN WithoutOldest(t.entries) ELSE t.entries
  IN IF good = {} THEN t
     ELSE [t EXCEPT !.entries = room \cup {Entry(key, CHOOSE s \in good : TRUE, now, block, NextTurn(t.entries))}]
=============================================================================
