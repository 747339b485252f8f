------------------------------ MODULE LruCache ------------------------------
(***************************************************************************)
(* The byte-budgeted cache of decoded bricks (core/LruCache.h and            *)
(* data/RamCache.h): a list of entries, the most recently used first, from   *)
(* whose end unpinned entries are evicted when an insert goes over budget.   *)
(*                                                                         *)
(* Every operation holds the cache's mutex throughout, so each is one step;  *)
(* its callers are left to BrickAssembly.  A value is known by its size.     *)
(* Pin counts go up to MaxPins.                                              *)
(*                                                                         *)
(* ReplaceKeepsBytes and UnpinUnguarded are faulty variants of the           *)
(* definitions they precede; nothing uses them.                              *)
(***************************************************************************)
EXTENDS Naturals, Sequences, SequencesExt

CONSTANTS
  RamKeys,    \* keys of the cache
  Sizes,      \* sizes of the values inserted
  RamBudget,  \* budget_
  Pins,       \* pin counts an insert may ask for: insertPinned() asks for 1
  MaxPins     \* bound on pin counts

ASSUME LruAssumption ==
  /\ Sizes \subseteq Nat \ {0}
  /\ RamBudget \in Nat
  /\ MaxPins \in Nat
  /\ Pins \subseteq 0..MaxPins

VARIABLES
  lru,        \* lru_, and map_, which points into it
  bytesUsed   \* bytesUsed_

lruVars == <<lru, bytesUsed>>

LruEntry == [key : RamKeys, bytes : Sizes, pinCount : 0..MaxPins]

KeysOf(l) == {l[i].key : i \in DOMAIN l}

Position(l, k) == CHOOSE i \in DOMAIN l : l[i].key = k

(* The entries l without the one of key k. *)
Without(l, k) == IF k \in KeysOf(l) THEN RemoveAt(l, Position(l, k)) ELSE l

BytesOf(l) ==
  LET sum[i \in 0 .. Len(l)] == IF i = 0 THEN 0 ELSE sum[i - 1] + l[i].bytes
  IN  sum[Len(l)]

-----------------------------------------------------------------------------
(* A key that is not cached is not found, and nothing changes.               *)
Get(k) ==
  /\ k \in KeysOf(lru)
  /\ lru' = <<lru[Position(lru, k)]>> \o Without(lru, k)
  /\ UNCHANGED bytesUsed

(* evictLocked() walks from the end: while the cache is over budget, an      *)
(* entry goes unless it is pinned.                                           *)
evictLocked(l, bytes) ==
  LET walk[i \in 1 .. Len(l) + 1] ==
        IF i > Len(l) THEN [kept |-> <<>>, bytes |-> bytes]
        ELSE LET behind == walk[i + 1] IN
             IF behind.bytes > RamBudget /\ l[i].pinCount = 0
             THEN [kept |-> behind.kept, bytes |-> behind.bytes - l[i].bytes]
             ELSE [kept |-> <<l[i]>> \o behind.kept, bytes |-> behind.bytes]
  IN  walk[1]

ReplaceKeepsBytes(k) == bytesUsed

(* An insert first takes out the entry it replaces, pins and all.            *)
Replaced(k) ==
  IF k \in KeysOf(lru) THEN bytesUsed - lru[Position(lru, k)].bytes
                       ELSE bytesUsed

Insert(k, size, pins) ==
  LET full == <<[key |-> k, bytes |-> size, pinCount |-> pins]>> \o Without(lru, k)
      left == evictLocked(full, Replaced(k) + size)
  IN  /\ lru' = left.kept
      /\ bytesUsed' = left.bytes

Pin(k) ==
  /\ k \in KeysOf(lru)
  /\ lru[Position(lru, k)].pinCount < MaxPins
  /\ lru' = [lru EXCEPT ![Position(lru, k)].pinCount = @ + 1]
  /\ UNCHANGED bytesUsed

UnpinUnguarded(k) ==
  /\ k \in KeysOf(lru)
  /\ lru' = [lru EXCEPT ![Position(lru, k)].pinCount = @ - 1]
  /\ UNCHANGED bytesUsed

(* Nothing is evicted here: the cache stays over budget until an insert.     *)
Unpin(k) ==
  /\ k \in KeysOf(lru)
  /\ lru[Position(lru, k)].pinCount > 0
  /\ lru' = [lru EXCEPT ![Position(lru, k)].pinCount = @ - 1]
  /\ UNCHANGED bytesUsed

-----------------------------------------------------------------------------
LruInit ==
  /\ lru = <<>>
  /\ bytesUsed = 0

InsertAny(k) == \E size \in Sizes, pins \in Pins : Insert(k, size, pins)

(* Any operation, called by anybody. *)
LruNext == \E k \in RamKeys : Get(k) \/ InsertAny(k) \/ Pin(k) \/ Unpin(k)

LruSpec == LruInit /\ [][LruNext]_lruVars

-----------------------------------------------------------------------------
(* Properties. *)

LruTypeOK ==
  /\ lru \in Seq(LruEntry)
  /\ bytesUsed \in Nat

Gone == {i \in DOMAIN lru : lru[i].key \notin KeysOf(lru')}

(* BudgetKept: bytesUsed_ is kept up by hand on replacement, insertion and   *)
(* eviction, and never computed afresh; yet it is always the sum of the      *)
(* sizes of the entries, one per key.  An insert makes room: it leaves the   *)
(* cache over budget only if everything in it is pinned (LruCache.h:16),     *)
(* whatever was unpinned, replaced by a larger value, or over budget before; *)
(* pinned entries stay (LruCache.h:13), and so does every unpinned one that  *)
(* is hotter than one that stays; only a replaced value (k) loses its pins.  *)
BudgetKept ==
  [][/\ bytesUsed' = BytesOf(lru')
     /\ \A i, j \in DOMAIN lru' : lru'[i].key = lru'[j].key => i = j
     /\ bytesUsed' # bytesUsed /\ bytesUsed' > RamBudget =>
          \A i \in DOMAIN lru' : lru'[i].pinCount > 0
     /\ \E k \in RamKeys : \A i \in Gone :
          \/ /\ lru[i].pinCount = 0
             /\ \A j \in i + 1 .. Len(lru) :
                  lru[j].pinCount = 0 => j \in Gone \/ lru[j].key = lru'[1].key
          \/ lru[i].key = k /\ \A j \in DOMAIN lru' : lru'[j].pinCount > 0]_lruVars

=============================================================================
