------------------------------ MODULE LruLine ------------------------------
(***************************************************************************)
(* One line of TreeLRUPolicy under any sequence of hits and fills, as      *)
(* SimpleCache::tick() reports them, with the ways used last as history.   *)
(***************************************************************************)
EXTENDS TreeLRU, Sequences

VARIABLES
  bits,
  recent     \* history: the ways used last, at most LogAssoc of them, newest first

lruVars == <<bits, recent>>

LruInit == bits = Cold /\ recent = <<>>

Remembered(w) ==
  LET all == <<w>> \o recent
  IN SubSeq(all, 1, IF Len(all) < LogAssoc THEN Len(all) ELSE LogAssoc)

Use(w) ==
  /\ bits' = Logged(bits, w)
  /\ recent' = Remembered(w)

\* The cache reports a hit in any way, or fills the victim and reports that.
Hit == \E w \in Way : Use(w)
Fill == Use(Victim(bits))

LruNext == Hit \/ Fill

LruSpec == LruInit /\ [][LruNext]_lruVars

-----------------------------------------------------------------------------
\* The victim of get_eviction_id() is none of the last LogAssoc ways log_hit() was
\* given: each use of another way can turn at most one node of a way's path back
\* towards it.  Two traversals that disagreed on the numbering of nodes or on the
\* order of the bits would evict a line that was just used.
RecentlyUsedSurvive ==
  \A i \in DOMAIN recent : recent[i] # Victim(bits)

\* The line after n fills in a row.
Filled[n \in Way] ==
  IF n = 0 THEN bits
  ELSE LET before == Filled[n - 1] IN Logged(before, Victim(before))

\* As many fills in a row as there are ways use every way once, from whatever
\* state: no way of a line is starved, none is filled twice while another waits.
FillsSweepTheLine == \A w \in Way : \E n \in Way : Victim(Filled[n]) = w
=============================================================================
