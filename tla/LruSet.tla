------------------------------- MODULE LruSet -------------------------------
(***************************************************************************)
(* What one set of the index promises: it keeps its ways in the order of   *)
(* their last use, a used way becomes the most recent and a discarded one  *)
(* the least recent, and a new entry takes the least recent way that is    *)
(* free.                                                                   *)
(***************************************************************************)
EXTENDS Integers

CONSTANT Ways

VARIABLES older,   \* the pairs of ways of which the first is less recent
          busy     \* the ways that may not be taken

lruVars == <<older, busy>>

AllWays == 0 .. Ways - 1

(* The order of the ways other than w.                                     *)
Without(w) == {pair \in older : pair[1] # w /\ pair[2] # w}

LruInit == /\ older = {pair \in AllWays \X AllWays : pair[1] < pair[2]}
           /\ busy = {}

MostRecently(w) == older' = Without(w) \cup {<<v, w>> : v \in AllWays \ {w}}

Use(w) == MostRecently(w) /\ UNCHANGED busy

Discard(w) == /\ older' = Without(w) \cup {<<w, v>> : v \in AllWays \ {w}}
              /\ UNCHANGED busy

Take(w) == /\ w \notin busy
           /\ \A v \in AllWays \ (busy \cup {w}) : <<w, v>> \in older
           /\ MostRecently(w)
           /\ busy' = busy \cup {w}

Lock(w) == busy' = busy \cup {w} /\ UNCHANGED older

Unlock(w) == busy' = busy \ {w} /\ UNCHANGED older

LruNext == \E w \in AllWays : Use(w) \/ Discard(w) \/ Take(w) \/ Lock(w) \/ Unlock(w)

LruSpec == LruInit /\ [][LruNext]_lruVars
=============================================================================
