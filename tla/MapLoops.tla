------------------------------- MODULE MapLoops -------------------------------
(***************************************************************************)
(* Loops over a HashMap: the calls of GraveyardMap.tla between the loops   *)
(* of Iteration.tla, and what a loop may do to a map as it goes on.        *)
(***************************************************************************)
EXTENDS Iteration, GraveyardMap

allVars == <<vars, loopVars, mapVars>>

\* `it->second = t` in the body of a loop
AssignInLoop(t) ==
  /\ Running /\ loop = "visit"
  /\ buckets_' = [buckets_ EXCEPT ![it[1]].slots[it[2]] = <<KeyOf[@], t>>]
  /\ UNCHANGED <<hasher, size_, logical_size_, pc, call, result, scan, target,
                 loopVars, mapVars>>

MapLoopsInit == MapInit /\ LoopInit

\* Inserts, clear and rehashes happen between loops only.
MapLoopsNext ==
  \/ loop = "none" /\ MapNext /\ UNCHANGED loopVars
  \/ loop = "none" /\ Ready /\ Start /\ UNCHANGED mapVars
  \/ (\E key \in Keys : EraseMeanwhile(key)) /\ UNCHANGED mapVars
  \/ \E t \in Mapped : AssignInLoop(t)
  \/ LoopStep /\ UNCHANGED mapVars

\* One thread: a loop that runs goes on.
MapLoopsSpec ==
  /\ MapLoopsInit /\ [][MapLoopsNext]_allVars
  /\ WF_allVars(LoopStep /\ UNCHANGED mapVars)
=============================================================================
