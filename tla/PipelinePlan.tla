---------------------------- MODULE PipelinePlan ----------------------------
(***************************************************************************)
(* The planner of a deployment pipeline (agent/pipeline/dag.go and         *)
(* planner.go): each phase's steps are put in dependency order by Kahn's   *)
(* algorithm, or the pipeline is refused.                                  *)
(*                                                                         *)
(* A step stands for its name; the empty and the duplicate name, which     *)
(* ValidateDAG refuses first, are left out.  Needs is a set: a dependency  *)
(* listed twice counts twice in inDegree and in adj alike.                 *)
(***************************************************************************)
EXTENDS Naturals, Sequences, SequencesExt, FiniteSets

Phases == {"build", "deploy", "finally"}

\* The steps of S in the order they are declared: a loop over the steps that
\* appends those it is looking for.
Picked(steps, S) ==
  LET picked[i \in 0 .. Len(steps)] ==
        IF i = 0 THEN <<>>
        ELSE IF steps[i] \in S THEN Append(picked[i - 1], steps[i])
        ELSE picked[i - 1]
  IN  picked[Len(steps)]

\* inDegree of s when the first n names placed have been taken off the queue.
InDegree(needs, placed, n, s) == Cardinality(needs[s] \ {placed[i] : i \in 1 .. n})

\* Mistake: a step is queued when the first of its dependencies is placed.
ReleasedEarly(steps, needs, placed, n) ==
  Picked(steps, {s \in ToSet(steps) : placed[n] \in needs[s] /\
                   InDegree(needs, placed, n - 1, s) = Cardinality(needs[s])})

\* The steps whose inDegree falls to zero when the n-th name is taken off.
Released(steps, needs, placed, n) ==
  Picked(steps, {s \in ToSet(steps) : placed[n] \in needs[s] /\
                   InDegree(needs, placed, n, s) = 0})

\* Kahn(steps, needs)[n] is what has been placed after n turns of the loop: the
\* first n names are out, the others are the queue.  A loop that has run dry
\* stays where it is.
Kahn(steps, needs) ==
  LET kahn[n \in 0 .. Len(steps)] ==
        IF n = 0 THEN Picked(steps, {s \in ToSet(steps) : needs[s] = {}})
        ELSE IF n > Len(kahn[n - 1]) THEN kahn[n - 1]
        ELSE kahn[n - 1] \o Released(steps, needs, kahn[n - 1], n)
  IN  kahn

KahnOrder(steps, needs) == Kahn(steps, needs)[Len(steps)]

KnownNeeds(steps, needs) == \A s \in ToSet(steps) : needs[s] \subseteq ToSet(steps)

\* ValidateDAG returns an order, or an error for an unknown dependency or a
\* cycle.
ValidateDAG(steps, needs) ==
  IF ~KnownNeeds(steps, needs) THEN [ok |-> FALSE, steps |-> <<>>]
  ELSE IF Len(KahnOrder(steps, needs)) # Len(steps) THEN [ok |-> FALSE, steps |-> <<>>]
  ELSE [ok |-> TRUE, steps |-> KahnOrder(steps, needs)]

-----------------------------------------------------------------------------
(* What the order is for, said without an algorithm.                       *)

\* No set of steps in which every member waits for a member.
Acyclic(steps, needs) ==
  \A T \in SUBSET ToSet(steps) : T # {} => \E s \in T : needs[s] \cap T = {}

IsDependencyOrder(order, steps, needs) ==
  /\ Len(order) = Len(steps)
  /\ ToSet(order) = ToSet(steps)
  /\ \A i \in 1 .. Len(order) :
       needs[order[i]] \subseteq {order[j] : j \in 1 .. (i - 1)}
=============================================================================
