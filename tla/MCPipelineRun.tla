---------------------------- MODULE MCPipelineRun ----------------------------
(* Small pipelines for PipelineRun.                                         *)
EXTENDS PipelineRun

CONSTANTS make, push, swap, check, clean

MCDeclared == [build |-> <<make>>, deploy |-> <<push, swap, check>>,
               finally |-> <<clean>>]

Plain ==
  [needs |-> [s \in Steps |-> {}], runIf |-> [s \in Steps |-> "run"],
   usable |-> [s \in Steps |-> TRUE], tasks |-> [s \in Steps |-> 1],
   width |-> [s \in Steps |-> 1], retries |-> [s \in Steps |-> 0]]

\* Every dependency relation of the three deploy steps.
AnyNeeds ==
  {[Plain EXCEPT !.needs = [s \in Steps |->
       IF s = push THEN a ELSE IF s = swap THEN b ELSE IF s = check THEN c ELSE {}]] :
     a, b, c \in SUBSET {push, swap, check}}

\* Three targets in batches of two, or all at once, with a retry.
Rolling == [Plain EXCEPT !.tasks[push] = 3, !.width[push] = 2,
                         !.needs[swap] = {push}, !.retries[push] = 1]
Parallel == [Plain EXCEPT !.tasks[push] = 2, !.width[push] = 2, !.needs[swap] = {push}]

\* Steps that are settled without running a task.
Odd ==
  {[Plain EXCEPT !.runIf[push] = "skip", !.needs[swap] = {push}],
   [Plain EXCEPT !.runIf[make] = "invalid"],
   [Plain EXCEPT !.usable[check] = FALSE, !.tasks[push] = 0, !.needs[swap] = {push}],
   [Plain EXCEPT !.usable[make] = FALSE, !.needs[clean] = {make}]}

\* For the consoles: a step a phase, two to finish.
ShortDeclared == [build |-> <<make>>, deploy |-> <<push>>, finally |-> <<clean, check>>]
Short == {Plain, [Plain EXCEPT !.tasks[push] = 2, !.width[push] = 2]}

MCPipelines == AnyNeeds \cup {Rolling, Parallel} \cup Odd
=============================================================================
