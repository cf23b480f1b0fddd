--------------------------- MODULE DeploymentRun ---------------------------
(***************************************************************************)
(* What a deployment run promises of its steps, without phases' loops,     *)
(* tasks, batches, retries, hooks, records and consoles: a step is settled *)
(* once, it only runs on steps that succeeded, a deployment only follows a *)
(* build without a failure, cleaning up comes last, and the verdict is     *)
(* final.  PipelineRun implements it.                                      *)
(***************************************************************************)
CONSTANTS Build, Deploy, Finally   \* the steps of the three phases

VARIABLES
  needs,    \* what each step needs
  state,    \* how far each step is
  verdict   \* "none" before the run, "running", "success" or "failed"

absVars == <<needs, state, verdict>>

Step == Build \cup Deploy \cup Finally
Settled == {"success", "failed", "skipped"}

AbsInit ==
  /\ needs \in [Step -> SUBSET Step]
  /\ state = [s \in Step |-> "pending"]
  /\ verdict = "none"

\* A step may run, or be judged, when all it stands on is in place.
Ready(s) ==
  /\ state[s] = "pending" /\ verdict \in {"running", "failed"}
  /\ \A d \in needs[s] : state[d] = "success"
  /\ s \in Deploy => /\ \A b \in Build : state[b] \in {"success", "skipped"}
                     /\ verdict = "running"
  /\ s \in Finally => \A e \in Build \cup Deploy : state[e] \in Settled

StartRun == verdict = "none" /\ verdict' = "running" /\ UNCHANGED <<needs, state>>

Run(s) ==
  /\ Ready(s)
  /\ state' = [state EXCEPT ![s] = "running"]
  /\ UNCHANGED <<needs, verdict>>

\* Nothing to do, or something wrong with the step itself.
Judge(s) ==
  /\ Ready(s)
  /\ \E r \in {"success", "failed"} : state' = [state EXCEPT ![s] = r]
  /\ UNCHANGED <<needs, verdict>>

Finish(s) ==
  /\ state[s] = "running"
  /\ \E r \in {"success", "failed"} : state' = [state EXCEPT ![s] = r]
  /\ UNCHANGED <<needs, verdict>>

\* Any steps that have not begun may be left out, one or a whole phase.
Skip ==
  /\ \E S \in SUBSET {s \in Step : state[s] = "pending"} :
       state' = [s \in Step |-> IF s \in S THEN "skipped" ELSE state[s]]
  /\ verdict \in {"running", "failed"}
  /\ UNCHANGED <<needs, verdict>>

\* Failing is always possible, succeeding only with every step settled and
\* none of them failed; neither is taken back.
Decide ==
  /\ verdict = "running"
  /\ \/ verdict' = "failed"
     \/ verdict' = "success" /\ \A s \in Step : state[s] \in {"success", "skipped"}
  /\ UNCHANGED <<needs, state>>

AbsNext ==
  \/ StartRun \/ Skip \/ Decide
  \/ \E s \in Step : Run(s) \/ Judge(s) \/ Finish(s)

AbsSpec == AbsInit /\ [][AbsNext]_absVars
=============================================================================
