----------------------------- MODULE JobStatus -----------------------------
(***************************************************************************)
(* internal/statusreaders/job.go: what the health check makes of a Job.    *)
(* The Job controller runs the pods and adds conditions one at a time, one *)
(* that the reader does not know and that turns false again among them;    *)
(* the status poller looks at the Job now and then.                        *)
(***************************************************************************)
EXTENDS Integers, Sequences

CONSTANTS
    Wanted,        \* pods that have to succeed
    BackoffLimit   \* failed pods after which the Job fails

ASSUME JobAssumption == Wanted \in Nat /\ BackoffLimit \in Nat

\* Mutants: a Job that has not failed counts as current, as in the reader this
\* one is derived from; only one condition is looked at.
JobConditionsOfStarted(cs) ==
    IF \E n \in DOMAIN cs : cs[n].type = "Failed" /\ cs[n].status THEN "Failed"
    ELSE "Current"
JobConditionsOfOne(cs) ==
    CASE cs = <<>> \/ cs[1].type = "Suspended" -> "InProgress"
      [] cs[1].type = "Complete" -> "Current"
      [] OTHER -> "Failed"

\* The first condition that is Complete or Failed, and true, decides.  (The
\* conditions come typed from the API server: the conversion ahead of the loop
\* does not fail for them.)
JobConditions(cs) ==
    LET decides(n) == cs[n].type \in {"Complete", "Failed"} /\ cs[n].status
        first == {n \in DOMAIN cs : decides(n) /\ \A m \in 1..(n - 1) : ~decides(m)}
    IN  CASE first = {} -> "InProgress"
          [] \E n \in first : cs[n].type = "Complete" -> "Current"
          [] OTHER -> "Failed"

-----------------------------------------------------------------------------
(* The Job controller and the poller *)

VARIABLES
    succeeded,   \* pods that ended well
    failed,      \* pods that ended badly
    conditions,  \* of the Job's status
    verdict      \* of the poller's last look

vars == <<succeeded, failed, conditions, verdict>>

Init ==
    /\ succeeded = 0 /\ failed = 0
    /\ conditions = <<>>
    /\ verdict = "InProgress"

Has(type) == \E n \in DOMAIN conditions : conditions[n].type = type /\ conditions[n].status
Finished == Has("Complete") \/ Has("Failed")
Running == ~Finished /\ succeeded < Wanted /\ failed <= BackoffLimit

PodEnds ==
    /\ Running /\ ~Has("Suspended")
    /\ \/ succeeded' = succeeded + 1 /\ UNCHANGED failed
       \/ failed' = failed + 1 /\ UNCHANGED succeeded
    /\ UNCHANGED <<conditions, verdict>>

Adds(type) ==
    /\ conditions' = Append(conditions, [type |-> type, status |-> TRUE])
    /\ UNCHANGED <<succeeded, failed, verdict>>

Ends ==
    /\ ~Finished
    /\ \/ succeeded >= Wanted /\ Adds("Complete")
       \/ failed > BackoffLimit /\ Adds("Failed")

\* The condition stays in the list when the Job is resumed; one suspension.
Suspends ==
    /\ Running
    /\ \A n \in DOMAIN conditions : conditions[n].type # "Suspended"
    /\ Adds("Suspended")

Resumes ==
    /\ \E n \in DOMAIN conditions :
          /\ conditions[n].type = "Suspended" /\ conditions[n].status
          /\ conditions' = [conditions EXCEPT ![n].status = FALSE]
    /\ UNCHANGED <<succeeded, failed, verdict>>

ReadStatus ==
    /\ verdict' = JobConditions(conditions)
    /\ UNCHANGED <<succeeded, failed, conditions>>

Next == PodEnds \/ Ends \/ Suspends \/ Resumes \/ ReadStatus

\* The poller polls; nothing is assumed of pods, users and the Job controller.
Spec == Init /\ [][Next]_vars /\ WF_vars(ReadStatus)

-----------------------------------------------------------------------------
(* Properties *)

\* "return Current status only when the Job has completed as opposed to when
\* it's in progress".
CurrentMeansCompleted == verdict = "Current" => succeeded >= Wanted

\* The health check stops at the first verdict of a Job that has ended: none is
\* taken back by a condition that is added or turns false later.
VerdictIsFinal == [][(verdict \in {"Current", "Failed"}) => verdict' = verdict]_vars

\* The health check learns how a Job has ended, whatever other conditions stand
\* before the one that says so.
VerdictArrives ==
    /\ Has("Complete") ~> verdict = "Current"
    /\ Has("Failed") ~> verdict = "Failed"
=============================================================================
