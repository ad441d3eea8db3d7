-------------------------- MODULE JobStatus_proofs --------------------------
(***************************************************************************)
(* Proofs about JobStatus, for every number of wanted pods and every       *)
(* backoff limit.                                                          *)
(***************************************************************************)
EXTENDS JobStatus, TLAPS

Condition == [type : {"Complete", "Failed", "Suspended"}, status : BOOLEAN]

\* The condition at n decides what the reader makes of the Job.
Decides(cs, n) == cs[n].type \in {"Complete", "Failed"} /\ cs[n].status

JobTypeOK ==
    /\ succeeded \in Nat /\ failed \in Nat
    /\ conditions \in Seq(Condition)

\* The Job controller ends a Job once, and for a reason that stays true.
EndsOnce ==
    \A m, n \in DOMAIN conditions :
        Decides(conditions, m) /\ Decides(conditions, n) => m = n
CompleteMeansSucceeded == Has("Complete") => succeeded >= Wanted

\* The last verdict still is what the conditions say.
VerdictStands ==
    /\ verdict = "Current" => Has("Complete")
    /\ verdict = "Failed" => Has("Failed")

JobInv == JobTypeOK /\ EndsOnce /\ CompleteMeansSucceeded /\ VerdictStands

-----------------------------------------------------------------------------
\* The reader's verdict is backed by a condition.
LEMMA VerdictHasCondition ==
    /\ JobConditions(conditions) = "Current" => Has("Complete")
    /\ JobConditions(conditions) = "Failed" => Has("Failed")
<1> DEFINE first == {n \in DOMAIN conditions :
                        /\ Decides(conditions, n)
                        /\ \A m \in 1..(n - 1) : ~Decides(conditions, m)}
<1>1. JobConditions(conditions) = CASE first = {} -> "InProgress"
         [] \E n \in first : conditions[n].type = "Complete" -> "Current"
         [] OTHER -> "Failed"
  BY DEF JobConditions, Decides
<1>2. \A n \in first : n \in DOMAIN conditions /\ Decides(conditions, n)
  OBVIOUS
<1> HIDE DEF first
<1> QED BY <1>1, <1>2 DEF Has, Decides

\* A Job that has ended once is read as it ended.
LEMMA OneEndDecides ==
    ASSUME conditions \in Seq(Condition), EndsOnce
    PROVE  /\ Has("Complete") => JobConditions(conditions) = "Current"
           /\ Has("Failed") => JobConditions(conditions) = "Failed"
<1> DEFINE first == {n \in DOMAIN conditions :
                        /\ Decides(conditions, n)
                        /\ \A m \in 1..(n - 1) : ~Decides(conditions, m)}
<1>1. JobConditions(conditions) = CASE first = {} -> "InProgress"
         [] \E n \in first : conditions[n].type = "Complete" -> "Current"
         [] OTHER -> "Failed"
  BY DEF JobConditions, Decides
<1>2. ASSUME NEW n \in DOMAIN conditions, Decides(conditions, n)
      PROVE  first = {n}
  <2>1. ASSUME NEW m \in 1..(n - 1) PROVE ~Decides(conditions, m)
    <3>1. DOMAIN conditions = 1..Len(conditions) /\ Len(conditions) \in Nat
      OBVIOUS
    <3>2. m \in DOMAIN conditions /\ m # n
      BY <3>1
    <3> QED BY <1>2, <3>2 DEF EndsOnce
  <2>2. n \in first
    BY <1>2, <2>1
  <2>3. \A m \in first : m = n
    BY <1>2 DEF EndsOnce
  <2> QED BY <2>2, <2>3
<1> HIDE DEF first
<1>3. ASSUME Has("Complete") PROVE JobConditions(conditions) = "Current"
  <2>1. PICK n \in DOMAIN conditions : conditions[n].type = "Complete" /\ conditions[n].status
    BY <1>3 DEF Has
  <2>2. first = {n}
    BY <1>2, <2>1 DEF Decides
  <2>3. first # {} /\ \E m \in first : conditions[m].type = "Complete"
    BY <2>1, <2>2
  <2> QED BY <1>1, <2>3
<1>4. ASSUME Has("Failed") PROVE JobConditions(conditions) = "Failed"
  <2>1. PICK n \in DOMAIN conditions : conditions[n].type = "Failed" /\ conditions[n].status
    BY <1>4 DEF Has
  <2>2. first = {n}
    BY <1>2, <2>1 DEF Decides
  <2>3. first # {} /\ ~(\E m \in first : conditions[m].type = "Complete")
    BY <2>1, <2>2
  <2> QED BY <1>1, <2>3
<1> QED BY <1>3, <1>4

\* What a new condition makes of the list.
LEMMA AddsCondition ==
    ASSUME conditions \in Seq(Condition),
           NEW type \in {"Complete", "Failed", "Suspended"}, Adds(type)
    PROVE  /\ conditions' \in Seq(Condition)
           /\ DOMAIN conditions' = DOMAIN conditions \cup {Len(conditions) + 1}
           /\ \A n \in DOMAIN conditions : conditions'[n] = conditions[n]
           /\ conditions'[Len(conditions) + 1] = [type |-> type, status |-> TRUE]
           /\ Len(conditions) + 1 \notin DOMAIN conditions
<1> DEFINE c == [type |-> type, status |-> TRUE]
<1>1. c \in Condition
  BY DEF Condition
<1>2. conditions' = Append(conditions, c)
  BY DEF Adds
<1> HIDE DEF c
<1>3. conditions' \in Seq(Condition)
  BY <1>1, <1>2
<1>4. /\ DOMAIN conditions' = DOMAIN conditions \cup {Len(conditions) + 1}
      /\ \A n \in DOMAIN conditions : conditions'[n] = conditions[n]
      /\ conditions'[Len(conditions) + 1] = c
      /\ Len(conditions) + 1 \notin DOMAIN conditions
  BY <1>1, <1>2
<1> QED BY <1>3, <1>4 DEF c

\* Resuming a Job touches no condition that decides.
LEMMA ResumesCondition ==
    ASSUME conditions \in Seq(Condition), Resumes
    PROVE  /\ conditions' \in Seq(Condition)
           /\ DOMAIN conditions' = DOMAIN conditions
           /\ \A n \in DOMAIN conditions :
                 /\ Decides(conditions', n) <=> Decides(conditions, n)
                 /\ conditions'[n].type = conditions[n].type
<1>1. PICK n \in DOMAIN conditions :
         /\ conditions[n].type = "Suspended"
         /\ conditions' = [conditions EXCEPT ![n].status = FALSE]
  BY DEF Resumes
<1>2. /\ DOMAIN conditions' = DOMAIN conditions
      /\ \A m \in DOMAIN conditions \ {n} : conditions'[m] = conditions[m]
      /\ conditions'[n] = [conditions[n] EXCEPT !.status = FALSE]
  BY <1>1
<1>3. \A m \in DOMAIN conditions : conditions[m] \in Condition
  OBVIOUS
<1>4. conditions'[n] \in Condition /\ conditions'[n].type = "Suspended"
  BY <1>1, <1>2, <1>3 DEF Condition
<1>5. \A m \in DOMAIN conditions : conditions'[m] \in Condition
  BY <1>2, <1>3, <1>4
<1>6. conditions' \in Seq(Condition)
  <2>1. DOMAIN conditions = 1..Len(conditions) /\ Len(conditions) \in Nat
    OBVIOUS
  <2>2. conditions' \in [1..Len(conditions) -> Condition]
    BY <1>1, <1>2, <1>5, <2>1
  <2> QED BY <2>1, <2>2
<1> QED BY <1>1, <1>2, <1>4, <1>6 DEF Decides

-----------------------------------------------------------------------------
\* What the verdicts rest on holds in every behaviour.
THEOREM JobInvariant == Spec => []JobInv
<1>1. Init => JobInv
  BY DEF Init, JobInv, JobTypeOK, EndsOnce, CompleteMeansSucceeded, VerdictStands, Has
<1>2. JobInv /\ [Next]_vars => JobInv'
  <2> SUFFICES ASSUME JobInv, [Next]_vars PROVE JobInv'
    OBVIOUS
  <2> USE DEF JobInv
  <2>0. Wanted \in Nat /\ BackoffLimit \in Nat /\ JobTypeOK
    BY JobAssumption
  <2>1. CASE PodEnds
    <3>1. UNCHANGED <<conditions, verdict>> /\ JobTypeOK' /\ succeeded' >= succeeded
      BY <2>0, <2>1 DEF PodEnds, JobTypeOK
    <3>2. Has("Complete")' = Has("Complete") /\ Has("Failed")' = Has("Failed")
      BY <3>1 DEF Has
    <3>3. CompleteMeansSucceeded'
      BY <2>0, <3>1, <3>2 DEF CompleteMeansSucceeded, JobTypeOK
    <3> QED BY <3>1, <3>2, <3>3 DEF EndsOnce, VerdictStands
  <2>2. ASSUME NEW type \in {"Complete", "Failed", "Suspended"}, Adds(type),
               ~Finished, type = "Complete" => succeeded >= Wanted
        PROVE  JobInv'
    <3>1. /\ conditions' \in Seq(Condition)
          /\ DOMAIN conditions' = DOMAIN conditions \cup {Len(conditions) + 1}
          /\ \A n \in DOMAIN conditions : conditions'[n] = conditions[n]
          /\ conditions'[Len(conditions) + 1] = [type |-> type, status |-> TRUE]
      BY <2>0, <2>2, AddsCondition DEF JobTypeOK
    <3>2. UNCHANGED <<succeeded, failed, verdict>>
      BY <2>2 DEF Adds
    <3>3. \A n \in DOMAIN conditions : ~Decides(conditions, n)
      BY <2>2 DEF Finished, Has, Decides
    <3>4. \A n \in DOMAIN conditions' :
             Decides(conditions', n) => n = Len(conditions) + 1
      BY <3>1, <3>3 DEF Decides
    <3>5. EndsOnce'
      BY <3>4 DEF EndsOnce
    <3>6. CompleteMeansSucceeded'
      BY <2>2, <3>1, <3>2, <3>3 DEF CompleteMeansSucceeded, Has, Decides
    <3>7. VerdictStands'
      BY <2>2, <3>2 DEF VerdictStands, Finished
    <3> QED BY <2>0, <3>1, <3>2, <3>5, <3>6, <3>7 DEF JobTypeOK
  <2>3. CASE Ends
    BY <2>2, <2>3 DEF Ends
  <2>4. CASE Suspends
    BY <2>2, <2>4 DEF Suspends, Running
  <2>5. CASE Resumes
    <3>1. /\ conditions' \in Seq(Condition)
          /\ DOMAIN conditions' = DOMAIN conditions
          /\ \A n \in DOMAIN conditions :
                /\ Decides(conditions', n) <=> Decides(conditions, n)
                /\ conditions'[n].type = conditions[n].type
      BY <2>0, <2>5, ResumesCondition DEF JobTypeOK
    <3>2. UNCHANGED <<succeeded, failed, verdict>>
      BY <2>5 DEF Resumes
    <3>3. (Has("Complete")' <=> Has("Complete")) /\ (Has("Failed")' <=> Has("Failed"))
      BY <3>1 DEF Has, Decides
    <3>4. EndsOnce'
      BY <3>1 DEF EndsOnce
    <3> QED BY <2>0, <3>1, <3>2, <3>3, <3>4
            DEF JobTypeOK, CompleteMeansSucceeded, VerdictStands
  <2>6. CASE ReadStatus
    <3>1. UNCHANGED <<succeeded, failed, conditions>> /\ verdict' = JobConditions(conditions)
      BY <2>6 DEF ReadStatus
    <3>2. Has("Complete")' = Has("Complete") /\ Has("Failed")' = Has("Failed")
      BY <3>1 DEF Has
    <3>3. VerdictStands'
      BY <3>1, <3>2, VerdictHasCondition DEF VerdictStands
    <3> QED BY <3>1, <3>2, <3>3 DEF JobTypeOK, EndsOnce, CompleteMeansSucceeded
  <2>7. CASE UNCHANGED vars
    BY <2>7 DEF vars, JobTypeOK, EndsOnce, CompleteMeansSucceeded, VerdictStands, Has
  <2> QED BY <2>1, <2>3, <2>4, <2>5, <2>6, <2>7 DEF Next
<1> QED BY <1>1, <1>2, PTL DEF Spec

\* A Job is reported current only when all its pods have succeeded.
THEOREM CurrentIsCompleted == Spec => []CurrentMeansCompleted
<1>1. JobInv => CurrentMeansCompleted
  BY DEF JobInv, VerdictStands, CompleteMeansSucceeded, CurrentMeansCompleted
<1> QED BY <1>1, JobInvariant, PTL

\* The health check gets the same answer for good once a Job has ended.
THEOREM VerdictStays == Spec => VerdictIsFinal
<1>1. JobInv /\ [Next]_vars
         => [(verdict \in {"Current", "Failed"}) => verdict' = verdict]_vars
  <2> SUFFICES ASSUME JobInv, Next, verdict \in {"Current", "Failed"}
               PROVE  verdict' = verdict
    OBVIOUS
  <2>1. CASE ReadStatus
    BY <2>1, OneEndDecides DEF ReadStatus, JobInv, JobTypeOK, VerdictStands
  <2>2. CASE PodEnds \/ Ends \/ Suspends \/ Resumes
    BY <2>2 DEF PodEnds, Ends, Suspends, Resumes, Adds
  <2> QED BY <2>1, <2>2 DEF Next
<1> QED BY <1>1, JobInvariant, PTL DEF Spec, VerdictIsFinal
=============================================================================
