----------------------------- MODULE Lifecycle -----------------------------
(***************************************************************************)
(* What the controller promises of a LanguageModel and its workload,       *)
(* without caches, queues, patches or runs: the object is adopted before   *)
(* anything is created for it, an adopted object goes away only through a  *)
(* finalization, and a finalization leaves nothing.                        *)
(***************************************************************************)
CONSTANTS
    Workload,   \* the objects that may be created for a LanguageModel
    Forgetful   \* a finalization may leave objects behind

VARIABLES
    phase,      \* of the stored LanguageModel: "absent", "new" (without the
                \* finalizer), "adopted" or "finalizing" (under deletion)
    owned       \* the workload objects the controller would collect

vars == <<phase, owned>>

Init == phase \in {"absent", "new"} /\ owned = {}

Moves(from, to) == phase = from /\ phase' = to /\ UNCHANGED owned

Create == Moves("absent", "new")
Discard == Moves("new", "absent")
Adopt == Moves("new", "adopted")
Delete == Moves("adopted", "finalizing")

\* The last step of a deletion.
Finish == Moves("finalizing", "absent") /\ (Forgetful \/ owned = {})

\* A run that began before a deletion may still write during it.
Write ==
    /\ phase \in {"adopted", "finalizing"}
    /\ \E k \in Workload : owned' = owned \cup {k}
    /\ UNCHANGED phase

\* Objects are pruned, collected, deleted or taken over by someone else.
Lose ==
    /\ \E k \in owned : owned' = owned \ {k}
    /\ UNCHANGED phase

Next == Create \/ Discard \/ Adopt \/ Delete \/ Finish \/ Write \/ Lose

Spec == Init /\ [][Next]_vars
=============================================================================
