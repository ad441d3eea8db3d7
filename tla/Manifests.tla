----------------------------- MODULE Manifests -----------------------------
(***************************************************************************)
(* What buildKubernetes and buildKnative compute from the engine settings  *)
(* of a LanguageModel and from the metadata of its artifact: requests and  *)
(* limits, the number of threads, the volume the model goes to, and the    *)
(* time the health check waits.  Byte quantities are counted in blocks of  *)
(* 512 bytes, of which both 10^9 and 2^30 bytes are whole numbers; CPU is  *)
(* counted in thousandths, durations in seconds.                           *)
(***************************************************************************)
EXTENDS Integers

CONSTANTS
    Cpus, Blocks,      \* amounts a user asks for, of CPU and of bytes
    Quantities,        \* what the metadata may say, well formed or not
    Durations          \* intervals and timeouts

Unset == -1            \* a field that is not there

Giga == 1953125        \* blocks in 10^9 bytes
Gibi == 2097152        \* blocks in 2^30 bytes

\* A quantity as ParseQuantity has it; "malformed" stands for one it refuses.
Formats == {"BinarySI", "DecimalSI", "DecimalExponent", "malformed"}
Missing == [format |-> "missing", blocks |-> 0]

ASSUME ManifestsAssumption ==
    /\ Cpus \subseteq Nat /\ Blocks \subseteq Nat
    /\ Quantities \subseteq [format : Formats, blocks : Nat]
    /\ Durations \subseteq Nat

ResourceLists == [cpu : Cpus \cup {Unset}, memory : Blocks \cup {Unset},
                  storage : Blocks \cup {Unset}]

\* The engine's fields; a timeout that is not set is Unset.
Engines == [requests : ResourceLists, limits : ResourceLists,
            knative : BOOLEAN, usePvc : BOOLEAN,
            interval : Durations, timeout : Durations \cup {Unset}]

Metadata == [sizeOnDisk : Quantities \cup {Missing},
             memoryRequired : Quantities \cup {Missing}]

CeilDiv(a, b) == (a + b - 1) \div b

-----------------------------------------------------------------------------
(* roundGigaQuantity *)

\* Factors are counted in fifths: 1.20 is 6, 1.00 is 5.  The float 1.20 is off
\* by less than the product's rounding, so whole products stay whole.
SizeOnDiskSafetyFactor == 6
MemorySafetyFactor == 5

\* Mutant: the value in units of 10^9 is rounded down.
ScaledValueDown(q) == q.blocks \div Giga

\* Quantity.ScaledValue(Giga): units of 10^9 bytes, whatever the format,
\* rounded up.
ScaledValue(q) == CeilDiv(q.blocks, Giga)

\* The number is computed in units of 10^9 bytes and printed with the suffix
\* of the input's format.
RoundGigaQuantity(q, factor) ==
    CeilDiv(ScaledValue(q) * factor, 5) * (IF q.format = "BinarySI" THEN Gibi ELSE Giga)

\* Neither a quantity that does not parse nor one in exponent form is taken.
RoundGigaFails(q) == q.format \in {"malformed", "DecimalExponent"}

-----------------------------------------------------------------------------
(* buildKubernetes *)

\* A quantity from the metadata, if there is one, replaces the user's.
FromMetadata(q, factor, given) ==
    IF q = Missing THEN given ELSE RoundGigaQuantity(q, factor)

Requests(e, m) ==
    [e.requests EXCEPT
        !.storage = FromMetadata(m.sizeOnDisk, SizeOnDiskSafetyFactor, @),
        !.memory = FromMetadata(m.memoryRequired, MemorySafetyFactor, @)]

\* The amount of CPU asked for; a missing entry reads as zero.
Cpu(e) == IF e.requests.cpu = Unset THEN 0 ELSE e.requests.cpu

\* Mutant: the limits stay as the user, or the default, gave them.
LimitsAsGiven(e, m) == [e.limits EXCEPT !.cpu = Cpu(e)]

\* The CPU limit is the request; a quantity from the metadata is both.
Limits(e, m) ==
    [e.limits EXCEPT
        !.cpu = Cpu(e),
        !.storage = FromMetadata(m.sizeOnDisk, SizeOnDiskSafetyFactor, @),
        !.memory = FromMetadata(m.memoryRequired, MemorySafetyFactor, @)]

\* Mutant: no CPU is left for the web server.
ThreadsOnAll(e) ==
    IF CeilDiv(Cpu(e), 1000) < 1 THEN 1 ELSE CeilDiv(Cpu(e), 1000)

Threads(e) ==
    LET threads == CeilDiv(Cpu(e), 1000) - 1
    IN  IF threads < 1 THEN 1 ELSE threads

\* Room on the volume the model is downloaded to: the claim has a fixed size,
\* an emptyDir lives off the ephemeral storage the pod may use.
ModelVolume(e, limits) == IF e.usePvc THEN 10 * Gibi ELSE limits.storage

BuildFails(m) == RoundGigaFails(m.sizeOnDisk) \/ RoundGigaFails(m.memoryRequired)

\* Mutant: no minimum.
GetTimeoutAsIs(e) == IF e.timeout = Unset THEN e.interval - 30 ELSE e.timeout

\* The health check of what was built waits this long.
GetTimeout(e) ==
    LET duration == IF e.timeout = Unset THEN e.interval - 30 ELSE e.timeout
    IN  IF duration < 30 THEN 30 ELSE duration

BuildKubernetes(e, m) ==
    [requests |-> Requests(e, m), limits |-> Limits(e, m), threads |-> Threads(e),
     volume |-> ModelVolume(e, Limits(e, m)), wait |-> GetTimeout(e)]

\* Knative gets the user's resources as they are, and its own emptyDir.
BuildKnative(e) ==
    [requests |-> e.requests, limits |-> e.limits, threads |-> Unset,
     volume |-> e.limits.storage, wait |-> GetTimeout(e)]

-----------------------------------------------------------------------------
VARIABLES
    engine,    \* the LanguageModel's engine settings
    metadata,  \* of the artifact
    outcome,   \* of the last build: "none", "built" or "failed"
    built      \* the containers' settings

vars == <<engine, metadata, outcome, built>>

NothingGiven == [cpu |-> Unset, memory |-> Unset, storage |-> Unset]
NothingBuilt == [requests |-> NothingGiven, limits |-> NothingGiven,
                 threads |-> Unset, volume |-> Unset, wait |-> 0]

Init ==
    /\ engine \in Engines
    /\ metadata \in Metadata
    /\ outcome = "none"
    /\ built = NothingBuilt

BuildForKubernetes ==
    /\ outcome = "none" /\ ~engine.knative
    /\ IF BuildFails(metadata)
          THEN outcome' = "failed" /\ UNCHANGED built
          ELSE outcome' = "built" /\ built' = BuildKubernetes(engine, metadata)
    /\ UNCHANGED <<engine, metadata>>

BuildForKnative ==
    /\ outcome = "none" /\ engine.knative
    /\ outcome' = "built" /\ built' = BuildKnative(engine)
    /\ UNCHANGED <<engine, metadata>>

\* The source moves on to the next artifact, and a new run begins.
NewArtifact ==
    /\ outcome # "none"
    /\ metadata' \in Metadata
    /\ outcome' = "none" /\ built' = NothingBuilt
    /\ UNCHANGED engine

Next == BuildForKubernetes \/ BuildForKnative \/ NewArtifact

Spec == Init /\ [][Next]_vars

-----------------------------------------------------------------------------
(* Properties *)

Kubernetes == outcome = "built" /\ ~engine.knative

\* The rounding, which counts in 10^9 and prints in 2^30 or 10^9 bytes, never
\* asks for less than what the artifact says it needs, with the safety factor:
\* five times the request is at least the factor in fifths of the quantity.
\* The volume the model is downloaded to has room for it, unless it is the
\* claim, whose size does not depend on the model.
RequestsCover ==
    Kubernetes =>
        /\ metadata.memoryRequired # Missing =>
              5 * built.requests.memory
                  >= MemorySafetyFactor * metadata.memoryRequired.blocks
        /\ metadata.sizeOnDisk # Missing =>
              5 * built.requests.storage
                  >= SizeOnDiskSafetyFactor * metadata.sizeOnDisk.blocks
        /\ metadata.sizeOnDisk # Missing /\ ~engine.usePvc =>
              built.volume >= metadata.sizeOnDisk.blocks

\* What the API server demands of requests and limits.
Admissible(requests, limits) ==
    \A r \in {"cpu", "memory", "storage"} :
        requests[r] = Unset \/ limits[r] = Unset \/ requests[r] <= limits[r]

\* Replacing some of the user's amounts by those of the metadata never turns
\* admissible resources (the schema's defaults, say) into inadmissible ones.
StaysAdmissible ==
    Kubernetes /\ Admissible(engine.requests, engine.limits)
        => Admissible(built.requests, built.limits)

\* "we need to leave some cpu for the web server, so rounding up": with more
\* than one CPU the threads leave some of the limit, yet never more than one
\* CPU, and there is always a thread.
ThreadsLeaveCpu ==
    Kubernetes =>
        /\ built.threads >= 1
        /\ built.limits.cpu > 1000 => 1000 * built.threads < built.limits.cpu
        /\ built.limits.cpu <= 1000 * (built.threads + 1)

\* Every variable stays within its type: no amount, number of threads or wait
\* is ever negative.
TypeOK ==
    /\ engine \in Engines /\ metadata \in Metadata
    /\ outcome \in {"none", "built", "failed"}
    /\ \A r \in {"cpu", "memory", "storage"} :
          built.requests[r] \in Nat \cup {Unset} /\ built.limits[r] \in Nat \cup {Unset}
    /\ built.threads \in Nat \cup {Unset} /\ built.volume \in Nat \cup {Unset}
    /\ built.wait \in Nat
=============================================================================
