-------------------------- MODULE Manifests_proofs --------------------------
(***************************************************************************)
(* Proofs about Manifests, for all amounts, quantities and durations.      *)
(***************************************************************************)
EXTENDS Manifests, TLAPS

\* Rounding up to fifths, to whole CPUs and to units of 10^9 bytes.
LEMMA CeilDivBounds ==
    ASSUME NEW a \in Nat
    PROVE  /\ CeilDiv(a, 5) \in Nat /\ 5 * CeilDiv(a, 5) >= a
           /\ CeilDiv(a, 1000) \in Nat /\ 1000 * CeilDiv(a, 1000) >= a
           /\ 1000 * CeilDiv(a, 1000) < a + 1000
           /\ CeilDiv(a, Giga) \in Nat /\ Giga * CeilDiv(a, Giga) >= a
  BY DEF CeilDiv, Giga

\* The quantity that roundGigaQuantity returns covers the one it is given,
\* with the safety factor (in fifths), for both suffixes.
LEMMA RoundGigaCovers ==
    ASSUME NEW q \in [format : Formats, blocks : Nat], NEW factor \in Nat
    PROVE  /\ RoundGigaQuantity(q, factor) \in Nat
           /\ 5 * RoundGigaQuantity(q, factor) >= factor * q.blocks
<1> DEFINE s == ScaledValue(q)
           c == CeilDiv(s * factor, 5)
<1>1. q.blocks \in Nat
  OBVIOUS
<1>2. s \in Nat /\ Giga * s >= q.blocks
  BY <1>1, CeilDivBounds DEF ScaledValue
<1>3. s * factor \in Nat
  BY <1>2
<1>4. c \in Nat /\ 5 * c >= s * factor
  BY <1>3, CeilDivBounds
<1> HIDE DEF s, c
<1>5. c * Gibi >= c * Giga /\ c * Giga \in Nat /\ c * Gibi \in Nat
  BY <1>4 DEF Gibi, Giga
<1>6. 5 * (c * Giga) >= (s * factor) * Giga
  BY <1>3, <1>4 DEF Giga
<1>7. (s * factor) * Giga = factor * (Giga * s)
  BY <1>2 DEF Giga
<1>8. factor * (Giga * s) >= factor * q.blocks
  <2> DEFINE g == Giga * s
  <2>1. g \in Nat /\ g >= q.blocks
    BY <1>2 DEF Giga
  <2> HIDE DEF g
  <2>2. factor * g >= factor * q.blocks
    BY <1>1, <2>1
  <2> QED BY <2>2 DEF g
<1>9. RoundGigaQuantity(q, factor) \in {c * Giga, c * Gibi}
  BY DEF RoundGigaQuantity, s, c
<1> QED BY <1>5, <1>6, <1>7, <1>8, <1>9, <1>1, <1>2 DEF Giga, Gibi

Resources == {"cpu", "memory", "storage"}
Amounts == Nat \cup {Unset}
Lists == [cpu : Amounts, memory : Amounts, storage : Amounts]

\* The fields of the engine settings are amounts, durations and flags.
LEMMA EngineFields ==
    ASSUME NEW e \in Engines
    PROVE  /\ e.requests \in Lists /\ e.limits \in Lists
           /\ e.interval \in Nat /\ e.timeout \in Amounts
<1>1. ResourceLists \subseteq Lists
  BY ManifestsAssumption DEF ResourceLists, Lists, Amounts
<1>2. e.requests \in ResourceLists /\ e.limits \in ResourceLists
      /\ e.interval \in Durations /\ e.timeout \in Durations \cup {Unset}
  BY DEF Engines
<1> QED BY <1>1, <1>2, ManifestsAssumption DEF Amounts

\* A quantity of the metadata becomes an amount that covers it.
LEMMA MetadataCovers ==
    ASSUME NEW q \in Quantities \cup {Missing}, NEW factor \in Nat, NEW given \in Amounts
    PROVE  /\ FromMetadata(q, factor, given) \in Amounts
           /\ q # Missing => 5 * FromMetadata(q, factor, given) >= factor * q.blocks
<1>1. CASE q = Missing
  BY <1>1 DEF FromMetadata
<1>2. CASE q # Missing
  <2>1. q \in [format : Formats, blocks : Nat]
    BY <1>2, ManifestsAssumption
  <2> QED BY <1>2, <2>1, RoundGigaCovers DEF FromMetadata, Amounts
<1> QED BY <1>1, <1>2

\* The requests of a build.
LEMMA RequestsFields ==
    ASSUME NEW e \in Engines, NEW m \in Metadata
    PROVE  LET r == Requests(e, m) IN
           /\ r \in Lists
           /\ r.cpu = e.requests.cpu
           /\ r.storage = FromMetadata(m.sizeOnDisk, SizeOnDiskSafetyFactor, e.requests.storage)
           /\ r.memory = FromMetadata(m.memoryRequired, MemorySafetyFactor, e.requests.memory)
<1>1. e.requests \in Lists
  BY EngineFields
<1>2. m.sizeOnDisk \in Quantities \cup {Missing} /\ m.memoryRequired \in Quantities \cup {Missing}
  BY DEF Metadata
<1>3. e.requests.storage \in Amounts /\ e.requests.memory \in Amounts
  BY <1>1 DEF Lists
<1>4. /\ FromMetadata(m.sizeOnDisk, SizeOnDiskSafetyFactor, e.requests.storage) \in Amounts
      /\ FromMetadata(m.memoryRequired, MemorySafetyFactor, e.requests.memory) \in Amounts
  BY <1>2, <1>3, MetadataCovers DEF SizeOnDiskSafetyFactor, MemorySafetyFactor
<1> QED BY <1>1, <1>4 DEF Requests, Lists

\* The amount of CPU is a number.
LEMMA CpuIsNat ==
    ASSUME NEW e \in Engines
    PROVE  Cpu(e) \in Nat
<1>1. e.requests.cpu \in Amounts
  BY EngineFields DEF Lists
<1> QED BY <1>1 DEF Cpu, Amounts

\* The limits of a build.
LEMMA LimitsFields ==
    ASSUME NEW e \in Engines, NEW m \in Metadata
    PROVE  LET l == Limits(e, m) IN
           /\ l \in Lists
           /\ l.cpu = Cpu(e)
           /\ l.storage = FromMetadata(m.sizeOnDisk, SizeOnDiskSafetyFactor, e.limits.storage)
           /\ l.memory = FromMetadata(m.memoryRequired, MemorySafetyFactor, e.limits.memory)
<1>1. e.limits \in Lists
  BY EngineFields
<1>2. m.sizeOnDisk \in Quantities \cup {Missing} /\ m.memoryRequired \in Quantities \cup {Missing}
  BY DEF Metadata
<1>3. e.limits.storage \in Amounts /\ e.limits.memory \in Amounts
  BY <1>1 DEF Lists
<1>4. /\ FromMetadata(m.sizeOnDisk, SizeOnDiskSafetyFactor, e.limits.storage) \in Amounts
      /\ FromMetadata(m.memoryRequired, MemorySafetyFactor, e.limits.memory) \in Amounts
  BY <1>2, <1>3, MetadataCovers DEF SizeOnDiskSafetyFactor, MemorySafetyFactor
<1>5. Cpu(e) \in Amounts
  BY CpuIsNat DEF Amounts
<1> QED BY <1>1, <1>4, <1>5 DEF Limits, Lists

\* The number of threads, against the CPU limit.
LEMMA ThreadsBounds ==
    ASSUME NEW e \in Engines
    PROVE  /\ Threads(e) \in Nat /\ Threads(e) >= 1
           /\ Cpu(e) > 1000 => 1000 * Threads(e) < Cpu(e)
           /\ Cpu(e) <= 1000 * (Threads(e) + 1)
<1> DEFINE c == CeilDiv(Cpu(e), 1000)
<1>1. Cpu(e) \in Nat
  BY CpuIsNat
<1>2. c \in Nat /\ 1000 * c >= Cpu(e) /\ 1000 * c < Cpu(e) + 1000
  BY <1>1, CeilDivBounds
<1>3. Threads(e) = IF c - 1 < 1 THEN 1 ELSE c - 1
  BY DEF Threads
<1> HIDE DEF c
<1> QED BY <1>1, <1>2, <1>3

\* The health check waits for half a minute or longer.
LEMMA TimeoutBound ==
    ASSUME NEW e \in Engines
    PROVE  GetTimeout(e) \in Nat
<1>1. e.interval \in Nat /\ e.timeout \in Amounts
  BY EngineFields
<1> QED BY <1>1 DEF GetTimeout, Amounts, Unset

-----------------------------------------------------------------------------
\* The inductive invariant: what is built is what the builders make of the
\* current settings and metadata.
ManifestsInv ==
    /\ TypeOK
    /\ outcome = "built" =>
          built = IF engine.knative THEN BuildKnative(engine)
                  ELSE BuildKubernetes(engine, metadata)

\* Both builders return well-typed settings.
LEMMA BuiltType ==
    ASSUME TypeOK
    PROVE  \A b \in {BuildKnative(engine), BuildKubernetes(engine, metadata)} :
              /\ \A r \in Resources : b.requests[r] \in Amounts /\ b.limits[r] \in Amounts
              /\ b.threads \in Amounts /\ b.volume \in Amounts
              /\ b.wait \in Nat
<1>1. engine \in Engines /\ metadata \in Metadata
  BY DEF TypeOK
<1>2. engine.requests \in Lists /\ engine.limits \in Lists
  BY <1>1, EngineFields
<1>3. Requests(engine, metadata) \in Lists /\ Limits(engine, metadata) \in Lists
  BY <1>1, RequestsFields, LimitsFields
<1>4. Threads(engine) \in Nat /\ GetTimeout(engine) \in Nat
  BY <1>1, ThreadsBounds, TimeoutBound
<1>5. \A l \in Lists : l.storage \in Amounts /\ \A r \in Resources : l[r] \in Amounts
  BY DEF Lists, Resources
<1>6. ModelVolume(engine, Limits(engine, metadata)) \in Amounts
  BY <1>3, <1>5 DEF ModelVolume, Amounts, Gibi
<1> QED BY <1>2, <1>3, <1>4, <1>5, <1>6 DEF BuildKnative, BuildKubernetes, Amounts

\* The invariant holds through any sequence of artifacts and builds.
THEOREM ManifestsInvariant == Spec => []ManifestsInv
<1>1. Init => ManifestsInv
  BY DEF Init, ManifestsInv, TypeOK, NothingBuilt, NothingGiven
<1>2. ManifestsInv /\ [Next]_vars => ManifestsInv'
  <2> SUFFICES ASSUME ManifestsInv, [Next]_vars
               PROVE  ManifestsInv'
    OBVIOUS
  <2> USE DEF ManifestsInv
  <2>1. CASE BuildForKubernetes
    <3>1. engine' = engine /\ metadata' = metadata /\ ~engine.knative
      BY <2>1 DEF BuildForKubernetes
    <3>2. CASE outcome' = "failed" /\ built' = built
      BY <3>1, <3>2 DEF TypeOK
    <3>3. CASE outcome' = "built" /\ built' = BuildKubernetes(engine, metadata)
      BY <3>1, <3>3, BuiltType DEF TypeOK, Resources, Amounts
    <3> QED BY <2>1, <3>2, <3>3 DEF BuildForKubernetes
  <2>2. CASE BuildForKnative
    BY <2>2, BuiltType DEF BuildForKnative, TypeOK, Resources, Amounts
  <2>3. CASE NewArtifact
    BY <2>3 DEF NewArtifact, TypeOK, NothingBuilt, NothingGiven
  <2>4. CASE UNCHANGED vars
    BY <2>4 DEF vars, TypeOK
  <2> QED BY <2>1, <2>2, <2>3, <2>4 DEF Next
<1> QED BY <1>1, <1>2, PTL DEF Spec

\* No amount, number of threads or wait is ever negative.
THEOREM ManifestsTyped == Spec => []TypeOK
<1>1. ManifestsInv => TypeOK
  BY DEF ManifestsInv
<1> QED BY <1>1, ManifestsInvariant, PTL

\* A Kubernetes deployment asks for what its artifact needs, whatever the
\* size and the suffix.
THEOREM RequestsAlwaysCover == Spec => []RequestsCover
<1>1. ManifestsInv => RequestsCover
  <2> SUFFICES ASSUME ManifestsInv, Kubernetes
               PROVE  /\ metadata.memoryRequired # Missing =>
                            5 * built.requests.memory
                                >= MemorySafetyFactor * metadata.memoryRequired.blocks
                      /\ metadata.sizeOnDisk # Missing =>
                            5 * built.requests.storage
                                >= SizeOnDiskSafetyFactor * metadata.sizeOnDisk.blocks
                      /\ metadata.sizeOnDisk # Missing /\ ~engine.usePvc =>
                            built.volume >= metadata.sizeOnDisk.blocks
    BY DEF RequestsCover
  <2>1. engine \in Engines /\ metadata \in Metadata
        /\ built.requests = Requests(engine, metadata)
    BY DEF ManifestsInv, TypeOK, Kubernetes, BuildKubernetes
  <2>2. /\ metadata.sizeOnDisk \in Quantities \cup {Missing}
        /\ metadata.memoryRequired \in Quantities \cup {Missing}
    BY <2>1 DEF Metadata
  <2>3. engine.requests.storage \in Amounts /\ engine.requests.memory \in Amounts
    BY <2>1, EngineFields DEF Lists
  <2>4. MemorySafetyFactor \in Nat /\ SizeOnDiskSafetyFactor \in Nat
    BY DEF MemorySafetyFactor, SizeOnDiskSafetyFactor
  <2>5. /\ metadata.memoryRequired # Missing =>
              5 * built.requests.memory
                  >= MemorySafetyFactor * metadata.memoryRequired.blocks
        /\ metadata.sizeOnDisk # Missing =>
              5 * built.requests.storage
                  >= SizeOnDiskSafetyFactor * metadata.sizeOnDisk.blocks
    BY <2>1, <2>2, <2>3, <2>4, RequestsFields, MetadataCovers
  <2>6. CASE ~engine.usePvc
    <3>1. built.volume = Limits(engine, metadata).storage
      BY <2>6 DEF ManifestsInv, Kubernetes, BuildKubernetes, ModelVolume
    <3>2. ASSUME metadata.sizeOnDisk # Missing
          PROVE  built.volume >= metadata.sizeOnDisk.blocks
      <4>1. metadata.sizeOnDisk \in [format : Formats, blocks : Nat]
        BY <2>2, <3>2, ManifestsAssumption
      <4>2. built.volume = RoundGigaQuantity(metadata.sizeOnDisk, SizeOnDiskSafetyFactor)
        BY <2>1, <3>1, <3>2, LimitsFields DEF FromMetadata
      <4>3. built.volume \in Nat /\ 5 * built.volume >= 6 * metadata.sizeOnDisk.blocks
        BY <4>1, <4>2, RoundGigaCovers DEF SizeOnDiskSafetyFactor
      <4>4. metadata.sizeOnDisk.blocks \in Nat
        BY <4>1
      <4> QED BY <4>3, <4>4
    <3> QED BY <2>5, <3>2
  <2> QED BY <2>5, <2>6
<1> QED BY <1>1, ManifestsInvariant, PTL

\* Admissible resources stay admissible.
THEOREM AlwaysAdmissible == Spec => []StaysAdmissible
<1>1. ManifestsInv => StaysAdmissible
  <2> SUFFICES ASSUME ManifestsInv, Kubernetes, Admissible(engine.requests, engine.limits)
               PROVE  Admissible(built.requests, built.limits)
    BY DEF StaysAdmissible
  <2> DEFINE r == Requests(engine, metadata)
             l == Limits(engine, metadata)
  <2>1. engine \in Engines /\ metadata \in Metadata
        /\ built.requests = r /\ built.limits = l
    BY DEF ManifestsInv, TypeOK, Kubernetes, BuildKubernetes
  <2>2. /\ r.cpu = engine.requests.cpu
        /\ r.storage = FromMetadata(metadata.sizeOnDisk, SizeOnDiskSafetyFactor, engine.requests.storage)
        /\ r.memory = FromMetadata(metadata.memoryRequired, MemorySafetyFactor, engine.requests.memory)
    BY <2>1, RequestsFields
  <2>3. /\ l.cpu = Cpu(engine)
        /\ l.storage = FromMetadata(metadata.sizeOnDisk, SizeOnDiskSafetyFactor, engine.limits.storage)
        /\ l.memory = FromMetadata(metadata.memoryRequired, MemorySafetyFactor, engine.limits.memory)
    BY <2>1, LimitsFields
  <2>4. r \in Lists /\ l \in Lists
    BY <2>1, RequestsFields, LimitsFields
  <2> HIDE DEF r, l
  <2>5. r.cpu = Unset \/ r.cpu <= l.cpu
    <3>1. engine.requests.cpu \in Amounts
      BY <2>1, EngineFields DEF Lists
    <3> QED BY <2>2, <2>3, <3>1 DEF Cpu, Amounts
  <2>6. r.storage = Unset \/ l.storage = Unset \/ r.storage <= l.storage
    BY <2>2, <2>3, <2>4 DEF Admissible, FromMetadata, Lists, Amounts, Unset
  <2>7. r.memory = Unset \/ l.memory = Unset \/ r.memory <= l.memory
    BY <2>2, <2>3, <2>4 DEF Admissible, FromMetadata, Lists, Amounts, Unset
  <2> QED BY <2>1, <2>5, <2>6, <2>7 DEF Admissible
<1> QED BY <1>1, ManifestsInvariant, PTL

\* The threads leave some CPU, and waste less than one.
THEOREM ThreadsAlwaysLeaveCpu == Spec => []ThreadsLeaveCpu
<1>1. ManifestsInv => ThreadsLeaveCpu
  <2> SUFFICES ASSUME ManifestsInv, Kubernetes
               PROVE  /\ built.threads >= 1
                      /\ built.limits.cpu > 1000 => 1000 * built.threads < built.limits.cpu
                      /\ built.limits.cpu <= 1000 * (built.threads + 1)
    BY DEF ThreadsLeaveCpu
  <2>1. engine \in Engines /\ metadata \in Metadata
        /\ built.threads = Threads(engine) /\ built.limits = Limits(engine, metadata)
    BY DEF ManifestsInv, TypeOK, Kubernetes, BuildKubernetes
  <2>2. built.limits.cpu = Cpu(engine)
    BY <2>1, LimitsFields
  <2> QED BY <2>1, <2>2, ThreadsBounds
<1> QED BY <1>1, ManifestsInvariant, PTL
=============================================================================
