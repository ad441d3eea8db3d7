--------------------------- MODULE MCSourceWatch ---------------------------
(* A small instance of SourceWatch for TLC. *)
EXTENDS SourceWatch

Source(kind, namespace, name) == [kind |-> kind, namespace |-> namespace, name |-> name]

OneNamespace == [lm \in LMs |-> "ns"]

\* The same name in the LanguageModels' namespace and in another.
OwnOci == Source("OCIRepository", "", "model")
OtherOci == Source("OCIRepository", "other", "model")

TwoRefs == {OwnOci, OtherOci}
KeysOfTwoRefs == {SourceOf(lm, ref) : lm \in LMs, ref \in TwoRefs}

AllNamespaces == {"ns", "other"}
=============================================================================
