------------------------------- MODULE MCPatch -------------------------------
(***************************************************************************)
(* Patch over the structs and the type tree of the repository.  Section    *)
(* and HeaderData have the methods that TestApplyPatches_AddFieldToInner-  *)
(* RawStruct has: none of today's sources declares "var raw struct".       *)
(***************************************************************************)
EXTENDS Patch, TypeTree, TLC

StructOfPlace == [p \in AllPlaces |-> p[1]]
WalkOfPlace   == [p \in AllPlaces |-> IF p[2] = "none" THEN "none" ELSE StructOf(p[2])]

RawMethods == <<"Section", "HeaderData">>
Receivers  == "Section" :> "s" @@ "HeaderData" :> "hd"

\* The Go name of "dataHeader" is that of a field with the tag "-".
NameClashes == {<<"Section", "dataHeader">>}

JSONUsers == {"raw.go", "raw_detail.go", "raw_nested.go"}

Occ(p, k, kind) == [place |-> p, key |-> k, kind |-> kind]

\* One new key anywhere; and, in a struct of each Go file and way of decoding,
\* two keys, or one key with two kinds.
Somewhere == {{Occ(p, "memo", "string")} : p \in AllPlaces}

Rich == {<<"TimelineEvent", "TimelineEvent">>, <<"Section", "Section">>,
         <<"HeaderData", "HeaderData">>, <<"DisplayValue", "DisplayValue">>}

InOneStruct ==
    {{Occ(p, "memo", kind)} : p \in Rich, kind \in {"number", "null"}}
        \cup {{Occ(p, "memo", "number"), Occ(p, k, kind)} :
                  p \in Rich, k \in {"memo", "dataHeader"}, kind \in {"string", "null"}}

InTwoStructs ==
    {{Occ(p, "memo", "number"), Occ(q, "memo", "object")} : p \in Rich, q \in Rich}

NewInEvents == <<Somewhere \cup InOneStruct \cup InTwoStructs, InOneStruct \cup InTwoStructs>>

\* What the proofs ask of receivers and imports holds of these sources; what they
\* ask of the walk, BlamesTheRightStruct checks.
ASSUME SourcesAssumption == OwnReceivers /\ StraysUseJSON
===============================================================================
