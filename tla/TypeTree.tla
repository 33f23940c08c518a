------------------------------- MODULE TypeTree -------------------------------
(***************************************************************************)
(* The two descriptions of an event file that "clitr patch" works with:    *)
(* the Go structs the file is decoded into (internal/types), and the type  *)
(* tree its unknown fields are looked up in (internal/patch/detect.go),    *)
(* which is written by hand.  Only fields that hold structs are edges.     *)
(***************************************************************************)
EXTENDS Integers, TLC

\* A field that holds a struct, or an array of them.
Obj(key, struct) == [key |-> key, shape |-> "object", to |-> struct]
Arr(key, struct) == [key |-> key, shape |-> "array",  to |-> struct]

Edges(table, node) == IF node \in DOMAIN table THEN table[node] ELSE {}

---------------------------------------------------------------------------
(* The structs                                                             *)

EventStructs == {"TimelineEvent", "SubAmount", "Avatar", "Amount", "Action"}

RawStructs == {"RawEvent", "TimelineDetails", "Section", "HeaderData", "IconValue",
               "SectionDataItem"}

DetailStructs == {"ItemDetail", "DisplayValue", "ActionButton", "StepItem", "StepContent",
                  "StepLeading", "StepAvatar", "StepConnection", "DetailActionPayload",
                  "ContextParams", "PayloadContent", "PayloadTrailing", "ItemLeading",
                  "ChatAction"}

NestedStructs == {"NestedSection", "NestedSectionDataObject", "NestedSectionDataItem",
                  "NestedItemDetail", "NestedAction", "DetailAction", "ActionPayload",
                  "SectionAction"}

AllStructs == EventStructs \cup RawStructs \cup DetailStructs \cup NestedStructs

GoSources == {"event.go", "raw.go", "raw_detail.go", "raw_nested.go"}

SourceOf == [s \in AllStructs |-> CASE s \in EventStructs  -> "event.go"
                                    [] s \in RawStructs    -> "raw.go"
                                    [] s \in DetailStructs -> "raw_detail.go"
                                    [] s \in NestedStructs -> "raw_nested.go"]

\* StructFile of each struct of the tree.
TreeSourceOf == [s \in AllStructs |-> IF s \in EventStructs THEN "event.go" ELSE "raw.go"]

EventFields ==
       "RawEvent"      :> {Obj("timelineEvent", "TimelineEvent"), Obj("details", "TimelineDetails")}
    @@ "TimelineEvent" :> {Obj("amount", "Amount"), Obj("action", "Action"), Obj("avatar", "Avatar"),
                           Obj("subAmount", "SubAmount")}
    @@ "TimelineDetails" :> {Arr("sections", "Section")}

\* Section.data holds a list of items or one header (decodeArrayOrObject).
SectionFields ==
       "Section" :> {Obj("actionableTitle", "ActionButton"), Obj("button", "ActionButton"),
                     Arr("data", "SectionDataItem"), Obj("data", "HeaderData"),
                     Obj("action", "SectionAction"), Arr("steps", "StepItem")}
    @@ "HeaderData"      :> {Obj("icon", "IconValue")}
    @@ "SectionDataItem" :> {Obj("detail", "ItemDetail"), Obj("action", "DetailAction")}

DetailFields ==
       "ItemDetail" :> {Obj("icon", "IconValue"), Obj("displayValue", "DisplayValue"),
                        Obj("action", "DetailAction"), Obj("content", "PayloadContent"),
                        Obj("leading", "ItemLeading"), Obj("trailing", "PayloadTrailing")}
    @@ "ActionButton" :> {Obj("action", "DetailAction")}
    @@ "StepItem"     :> {Obj("content", "StepContent"), Obj("leading", "StepLeading")}
    @@ "StepLeading"  :> {Obj("avatar", "StepAvatar"), Obj("connection", "StepConnection")}
    @@ "ItemLeading"  :> {Obj("icon", "IconValue")}
    @@ "ChatAction"   :> {Obj("payload", "DetailActionPayload")}
    @@ "DetailActionPayload" :>
           {Arr("sections", "NestedSection"), Obj("displayValue", "DisplayValue"),
            Obj("content", "PayloadContent"), Obj("trailing", "PayloadTrailing"),
            Obj("chatAction", "ChatAction"), Obj("contextParams", "ContextParams")}

NestedFields ==
       "NestedSection" :> {Arr("data", "NestedSectionDataItem"),
                           Obj("data", "NestedSectionDataObject"), Obj("action", "NestedAction")}
    @@ "NestedSectionDataObject" :> {Obj("action", "NestedAction")}
    @@ "NestedSectionDataItem"   :> {Obj("detail", "NestedItemDetail")}
    @@ "NestedItemDetail" :> {Obj("displayValue", "DisplayValue"), Obj("action", "NestedAction"),
                              Obj("content", "PayloadContent"), Obj("leading", "ItemLeading"),
                              Obj("trailing", "PayloadTrailing")}
    @@ "NestedAction"  :> {Obj("payload", "DetailActionPayload")}

ActionFields ==
       "DetailAction"  :> {Obj("payload", "DetailActionPayload")}
    @@ "SectionAction" :> {Obj("payload", "ActionPayload")}
    @@ "ActionPayload" :> {Obj("contextParams", "ContextParams"), Arr("sections", "NestedSection"),
                           Obj("action", "DetailAction")}

GoFields == EventFields @@ SectionFields @@ DetailFields @@ NestedFields @@ ActionFields

---------------------------------------------------------------------------
(* The type tree                                                           *)

\* Two structs stand at nodes of their own where the tree gives them no children.
BareStruct == "ChatPayload" :> "DetailActionPayload" @@ "ActionSection" :> "NestedSection"

StructOf(node) == IF node \in DOMAIN BareStruct THEN BareStruct[node] ELSE node

\* detailActionPayloadChildren: a nested action has no children, nor has the
\* payload of a chat action, and a nested section's data is a list only.
PayloadTree ==
       "DetailActionPayload" :>
           {Obj("contextParams", "ContextParams"), Obj("displayValue", "DisplayValue"),
            Obj("content", "PayloadContent"), Obj("trailing", "PayloadTrailing"),
            Obj("chatAction", "ChatAction"), Arr("sections", "NestedSection")}
    @@ "ChatAction"    :> {Obj("payload", "ChatPayload")}
    @@ "NestedSection" :> {Arr("data", "NestedSectionDataItem"), Obj("action", "NestedAction")}
    @@ "NestedSectionDataItem" :> {Obj("detail", "NestedItemDetail")}
    @@ "NestedItemDetail" :> {Obj("displayValue", "DisplayValue"), Obj("action", "NestedAction"),
                              Obj("content", "PayloadContent"), Obj("leading", "ItemLeading"),
                              Obj("trailing", "PayloadTrailing")}

\* The children buildTypeTree gives to actions, details, items and steps.
ItemTree ==
       "DetailAction"  :> {Obj("payload", "DetailActionPayload")}
    @@ "SectionAction" :> {Obj("payload", "ActionPayload")}
    @@ "ActionPayload" :> {Obj("contextParams", "ContextParams"), Obj("action", "DetailAction"),
                           Arr("sections", "ActionSection")}
    @@ "ItemDetail"    :> {Obj("icon", "IconValue"), Obj("displayValue", "DisplayValue"),
                           Obj("action", "DetailAction"), Obj("content", "PayloadContent"),
                           Obj("leading", "ItemLeading"), Obj("trailing", "PayloadTrailing")}
    @@ "ItemLeading"     :> {Obj("icon", "IconValue")}
    @@ "SectionDataItem" :> {Obj("detail", "ItemDetail"), Obj("action", "DetailAction")}
    @@ "HeaderData"      :> {Obj("icon", "IconValue")}
    @@ "ActionButton"    :> {Obj("action", "DetailAction")}
    @@ "StepItem"        :> {Obj("content", "StepContent"), Obj("leading", "StepLeading")}
    @@ "StepLeading"     :> {Obj("avatar", "StepAvatar"), Obj("connection", "StepConnection")}

\* altChildInfo of Section.data is its second edge, for an object.
EventTree ==
       "RawEvent"      :> {Obj("timelineEvent", "TimelineEvent"), Obj("details", "TimelineDetails")}
    @@ "TimelineEvent" :> {Obj("amount", "Amount"), Obj("action", "Action"), Obj("avatar", "Avatar"),
                           Obj("subAmount", "SubAmount")}
    @@ "TimelineDetails" :> {Arr("sections", "Section")}
    @@ "Section" :> {Obj("actionableTitle", "ActionButton"), Obj("button", "ActionButton"),
                     Arr("data", "SectionDataItem"), Obj("data", "HeaderData"),
                     Obj("action", "SectionAction"), Arr("steps", "StepItem")}

\* Mutant: the children of a step's content and of a detail's are mixed up.
TreeMixed ==
    ("StepItem" :> {Obj("content", "PayloadContent"), Obj("leading", "StepLeading")})
    @@ EventTree @@ ItemTree @@ PayloadTree

Tree == EventTree @@ ItemTree @@ PayloadTree

---------------------------------------------------------------------------
(* The walk                                                                *)

\* walkObject and walkRawValue: a key of the struct, with a child in the tree
\* that takes values of this shape.
Hits(node, edge) ==
    {c \in Edges(Tree, node) :
        /\ c.key = edge.key /\ c.shape = edge.shape
        /\ \E f \in Edges(GoFields, StructOf(node)) : f.key = edge.key}

WalkTo(node, edge) == IF Hits(node, edge) = {} THEN "none"
                      ELSE (CHOOSE c \in Hits(node, edge) : TRUE).to

\* A place in an event file: the struct it decodes into, and the node of the tree
\* the walk is at when it gets there, "none" if it never does.
Below(place) == {<<e.to, WalkTo(place[2], e)>> : e \in Edges(GoFields, place[1])}

\* As deep as the structs nest: more rounds find no more places.
Rounds == 14

PlacesTo[n \in 0 .. Rounds] ==
    IF n = 0 THEN {<<"RawEvent", "RawEvent">>}
    ELSE LET sofar == PlacesTo[n - 1] IN sofar \cup UNION {Below(p) : p \in sofar}

AllPlaces == PlacesTo[Rounds]

ASSUME AllPlacesFound == UNION {Below(p) : p \in AllPlaces} \subseteq AllPlaces
=============================================================================
