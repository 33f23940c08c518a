----------------------------- MODULE Patch_proofs -----------------------------
(***************************************************************************)
(* Proofs about Patch: for all structs, Go files, event files and walks,   *)
(* whatever a run is cut off in, no key is declared twice and no declared  *)
(* type is without an event file that asked for it; one round of patching  *)
(* settles everything the tree looks for in the right Go file.             *)
(***************************************************************************)
EXTENDS Patch, IntervalFacts, SequenceTheorems, TLAPS

\* An event file has a value of this type for this key of this struct.
Asked(s, k, t) ==
    \E d \in Dir : \E o \in event[d] :
        StructAt[o.place] = s /\ o.key = k /\ InferGoType(o.kind) = t

Types(structs, s, k) == {structs[s][k][i] : i \in DOMAIN structs[s][k]}

\* Every type in the sources, in the binary and on its way there was asked for.
AllAsked ==
    /\ \A s \in Structs : \A k \in Keys : \A t \in Types(decl, s, k) : Asked(s, k, t)
    /\ \A s \in Structs : \A k \in Keys : \A t \in Types(binary, s, k) : Asked(s, k, t)
    /\ \A u \in fields : Asked(u.struct, u.key, u.type)

Reported(s, k) == \E u \in fields : u.struct = s /\ u.key = k

\* What a run is about is known to the sources, or reported by the run.
ScanKnows ==
    pc # "idle" \/ result = "ok" =>
        \A d \in Dir : \A o \in event[d] :
            WalkedAs[o.place] # "none" =>
                decl[WalkedAs[o.place]][o.key] # <<>> \/ Reported(WalkedAs[o.place], o.key)

\* A Go file that is not to come any more has the fields the tree wants in it.
DoneFiles ==
    pc # "idle" \/ result = "ok" =>
        \A u \in fields :
            \/ decl[u.struct][u.key] # <<>>
            \/ TreeFile[u.struct] # DefinedIn[u.struct]
            \/ TreeFile[u.struct] \in groups

FileInHand == pc \in {"write", "assign", "fill"} => file \in GoFiles

\* Once the fields are written, the file in hand has them.
InHand ==
    /\ pc \in {"assign", "fill"} => \A u \in In(file) : decl[u.struct][u.key] # <<>>
    /\ result = "ok" => pc = "idle" /\ groups = {}

\* The binary was built from the sources, which lose no field.
SourcesGrow == \A s \in Structs : \A k \in Keys : binary[s][k] # <<>> => decl[s][k] # <<>>

Safe == TypeOK /\ FileInHand /\ DeclaredOnce
Applying == ScanKnows /\ DoneFiles /\ InHand /\ SourcesGrow

---------------------------------------------------------------------------
(* Lemmas                                                                  *)

LEMMA InferType ==
  ASSUME NEW kind \in Kinds
  PROVE  InferGoType(kind) \in GoTypes
  BY DEF Kinds, GoTypes, InferGoType

LEMMA DetectedTypes ==
  ASSUME TypeOK, NEW d \in Dir, NEW u \in Detected(d)
  PROVE  u \in UnknownField
<1>1. PICK o \in event[d] : /\ WalkedAs[o.place] # "none"
                            /\ u = [struct |-> WalkedAs[o.place], key |-> o.key,
                                    type |-> InferGoType(o.kind)]
  BY DEF Detected
<1>2. o \in Occurrences
  BY <1>1 DEF TypeOK
<1>3. o.place \in Places /\ o.key \in Keys /\ o.kind \in Kinds
  BY <1>2 DEF Occurrences
<1>4. WalkedAs[o.place] \in Structs
  BY <1>1, <1>3, PatchAssumption
<1>5. InferGoType(o.kind) \in GoTypes
  BY <1>3, InferType
<1>6. QED
  BY <1>1, <1>3, <1>4, <1>5 DEF UnknownField

LEMMA FoundTypes ==
  ASSUME TypeOK
  PROVE  Found \subseteq UnknownField
  BY DetectedTypes DEF Found

LEMMA ScansFound ==
  ASSUME NEW S \in Scans
  PROVE  /\ S \subseteq Found
         /\ \A u \in Found : \E v \in S : v.struct = u.struct /\ v.key = u.key
         /\ \A u, v \in S : u.struct = v.struct /\ u.key = v.key => u = v
<1>1. S \subseteq Found
  BY DEF Scans
<1>2. \A u \in Found : \E v \in S : \A w \in S : SameField(u, w) <=> w = v
  BY DEF Scans
<1>3. QED
  BY <1>1, <1>2 DEF SameField

\* What Write puts into a struct: a field of its own where there was none.
LEMMA WriteDecl ==
  ASSUME TypeOK, Write, NEW s \in Structs, NEW k \in Keys
  PROVE  \/ decl'[s][k] = decl[s][k] /\ Added(s, k) = {}
         \/ \E u \in fields : /\ u.struct = s /\ u.key = k /\ u \in UnknownField
                              /\ u \in In(file)
                              /\ decl[s][k] = <<>> /\ decl'[s][k] = <<u.type>>
<1>1. decl'[s][k] = IF Added(s, k) = {} THEN decl[s][k]
                    ELSE Append(decl[s][k], (CHOOSE u \in Added(s, k) : TRUE).type)
  BY DEF Write
<1>2. CASE Added(s, k) = {}
  BY <1>1, <1>2
<1>3. CASE Added(s, k) # {}
  <2> DEFINE u == CHOOSE x \in Added(s, k) : TRUE
  <2>1. u \in Added(s, k)
    BY <1>3
  <2>2. u \in In(file) /\ u \in fields /\ u.struct = s /\ u.key = k /\ decl[s][k] = <<>>
    BY <2>1 DEF Added, Missing, In
  <2>3. u \in UnknownField
    BY <2>2 DEF TypeOK
  <2>4. decl'[s][k] = <<u.type>>
    BY <1>1, <1>3, <2>2
  <2>5. QED
    BY <2>2, <2>3, <2>4
<1>4. QED
  BY <1>2, <1>3

---------------------------------------------------------------------------
(* The type invariant, and no key twice                                    *)

LEMMA InitSafe == Init => Safe
<1> SUFFICES ASSUME Init PROVE Safe
  OBVIOUS
<1> USE DEF Init
<1>1. decl \in [Structs -> [Keys -> Seq(GoTypes)]]
  OBVIOUS
<1>2. TypeOK
  BY <1>1, PatchAssumption DEF TypeOK, Occurrences
<1>3. DeclaredOnce /\ FileInHand
  BY DEF DeclaredOnce, FileInHand
<1>4. QED
  BY <1>2, <1>3 DEF Safe

LEMMA WriteSafe ==
  ASSUME Safe, Write
  PROVE  Safe'
<1> USE DEF Safe
<1>1. ASSUME NEW s \in Structs, NEW k \in Keys
      PROVE  decl'[s][k] \in Seq(GoTypes) /\ Len(decl'[s][k]) <= 1
  <2>1. decl[s][k] \in Seq(GoTypes) /\ Len(decl[s][k]) <= 1
    BY DEF TypeOK, DeclaredOnce
  <2>2. CASE decl'[s][k] = decl[s][k]
    BY <2>1, <2>2
  <2>3. ASSUME NEW u \in UnknownField, decl'[s][k] = <<u.type>>
        PROVE  decl'[s][k] \in Seq(GoTypes) /\ Len(decl'[s][k]) <= 1
    BY <2>3 DEF UnknownField
  <2>4. QED
    BY <2>2, <2>3, WriteDecl
<1>2. /\ decl' = [s \in Structs |-> decl'[s]]
      /\ \A s \in Structs : decl'[s] = [k \in Keys |-> decl'[s][k]]
  BY DEF Write
<1>3. decl' \in [Structs -> [Keys -> Seq(GoTypes)]]
  BY <1>1, <1>2
<1>4. raw' \in [Structs -> SUBSET Keys]
  BY DEF Write, TypeOK, MissingRaw, In, UnknownField
<1>5. imports' \subseteq GoFiles /\ torn' \subseteq GoFiles
  <2>1. \A u \in fields : TreeFile[u.struct] \in GoFiles
    BY PatchAssumption DEF TypeOK, UnknownField
  <2>2. QED
    BY <2>1 DEF Write, TypeOK, EnsureImport
<1>6. plan' \subseteq Inner
  BY DEF Write, Planned, MissingRaw
<1>7. /\ pc' \in {"idle", "apply", "write", "assign", "fill"}
      /\ groups' \subseteq GoFiles /\ file' \in GoFiles \cup {NoFile}
  BY DEF Write, FileDone, TypeOK
<1>8. /\ event' \in [Dir -> SUBSET Occurrences]
      /\ binary' \in [Structs -> [Keys -> Seq(GoTypes)]]
      /\ assigned' \in [Structs -> SUBSET Keys]
      /\ fields' \subseteq UnknownField
      /\ result' \in {"none", "clean", "ok", "error"}
      /\ cut' \in BOOLEAN /\ fresh' \in BOOLEAN
  BY DEF Write, TypeOK
<1>9. TypeOK'
  BY <1>3, <1>4, <1>5, <1>6, <1>7, <1>8 DEF TypeOK
<1>10. DeclaredOnce'
  BY <1>1 DEF DeclaredOnce
<1>11. FileInHand'
  BY DEF Write, FileDone, FileInHand
<1>12. QED
  BY <1>9, <1>10, <1>11

LEMMA ScanSafe ==
  ASSUME Safe, Scan
  PROVE  Safe'
<1> USE DEF Safe, Scan
<1>1. PICK S \in Scans : /\ fields' = S /\ groups' = {TreeFile[u.struct] : u \in S}
                         /\ pc' = IF S = {} THEN "idle" ELSE "apply"
                         /\ result' = IF S = {} THEN "clean" ELSE "none"
  OBVIOUS
<1>2. fields' \subseteq UnknownField
  BY <1>1, ScansFound, FoundTypes
<1>3. groups' \subseteq GoFiles
  BY <1>1, <1>2, PatchAssumption DEF UnknownField
<1>4. TypeOK'
  BY <1>1, <1>2, <1>3 DEF TypeOK, sourceVars
<1>5. DeclaredOnce'
  BY DEF DeclaredOnce, sourceVars
<1>6. FileInHand'
  BY <1>1 DEF FileInHand
<1>7. QED
  BY <1>4, <1>5, <1>6

LEMMA WriteAgainSafe ==
  ASSUME Safe, WriteAgain
  PROVE  Safe'
<1> USE DEF Safe, WriteAgain
<1>1. \A s \in Structs : NewLines(s) \subseteq Keys
  BY DEF NewLines, In, TypeOK, UnknownField
<1>2. assigned' \in [Structs -> SUBSET Keys]
  BY <1>1 DEF TypeOK
<1>3. TypeOK'
  BY <1>2 DEF TypeOK, FileDone
<1>4. DeclaredOnce'
  BY DEF DeclaredOnce
<1>5. FileInHand'
  BY DEF FileDone, FileInHand
<1>6. QED
  BY <1>3, <1>4, <1>5

LEMMA FetchSafe ==
  ASSUME Safe, NEW d \in Dir, Fetch(d)
  PROVE  Safe'
<1> USE DEF Safe, Fetch
<1>1. event' \in [Dir -> SUBSET Occurrences]
  BY PatchAssumption DEF TypeOK, Dir
<1>2. TypeOK'
  BY <1>1 DEF TypeOK, sourceVars
<1>3. DeclaredOnce'
  BY DEF DeclaredOnce, sourceVars
<1>4. FileInHand'
  BY DEF FileInHand
<1>5. QED
  BY <1>2, <1>3, <1>4

\* The other steps move pc, and no declaration.
LEMMA OtherSafe ==
  ASSUME Safe,
         \/ TruncateAgain \/ Applied \/ Cut \/ Build \/ UNCHANGED vars
         \/ \E f \in GoFiles : ParseFails(f) \/ Unmodified(f) \/ Truncate(f)
  PROVE  Safe'
<1> USE DEF Safe, TypeOK, DeclaredOnce, FileInHand
<1>1. CASE TruncateAgain
  BY <1>1 DEF TruncateAgain
<1>2. CASE Applied
  BY <1>2 DEF Applied, sourceVars
<1>3. CASE Cut
  BY <1>3 DEF Cut, Stop, sourceVars
<1>4. CASE Build
  BY <1>4 DEF Build, sourceVars, runVars
<1>5. CASE UNCHANGED vars
  BY <1>5 DEF vars, sourceVars, runVars
<1>6. ASSUME NEW f \in GoFiles, ParseFails(f)
      PROVE  Safe'
  BY <1>6 DEF ParseFails, Stop, sourceVars
<1>7. ASSUME NEW f \in GoFiles, Unmodified(f)
      PROVE  Safe'
  BY <1>7 DEF Unmodified, sourceVars
<1>8. ASSUME NEW f \in GoFiles, Truncate(f)
      PROVE  Safe'
  BY <1>8 DEF Truncate
<1>9. QED
  BY <1>1, <1>2, <1>3, <1>4, <1>5, <1>6, <1>7, <1>8

LEMMA NextSafe ==
  ASSUME Safe, [Next]_vars
  PROVE  Safe'
<1>1. CASE \E d \in Dir : Fetch(d)
  BY <1>1, FetchSafe
<1>2. CASE Scan
  BY <1>2, ScanSafe
<1>3. CASE Write
  BY <1>3, WriteSafe
<1>4. CASE WriteAgain
  BY <1>4, WriteAgainSafe
<1>5. CASE \/ TruncateAgain \/ Applied \/ Cut \/ Build \/ UNCHANGED vars
           \/ \E f \in GoFiles : ParseFails(f) \/ Unmodified(f) \/ Truncate(f)
  BY <1>5, OtherSafe
<1>6. QED
  BY <1>1, <1>2, <1>3, <1>4, <1>5 DEF Next, ApplyStep

---------------------------------------------------------------------------
(* Every declared type was asked for                                       *)

\* An event file keeps what it holds.
LEMMA AskedStays ==
  ASSUME TypeOK, [Next]_vars, NEW s, NEW k, NEW t, Asked(s, k, t)
  PROVE  Asked(s, k, t)'
<1>1. PICK d \in Dir : \E o \in event[d] :
          StructAt[o.place] = s /\ o.key = k /\ InferGoType(o.kind) = t
  BY DEF Asked
<1>2. event'[d] = event[d]
  <2>1. ASSUME NEW e \in Dir, Fetch(e)
        PROVE  event'[d] = event[d]
    BY <1>1, <2>1 DEF Fetch, TypeOK
  <2>2. CASE UNCHANGED event
    BY <2>2
  <2>3. QED
    BY <2>1, <2>2 DEF Next, ApplyStep, Scan, Write, TruncateAgain, WriteAgain, Applied, Cut,
                      Build, ParseFails, Unmodified, Truncate, vars
<1>3. QED
  BY <1>1, <1>2 DEF Asked

LEMMA ScanAsks ==
  ASSUME TypeOK, WalksRight, NEW u \in Found
  PROVE  Asked(u.struct, u.key, u.type)
<1>1. PICK d \in Dir : u \in Detected(d)
  BY DEF Found
<1>2. PICK o \in event[d] : /\ WalkedAs[o.place] # "none"
                            /\ u = [struct |-> WalkedAs[o.place], key |-> o.key,
                                    type |-> InferGoType(o.kind)]
  BY <1>1 DEF Detected
<1>3. WalkedAs[o.place] = StructAt[o.place]
  BY <1>2 DEF TypeOK, Occurrences, WalksRight
<1>4. QED
  BY <1>2, <1>3 DEF Asked

LEMMA NextAsked ==
  ASSUME Safe, WalksRight, AllAsked, [Next]_vars
  PROVE  AllAsked'
<1>1. ASSUME NEW s \in Structs, NEW k \in Keys, NEW t \in Types(decl', s, k)
      PROVE  Asked(s, k, t)'
  <2>1. CASE Write
    <3>1. CASE decl'[s][k] = decl[s][k]
      <4>1. t \in Types(decl, s, k)
        BY <1>1, <3>1 DEF Types
      <4>2. QED
        BY <1>1, <4>1, AskedStays DEF AllAsked, Safe
    <3>2. ASSUME NEW u \in fields, u.struct = s, u.key = k, decl'[s][k] = <<u.type>>
          PROVE  Asked(s, k, t)'
      <4>1. t = u.type
        BY <1>1, <3>2 DEF Types
      <4>2. Asked(s, k, u.type)
        BY <3>2 DEF AllAsked
      <4>3. QED
        BY <4>1, <4>2, AskedStays DEF Safe
    <3>3. QED
      BY <2>1, <3>1, <3>2, WriteDecl DEF Safe
  <2>2. CASE UNCHANGED decl
    <3>1. t \in Types(decl, s, k)
      BY <1>1, <2>2
    <3>2. QED
      BY <1>1, <3>1, AskedStays DEF AllAsked, Safe
  <2>3. QED
    BY <2>1, <2>2 DEF Next, ApplyStep, Scan, Fetch, TruncateAgain, WriteAgain, Applied, Cut,
                      Build, ParseFails, Unmodified, Truncate, vars, sourceVars
<1>2. ASSUME NEW s \in Structs, NEW k \in Keys, NEW t \in Types(binary', s, k)
      PROVE  Asked(s, k, t)'
  <2>1. CASE binary' = decl
    <3>1. t \in Types(decl, s, k)
      BY <1>2, <2>1
    <3>2. QED
      BY <1>2, <3>1, AskedStays DEF AllAsked, Safe
  <2>2. CASE UNCHANGED binary
    <3>1. t \in Types(binary, s, k)
      BY <1>2, <2>2
    <3>2. QED
      BY <1>2, <3>1, AskedStays DEF AllAsked, Safe
  <2>3. QED
    BY <2>1, <2>2 DEF Next, ApplyStep, Scan, Fetch, Write, TruncateAgain, WriteAgain, Applied,
                      Cut, Build, ParseFails, Unmodified, Truncate, vars
<1>3. ASSUME NEW u \in fields'
      PROVE  Asked(u.struct, u.key, u.type)'
  <2>1. CASE Scan
    <3>1. u \in Found
      BY <1>3, <2>1, ScansFound DEF Scan
    <3>2. Asked(u.struct, u.key, u.type)
      BY <3>1, ScanAsks DEF Safe
    <3>3. QED
      BY <3>2, AskedStays DEF Safe
  <2>2. CASE u \in fields
    BY <2>2, AskedStays DEF AllAsked, Safe
  <2>3. QED
    BY <1>3, <2>1, <2>2 DEF Next, ApplyStep, Fetch, Write, TruncateAgain, WriteAgain, Applied,
                            Cut, Stop, Build, ParseFails, Unmodified, Truncate, vars, runVars
<1>4. QED
  BY <1>1, <1>2, <1>3 DEF AllAsked

LEMMA AskedReadable ==
  ASSUME TypeOK, AllAsked
  PROVE  StaysReadable
<1> SUFFICES ASSUME NEW d \in Dir, KindsAgree(d), NEW o \in event[d],
                    NEW i \in DOMAIN binary[StructAt[o.place]][o.key]
             PROVE  Fits(binary[StructAt[o.place]][o.key][i], o.kind)
  BY DEF StaysReadable, Decodes
<1> DEFINE s == StructAt[o.place]
           t == binary[s][o.key][i]
<1>1. o \in Occurrences
  BY DEF TypeOK
<1>2. s \in Structs /\ o.key \in Keys
  BY <1>1, PatchAssumption DEF Occurrences
<1>3. Asked(s, o.key, t)
  BY <1>2 DEF AllAsked, Types
<1>4. PICK e \in Dir : \E p \in event[e] :
          StructAt[p.place] = s /\ p.key = o.key /\ InferGoType(p.kind) = t
  BY <1>3 DEF Asked
<1>5. PICK p \in event[e] : StructAt[p.place] = s /\ p.key = o.key /\ InferGoType(p.kind) = t
  BY <1>4
<1>6. CASE o.kind = "null"
  BY <1>6 DEF Fits
<1>7. CASE p.kind = "null"
  BY <1>5, <1>7 DEF Fits, InferGoType
<1>8. CASE o.kind # "null" /\ p.kind # "null"
  BY <1>5, <1>8 DEF Fits, KindsAgree
<1>9. QED
  BY <1>6, <1>7, <1>8

---------------------------------------------------------------------------
(* One round of patching                                                   *)

LEMMA DeclGrows ==
  ASSUME Safe, [Next]_vars, NEW s \in Structs, NEW k \in Keys, decl[s][k] # <<>>
  PROVE  decl'[s][k] # <<>>
<1>1. CASE Write
  BY <1>1, WriteDecl DEF Safe
<1>2. CASE UNCHANGED decl
  BY <1>2
<1>3. QED
  BY <1>1, <1>2 DEF Next, ApplyStep, Scan, Fetch, TruncateAgain, WriteAgain, Applied, Cut,
                    Build, ParseFails, Unmodified, Truncate, vars, sourceVars

\* What Write leaves in the file in hand.
LEMMA WriteFills ==
  ASSUME Safe, Write, NEW u \in fields, u \in In(file)
  PROVE  decl'[u.struct][u.key] # <<>>
<1>1. u.struct \in Structs /\ u.key \in Keys
  BY DEF Safe, TypeOK, UnknownField
<1>2. CASE decl[u.struct][u.key] # <<>>
  BY <1>1, <1>2, DeclGrows DEF Next, ApplyStep
<1>3. CASE decl[u.struct][u.key] = <<>>
  <2>1. u \in Added(u.struct, u.key)
    BY <1>3 DEF Added, Missing
  <2>2. PICK v \in fields : decl'[u.struct][u.key] = <<v.type>>
    BY <1>1, <2>1, WriteDecl DEF Safe
  <2>3. QED
    BY <2>2
<1>4. QED
  BY <1>2, <1>3

LEMMA SourcesGrowStep ==
  ASSUME Safe, SourcesGrow, [Next]_vars
  PROVE  SourcesGrow'
<1> SUFFICES ASSUME NEW s \in Structs, NEW k \in Keys, binary'[s][k] # <<>>
             PROVE  decl'[s][k] # <<>>
  BY DEF SourcesGrow
<1>1. binary' = decl \/ UNCHANGED binary
  BY DEF Next, ApplyStep, Scan, Fetch, Write, TruncateAgain, WriteAgain, Applied,
         Cut, Build, ParseFails, Unmodified, Truncate, vars
<1>2. decl[s][k] # <<>>
  BY <1>1 DEF SourcesGrow
<1>3. QED
  BY <1>2, DeclGrows

\* Steps that end a run, or come before one, leave nothing to know.
LEMMA IdleApplying ==
  ASSUME Safe, Applying, [Next]_vars, pc' = "idle", result' # "ok"
  PROVE  Applying'
  BY SourcesGrowStep DEF Applying, ScanKnows, DoneFiles, InHand

LEMMA ScanApplying ==
  ASSUME Safe, Applying, Scan
  PROVE  Applying'
<1>1. PICK S \in Scans : /\ fields' = S /\ groups' = {TreeFile[u.struct] : u \in S}
                         /\ pc' = IF S = {} THEN "idle" ELSE "apply"
                         /\ result' = IF S = {} THEN "clean" ELSE "none"
  BY DEF Scan
<1>2. ASSUME NEW d \in Dir, NEW o \in event[d], WalkedAs[o.place] # "none"
      PROVE  \/ decl[WalkedAs[o.place]][o.key] # <<>>
             \/ \E v \in S : v.struct = WalkedAs[o.place] /\ v.key = o.key
  <2>1. o.place \in Places /\ o.key \in Keys
    BY DEF Safe, TypeOK, Occurrences
  <2>2. WalkedAs[o.place] \in Structs
    BY <1>2, <2>1, PatchAssumption
  <2>3. CASE binary[WalkedAs[o.place]][o.key] # <<>>
    BY <2>1, <2>2, <2>3 DEF Applying, SourcesGrow
  <2>4. CASE binary[WalkedAs[o.place]][o.key] = <<>>
    <3> DEFINE u == [struct |-> WalkedAs[o.place], key |-> o.key, type |-> InferGoType(o.kind)]
    <3>1. u \in Found
      BY <1>2, <2>4 DEF Found, Detected
    <3>2. \E v \in S : v.struct = u.struct /\ v.key = u.key
      BY <3>1, ScansFound
    <3>3. QED
      BY <3>2
  <2>5. QED
    BY <2>3, <2>4
<1>3. event' = event /\ decl' = decl
  BY DEF Scan, sourceVars
<1>4. ScanKnows'
  BY <1>1, <1>2, <1>3 DEF ScanKnows, Reported
<1>5. DoneFiles' /\ InHand'
  BY <1>1 DEF DoneFiles, InHand
<1>6. SourcesGrow'
  BY SourcesGrowStep DEF Applying, Next
<1>7. QED
  BY <1>4, <1>5, <1>6 DEF Applying

\* While a run goes on, what it has found and what there is to find stay.
LEMMA ScanKnowsStays ==
  ASSUME Safe, ScanKnows, [Next]_vars, UNCHANGED <<event, fields>>, pc # "idle" \/ result = "ok"
  PROVE  ScanKnows'
<1> SUFFICES ASSUME NEW d \in Dir, NEW o \in event[d], WalkedAs[o.place] # "none"
             PROVE  \/ decl'[WalkedAs[o.place]][o.key] # <<>>
                    \/ Reported(WalkedAs[o.place], o.key)
  BY DEF ScanKnows, Reported
<1>1. o.place \in Places /\ o.key \in Keys
  BY DEF Safe, TypeOK, Occurrences
<1>2. WalkedAs[o.place] \in Structs
  BY <1>1, PatchAssumption
<1>3. QED
  BY <1>1, <1>2, DeclGrows DEF ScanKnows

LEMMA FileDoneApplying ==
  ASSUME Safe, Applying, Write \/ WriteAgain
  PROVE  Applying'
<1>1. [Next]_vars /\ UNCHANGED <<event, fields, result>> /\ pc \in {"write", "fill"}
  BY DEF Next, ApplyStep, Write, WriteAgain
<1>2. ScanKnows' /\ SourcesGrow'
  BY <1>1, ScanKnowsStays, SourcesGrowStep DEF Applying
<1>3. ASSUME NEW u \in In(file)
      PROVE  decl'[u.struct][u.key] # <<>>
  <2>1. CASE Write
    BY <1>3, <2>1, WriteFills DEF In
  <2>2. CASE WriteAgain
    BY <1>3, <2>2 DEF WriteAgain, Applying, InHand
  <2>3. QED
    BY <2>1, <2>2
<1>4. result' # "ok"
  BY <1>1 DEF Applying, InHand
<1>5. /\ pc' \in {"apply", "assign"} /\ (pc' = "assign" => file' = file)
      /\ groups \ {file} \subseteq groups'
  BY DEF Write, WriteAgain, FileDone
<1>6. InHand'
  BY <1>1, <1>3, <1>4, <1>5 DEF InHand, In
<1>7. ASSUME NEW u \in fields
      PROVE  \/ decl'[u.struct][u.key] # <<>>
             \/ TreeFile[u.struct] # DefinedIn[u.struct]
             \/ TreeFile[u.struct] \in groups'
  <2>1. u.struct \in Structs /\ u.key \in Keys
    BY DEF Safe, TypeOK, UnknownField
  <2>2. CASE decl[u.struct][u.key] # <<>>
    BY <1>1, <2>1, <2>2, DeclGrows
  <2>3. CASE TreeFile[u.struct] \in groups /\ TreeFile[u.struct] = DefinedIn[u.struct]
    BY <1>3, <1>5, <2>3 DEF In
  <2>4. QED
    BY <1>1, <2>2, <2>3 DEF Applying, DoneFiles
<1>8. DoneFiles'
  BY <1>1, <1>7 DEF DoneFiles
<1>9. QED
  BY <1>2, <1>6, <1>8 DEF Applying

LEMMA StepsApplying ==
  ASSUME Safe, Applying,
         TruncateAgain \/ Applied \/ \E f \in GoFiles : Unmodified(f) \/ Truncate(f)
  PROVE  Applying'
<1>1. /\ [Next]_vars /\ UNCHANGED <<event, fields, decl>>
      /\ pc \in {"apply", "assign"}
  BY DEF Next, ApplyStep, TruncateAgain, Applied, Unmodified, Truncate, sourceVars
<1>2. ScanKnows' /\ SourcesGrow'
  BY <1>1, ScanKnowsStays, SourcesGrowStep DEF Applying
<1>3. result # "ok"
  BY <1>1 DEF Applying, InHand
<1>4. CASE TruncateAgain
  BY <1>2, <1>3, <1>4 DEF TruncateAgain, Applying, DoneFiles, InHand, In
<1>5. CASE Applied
  BY <1>2, <1>5 DEF Applied, Applying, DoneFiles, InHand, sourceVars
<1>6. ASSUME NEW f \in GoFiles, Truncate(f)
      PROVE  Applying'
  BY <1>2, <1>3, <1>6 DEF Truncate, Applying, DoneFiles, InHand
<1>7. ASSUME NEW f \in GoFiles, Unmodified(f)
      PROVE  Applying'
  <2>1. \A u \in In(f) : decl[u.struct][u.key] # <<>>
    BY <1>7 DEF Unmodified, Missing
  <2>2. DoneFiles'
    BY <1>7, <2>1 DEF Unmodified, Applying, DoneFiles, In, sourceVars
  <2>3. QED
    BY <1>2, <1>3, <1>7, <2>2 DEF Unmodified, Applying, InHand
<1>8. QED
  BY <1>4, <1>5, <1>6, <1>7

LEMMA NextApplying ==
  ASSUME Safe, Applying, [Next]_vars
  PROVE  Applying'
<1>1. CASE Scan
  BY <1>1, ScanApplying
<1>2. CASE Write \/ WriteAgain
  BY <1>2, FileDoneApplying
<1>3. CASE TruncateAgain \/ Applied \/ \E f \in GoFiles : Unmodified(f) \/ Truncate(f)
  BY <1>3, StepsApplying
<1>4. CASE Cut \/ (\E f \in GoFiles : ParseFails(f)) \/ \E d \in Dir : Fetch(d)
  <2>1. pc' = "idle" /\ result' # "ok"
    BY <1>4 DEF Cut, ParseFails, Stop, Fetch
  <2>2. QED
    BY <2>1, IdleApplying
<1>5. CASE Build
  <2>1. SourcesGrow'
    BY SourcesGrowStep DEF Applying
  <2>2. QED
    BY <1>5, <2>1 DEF Build, Applying, ScanKnows, DoneFiles, InHand, Reported, In,
                      sourceVars, runVars
<1>6. CASE UNCHANGED vars
  BY <1>6 DEF vars, sourceVars, runVars, Applying, ScanKnows, DoneFiles, InHand, SourcesGrow,
              Reported, In
<1>7. QED
  BY <1>1, <1>2, <1>3, <1>4, <1>5, <1>6 DEF Next, ApplyStep

LEMMA ApplyingSettled ==
  ASSUME Applying
  PROVE  Settled
<1> SUFFICES ASSUME result = "ok", binary = decl, NEW u \in Found
             PROVE  TreeFile[u.struct] # DefinedIn[u.struct]
  BY DEF Settled
<1>1. PICK d \in Dir : u \in Detected(d)
  BY DEF Found
<1>2. PICK o \in event[d] : /\ WalkedAs[o.place] # "none"
                            /\ binary[WalkedAs[o.place]][o.key] = <<>>
                            /\ u = [struct |-> WalkedAs[o.place], key |-> o.key,
                                    type |-> InferGoType(o.kind)]
  BY <1>1 DEF Detected
<1>3. PICK v \in fields : v.struct = u.struct /\ v.key = u.key
  BY <1>1, <1>2 DEF Applying, ScanKnows, Reported
<1>4. decl[v.struct][v.key] = <<>>
  BY <1>2, <1>3
<1>5. QED
  BY <1>3, <1>4 DEF Applying, DoneFiles, InHand

---------------------------------------------------------------------------
(* Lines of assignments, and imports                                       *)

\* The keys a second pass over the file in hand is to assign in a struct.
Owed(s) == {u.key : u \in {x \in In(file) : x.struct = s}}

\* The inner raw struct of a method has the keys of its struct.
RawFollows == \A s \in Inner : raw[s] = Entries(s)

\* Nothing is assigned that is not declared, and what is declared is assigned, or
\* will be by the second pass over the file in hand.
LinesFollow ==
    /\ \A s \in Structs : assigned[s] \subseteq IF s \in Inner THEN Entries(s) ELSE {}
    /\ ~cut => \A s \in Inner :
           \/ Entries(s) \subseteq assigned[s]
           \/ /\ pc \in {"assign", "fill"} /\ s \in plan
              /\ Entries(s) \subseteq assigned[s] \cup Owed(s)

Lines == RawFollows /\ LinesFollow

TornInHand == ~cut => torn = IF pc \in {"write", "fill"} THEN {file} ELSE {}

\* A struct and key is reported once; the sources had none of it when a run began
\* that knew them, and have none until its Go file is written.
OneReport == \A u, v \in fields : u.struct = v.struct /\ u.key = v.key => u = v

InGroups == pc \in {"write", "assign", "fill"} => file \in groups

NewToSources ==
    fresh => \A u \in fields :
        /\ TreeFile[u.struct] \in groups
        /\ pc \in {"assign", "fill"} => TreeFile[u.struct] # file
        => decl[u.struct][u.key] = <<>>

UsesRaw(f) ==
    \E s \in Structs, k \in Keys : \E i \in DOMAIN decl[s][k] :
        DefinedIn[s] = f /\ decl[s][k][i] = "json.RawMessage"

ImportsUsed ==
    \A f \in GoFiles \ UsesJSON : /\ UsesRaw(f) => f \in imports
                                  /\ fresh /\ f \in imports => UsesRaw(f)

Imports == OneReport /\ InGroups /\ NewToSources /\ ImportsUsed

LEMMA InnerStructs == Inner \subseteq Structs
  BY PatchAssumption DEF Inner

LEMMA InitLines == Init => Lines /\ TornInHand /\ Imports
<1> SUFFICES ASSUME Init PROVE Lines /\ TornInHand /\ Imports
  OBVIOUS
<1>1. \A s \in Structs : Entries(s) = {} /\ raw[s] = {} /\ assigned[s] = {}
  BY DEF Init, Entries
<1>2. Lines
  BY <1>1, InnerStructs DEF Lines, RawFollows, LinesFollow
<1>3. TornInHand
  BY DEF Init, TornInHand
<1>4. \A f : ~UsesRaw(f)
  BY DEF Init, UsesRaw
<1>5. Imports
  BY <1>4 DEF Init, Imports, OneReport, InGroups, NewToSources, ImportsUsed
<1>6. QED
  BY <1>2, <1>3, <1>5

\* Write gives the struct and its raw struct the same keys, and plans lines for them.
LEMMA WriteLines ==
  ASSUME Safe, Lines, Write
  PROVE  Lines'
<1>1. pc = "write" /\ file \in GoFiles /\ cut' = cut /\ assigned' = assigned
  BY DEF Write, Safe, FileInHand
<1>2. ASSUME NEW s \in Inner
      PROVE  /\ raw'[s] = Entries(s)'
             /\ Entries(s) \subseteq Entries(s)'
             /\ \A k \in Entries(s)' \ Entries(s) : \E u \in MissingRaw(file) : u.struct = s /\ u.key = k
  <2> DEFINE new == {u.key : u \in {v \in MissingRaw(file) : v.struct = s}}
  <2>1. s \in Structs /\ raw'[s] = raw[s] \cup new
    BY InnerStructs DEF Write
  <2>2. raw[s] = Entries(s)
    BY DEF Lines, RawFollows
  <2>3. ASSUME NEW k \in new PROVE k \in Keys /\ decl'[s][k] # <<>>
    <3>1. PICK u \in MissingRaw(file) : u.struct = s /\ u.key = k
      OBVIOUS
    <3>2. u \in fields /\ u \in In(file) /\ k \in Keys
      BY <3>1 DEF MissingRaw, In, Safe, TypeOK, UnknownField
    <3>3. QED
      BY <3>1, <3>2, WriteFills
  <2>4. ASSUME NEW k \in Keys, decl[s][k] = <<>>, decl'[s][k] # <<>>
        PROVE  \E u \in MissingRaw(file) : u.struct = s /\ u.key = k
    <3>1. PICK u \in In(file) : u.struct = s /\ u.key = k
      BY <2>1, <2>4, WriteDecl DEF Safe
    <3>2. k \notin raw[s]
      BY <2>2, <2>4 DEF Entries
    <3>3. QED
      BY <3>1, <3>2 DEF MissingRaw
  <2>5. \A k \in Keys : decl[s][k] # <<>> => decl'[s][k] # <<>>
    BY <2>1, DeclGrows DEF Next, ApplyStep
  <2>6. \A k \in Entries(s)' : k \in Entries(s) \/ k \in new
    BY <2>4 DEF Entries
  <2>7. QED
    BY <2>1, <2>2, <2>3, <2>4, <2>5, <2>6 DEF Entries
<1>3. ASSUME NEW s \in Inner, ~cut, ~ (Entries(s)' \subseteq assigned[s])
      PROVE  /\ pc' = "assign" /\ s \in plan'
             /\ Entries(s)' \subseteq assigned[s] \cup Owed(s)'
  <2>1. Entries(s) \subseteq assigned[s]
    BY <1>1, <1>3 DEF Lines, LinesFollow
  <2>2. PICK u \in MissingRaw(file) : u.struct = s
    BY <1>2, <1>3, <2>1
  <2>3. s \in plan'
    BY <2>2 DEF Write, Planned
  <2>4. pc' = "assign" /\ file' = file /\ fields' = fields
    BY <2>3 DEF Write
  <2>5. \A v \in MissingRaw(file) : v.struct = s => v.key \in Owed(s)'
    BY <2>4 DEF MissingRaw, Owed, In
  <2>6. QED
    BY <1>2, <2>1, <2>3, <2>4, <2>5
<1>4. \A s \in Structs \ Inner : assigned'[s] = {}
  BY <1>1 DEF Lines, LinesFollow
<1>5. \A s \in Inner : assigned'[s] \subseteq Entries(s)'
  BY <1>1, <1>2, InnerStructs DEF Lines, LinesFollow
<1>6. RawFollows'
  BY <1>2 DEF RawFollows
<1>7. LinesFollow'
  BY <1>1, <1>3, <1>4, <1>5 DEF LinesFollow
<1>8. QED
  BY <1>6, <1>7 DEF Lines

\* With a receiver of its own, a method gets the lines of its struct, and no others.
LEMMA LinesOfItsOwn ==
  ASSUME OwnReceivers, NEW s \in Inner
  PROVE  /\ NewLines(s) \subseteq Owed(s)
         /\ DefinedIn[s] = file /\ s \in plan => Owed(s) \subseteq assigned[s] \cup NewLines(s)
<1> DEFINE M == Methods(Recv[s])
<1>1. DOMAIN InnerRaw = 1 .. Len(InnerRaw) /\ Len(InnerRaw) \in Nat
  BY PatchAssumption
<1>2. M \subseteq 1 .. Len(InnerRaw) /\ \A i \in M : InnerRaw[i] \in Inner
  BY <1>1 DEF Methods, Inner
<1>3. ASSUME DefinedIn[s] = file
      PROVE  M # {} /\ \A i \in M : InnerRaw[i] = s
  <2>1. \E i \in DOMAIN InnerRaw : InnerRaw[i] = s
    BY DEF Inner
  <2>2. M # {}
    BY <1>3, <2>1 DEF Methods
  <2>3. \A i \in M : InnerRaw[i] = s
    BY <1>2, <1>3 DEF Methods, OwnReceivers
  <2>4. QED
    BY <2>2, <2>3
<1>4. ASSUME s \in FirstMethod(Recv[s]) PROVE DefinedIn[s] = file
  BY <1>4 DEF FirstMethod, Methods
<1>5. NewLines(s) \subseteq Owed(s)
  <2> SUFFICES ASSUME NEW k \in NewLines(s) PROVE k \in Owed(s)
    OBVIOUS
  <2>1. /\ s \in FirstMethod(Recv[s])
        /\ \E u \in In(file) : u.struct \in RecvToStruct(Recv[s]) /\ u.key = k
    BY DEF NewLines
  <2>2. \A t \in RecvToStruct(Recv[s]) : t = s
    BY <1>3, <1>4, <2>1 DEF RecvToStruct
  <2>3. QED
    BY <2>1, <2>2 DEF Owed
<1>6. ASSUME DefinedIn[s] = file, s \in plan, NEW k \in Owed(s)
      PROVE  k \in assigned[s] \cup NewLines(s)
  <2>1. s \in FirstMethod(Recv[s])
    <3>1. PICK m \in M : \A n \in M : m <= n
      <4> HIDE DEF M
      <4>1. QED
        BY <1>1, <1>2, <1>3, <1>6, LeastExists
    <3>2. QED
      BY <1>3, <1>6, <3>1 DEF FirstMethod
  <2>2. s \in RecvToStruct(Recv[s])
    <3> DEFINE P == {m \in M : InnerRaw[m] \in plan}
    <3>1. P = M
      BY <1>3, <1>6
    <3>2. PICK m \in P : \A n \in P : n <= m
      <4> HIDE DEF M, P
      <4>1. QED
        BY <1>1, <1>2, <1>3, <1>6, <3>1, GreatestExists
    <3>3. QED
      BY <1>3, <1>6, <3>2 DEF RecvToStruct
  <2>3. ContainsLine(Recv[s], k) => k \in assigned[s]
    BY <1>3, <1>6 DEF ContainsLine
  <2>4. PICK u \in In(file) : u.struct = s /\ u.key = k
    BY <1>6 DEF Owed
  <2>5. QED
    BY <2>1, <2>2, <2>3, <2>4 DEF NewLines
<1>7. QED
  BY <1>5, <1>6

LEMMA WriteAgainLines ==
  ASSUME OwnReceivers, Safe, Applying, Lines, WriteAgain
  PROVE  Lines'
<1>1. pc = "fill" /\ UNCHANGED <<decl, raw, cut>>
  BY DEF WriteAgain
<1>2. \A s \in Structs : assigned'[s] = assigned[s] \cup NewLines(s)
  BY DEF WriteAgain
<1>3. ASSUME NEW s \in Inner
      PROVE  /\ assigned'[s] \subseteq Entries(s)
             /\ ~cut => Entries(s) \subseteq assigned'[s]
  <2>1. s \in Structs
    BY InnerStructs
  <2>2. Owed(s) \subseteq Entries(s)
    <3>1. \A u \in In(file) : u.key \in Keys /\ decl[u.struct][u.key] # <<>>
      BY <1>1 DEF Applying, InHand, In, Safe, TypeOK, UnknownField
    <3>2. QED
      BY <3>1 DEF Owed, Entries
  <2>3. assigned'[s] \subseteq Entries(s)
    BY <1>2, <2>1, <2>2, LinesOfItsOwn DEF Lines, LinesFollow
  <2>4. ASSUME ~cut, ~ (Entries(s) \subseteq assigned[s])
        PROVE  Entries(s) \subseteq assigned'[s]
    <3>1. s \in plan /\ Entries(s) \subseteq assigned[s] \cup Owed(s)
      BY <2>4 DEF Lines, LinesFollow
    <3>2. DefinedIn[s] = file
      BY <2>4, <3>1 DEF Owed, In
    <3>3. QED
      BY <1>2, <2>1, <3>1, <3>2, LinesOfItsOwn
  <2>5. QED
    BY <1>2, <2>1, <2>3, <2>4
<1>4. \A s \in Structs \ Inner : assigned'[s] = {}
  BY <1>2 DEF NewLines, Lines, LinesFollow
<1>5. \A s \in Structs : Entries(s)' = Entries(s)
  BY <1>1 DEF Entries
<1>6. RawFollows'
  BY <1>1, <1>5, InnerStructs DEF Lines, RawFollows
<1>7. LinesFollow'
  BY <1>1, <1>3, <1>4, <1>5, InnerStructs DEF LinesFollow
<1>8. QED
  BY <1>6, <1>7 DEF Lines

\* No other step writes declarations or assignments; a run that is not cut off goes
\* through its second pass.
LEMMA OtherLines ==
  ASSUME Lines, [Next]_vars, ~Write, ~WriteAgain
  PROVE  Lines'
<1>1. UNCHANGED <<decl, raw, assigned>>
  BY DEF Next, ApplyStep, Scan, Fetch, TruncateAgain, Applied, Cut, Build, ParseFails,
         Unmodified, Truncate, vars, sourceVars
<1>2. ~cut' => /\ ~cut
               /\ pc \in {"assign", "fill"} =>
                      pc' \in {"assign", "fill"} /\ UNCHANGED <<plan, file, fields>>
  BY DEF Next, ApplyStep, Scan, Fetch, TruncateAgain, Applied, Cut, Build, ParseFails,
         Unmodified, Truncate, vars, runVars
<1>3. \A s \in Structs : Entries(s)' = Entries(s)
  BY <1>1 DEF Entries
<1>4. pc \in {"assign", "fill"} /\ ~cut' => \A s : Owed(s)' = Owed(s)
  BY <1>2 DEF Owed, In
<1>5. RawFollows'
  BY <1>1, <1>3, InnerStructs DEF Lines, RawFollows
<1>6. \A s \in Structs : assigned'[s] \subseteq IF s \in Inner THEN Entries(s)' ELSE {}
  BY <1>1, <1>3 DEF Lines, LinesFollow
<1>7. ASSUME ~cut', NEW s \in Inner
      PROVE  \/ Entries(s)' \subseteq assigned'[s]
             \/ /\ pc' \in {"assign", "fill"} /\ s \in plan'
                /\ Entries(s)' \subseteq assigned'[s] \cup Owed(s)'
  <2>1. s \in Structs /\ ~cut
    BY <1>2, <1>7, InnerStructs
  <2>2. CASE Entries(s) \subseteq assigned[s]
    BY <1>1, <1>3, <2>1, <2>2
  <2>3. CASE ~ (Entries(s) \subseteq assigned[s])
    <3>1. /\ pc \in {"assign", "fill"} /\ s \in plan
          /\ Entries(s) \subseteq assigned[s] \cup Owed(s)
      BY <2>1, <2>3 DEF Lines, LinesFollow
    <3>2. QED
      BY <1>1, <1>2, <1>3, <1>4, <1>7, <2>1, <3>1
  <2>4. QED
    BY <2>2, <2>3
<1>8. QED
  BY <1>5, <1>6, <1>7 DEF Lines, LinesFollow

LEMMA NextLines ==
  ASSUME OwnReceivers, Safe, Applying, Lines, [Next]_vars
  PROVE  Lines'
  BY WriteLines, WriteAgainLines, OtherLines

\* Only a run that is cut off leaves a Go file truncated.
LEMMA NextTorn ==
  ASSUME Safe, TornInHand, [Next]_vars
  PROVE  TornInHand'
<1> SUFFICES ASSUME ~cut'
             PROVE  torn' = IF pc' \in {"write", "fill"} THEN {file'} ELSE {}
  BY DEF TornInHand
<1>1. ~cut
  BY DEF Next, ApplyStep, Scan, Fetch, Write, TruncateAgain, WriteAgain, Applied, Cut, Build,
         ParseFails, Unmodified, Truncate, vars
<1>2. torn = IF pc \in {"write", "fill"} THEN {file} ELSE {}
  BY <1>1 DEF TornInHand
<1>3. CASE Write \/ TruncateAgain \/ WriteAgain
  BY <1>2, <1>3 DEF Write, TruncateAgain, WriteAgain, FileDone
<1>4. CASE Scan \/ Applied \/ Build \/ (\E d \in Dir : Fetch(d)) \/ UNCHANGED vars
  BY <1>2, <1>4 DEF Scan, Applied, Build, Fetch, vars, sourceVars, runVars
<1>5. ASSUME NEW f \in GoFiles, ParseFails(f) \/ Unmodified(f) \/ Truncate(f)
      PROVE  torn' = IF pc' \in {"write", "fill"} THEN {file'} ELSE {}
  BY <1>2, <1>5 DEF ParseFails, Unmodified, Truncate, sourceVars
<1>6. ~Cut
  BY DEF Cut
<1>7. QED
  BY <1>3, <1>4, <1>5, <1>6 DEF Next, ApplyStep

\* Write imports encoding/json exactly where it adds a field that needs it, when the
\* run knew the sources.
LEMMA WriteImports ==
  ASSUME StraysUseJSON, Safe, Imports, Write
  PROVE  Imports'
<1>1. /\ pc = "write" /\ file \in GoFiles /\ file \in groups
      /\ UNCHANGED <<fields, fresh>> /\ imports' = EnsureImport(file)
  BY DEF Write, Safe, FileInHand, Imports, InGroups
<1>2. OneReport' /\ InGroups'
  BY <1>1 DEF Write, FileDone, Imports, OneReport, InGroups
<1>3. \A u \in fields : u.struct \in Structs /\ u.key \in Keys
  BY DEF Safe, TypeOK, UnknownField
<1>4. NewToSources'
  <2> SUFFICES ASSUME fresh, NEW u \in fields, TreeFile[u.struct] \in groups',
                      pc' \in {"assign", "fill"} => TreeFile[u.struct] # file'
               PROVE  decl'[u.struct][u.key] = <<>>
    BY <1>1 DEF NewToSources
  <2>1. TreeFile[u.struct] # file /\ TreeFile[u.struct] \in groups
    BY DEF Write, FileDone
  <2>2. decl[u.struct][u.key] = <<>>
    BY <1>1, <2>1 DEF Imports, NewToSources
  <2>3. QED
    BY <1>3, <2>1, <2>2, WriteDecl DEF Safe, In
<1>5. ASSUME NEW f \in GoFiles \ UsesJSON, UsesRaw(f)' PROVE f \in imports'
  <2>1. PICK s \in Structs, k \in Keys :
            \E i \in DOMAIN decl'[s][k] : DefinedIn[s] = f /\ decl'[s][k][i] = "json.RawMessage"
    BY <1>5 DEF UsesRaw
  <2>2. CASE decl'[s][k] = decl[s][k]
    <3>1. UsesRaw(f)
      BY <2>1, <2>2 DEF UsesRaw
    <3>2. QED
      BY <1>1, <3>1 DEF Imports, ImportsUsed, EnsureImport
  <2>3. ASSUME NEW u \in fields, u.struct = s, u \in In(file), decl'[s][k] = <<u.type>>
        PROVE  f \in imports'
    <3>1. u.type = "json.RawMessage" /\ TreeFile[u.struct] = file /\ DefinedIn[s] = file
      BY <2>1, <2>3 DEF In
    <3>2. QED
      BY <1>1, <2>1, <3>1 DEF EnsureImport
  <2>4. QED
    BY <2>2, <2>3, WriteDecl DEF Safe
<1>6. ASSUME NEW f \in GoFiles \ UsesJSON, fresh, f \in imports' PROVE UsesRaw(f)'
  <2>1. CASE f \in imports
    <3>1. PICK s \in Structs, k \in Keys :
              \E i \in DOMAIN decl[s][k] : DefinedIn[s] = f /\ decl[s][k][i] = "json.RawMessage"
      BY <1>6, <2>1 DEF Imports, ImportsUsed, UsesRaw
    <3>2. decl'[s][k] = decl[s][k]
      BY <3>1, WriteDecl DEF Safe
    <3>3. QED
      BY <3>1, <3>2 DEF UsesRaw
  <2>2. CASE f \notin imports
    <3>1. PICK u \in fields : TreeFile[u.struct] = f /\ u.type = "json.RawMessage"
      BY <1>1, <1>6, <2>2 DEF EnsureImport
    <3>2. f = file
      BY <1>1, <1>6, <2>2 DEF EnsureImport
    <3>3. DefinedIn[u.struct] = file
      BY <1>3, <3>1, <3>2 DEF StraysUseJSON
    <3>4. decl[u.struct][u.key] = <<>>
      BY <1>1, <1>6, <3>1, <3>2 DEF Imports, NewToSources
    <3>5. u \in Added(u.struct, u.key)
      BY <3>1, <3>2, <3>3, <3>4 DEF Added, Missing, In
    <3>6. PICK v \in fields : /\ v.struct = u.struct /\ v.key = u.key
                              /\ decl'[u.struct][u.key] = <<v.type>>
      BY <1>3, <3>5, WriteDecl DEF Safe
    <3>7. v = u
      BY <3>6 DEF Imports, OneReport
    <3>8. QED
      <4>1. DOMAIN decl'[u.struct][u.key] = 1 .. 1 /\ decl'[u.struct][u.key][1] = "json.RawMessage"
        BY <3>1, <3>6, <3>7
      <4>2. 1 \in DOMAIN decl'[u.struct][u.key]
        BY <4>1
      <4>3. QED
        BY <1>3, <3>2, <3>3, <4>1, <4>2 DEF UsesRaw
  <2>3. QED
    BY <2>1, <2>2
<1>7. ImportsUsed'
  BY <1>1, <1>5, <1>6 DEF ImportsUsed
<1>8. QED
  BY <1>2, <1>4, <1>7 DEF Imports

LEMMA ScanImports ==
  ASSUME Safe, Imports, Scan
  PROVE  Imports'
<1>1. PICK S \in Scans : /\ fields' = S /\ groups' = {TreeFile[u.struct] : u \in S}
                         /\ pc' = IF S = {} THEN "idle" ELSE "apply"
  BY DEF Scan
<1>2. OneReport' /\ InGroups'
  BY <1>1, ScansFound DEF OneReport, InGroups
<1>3. NewToSources'
  <2> SUFFICES ASSUME fresh', NEW u \in S PROVE decl'[u.struct][u.key] = <<>>
    BY <1>1 DEF NewToSources
  <2>1. u \in Found /\ binary = decl /\ decl' = decl
    BY ScansFound DEF Scan, sourceVars
  <2>2. binary[u.struct][u.key] = <<>>
    BY <2>1 DEF Found, Detected
  <2>3. QED
    BY <2>1, <2>2
<1>4. ImportsUsed'
  <2>1. UNCHANGED <<decl, imports>> /\ (fresh' => fresh)
    BY DEF Scan, sourceVars
  <2>2. QED
    BY <2>1 DEF Imports, ImportsUsed, UsesRaw
<1>5. QED
  BY <1>2, <1>3, <1>4 DEF Imports

LEMMA NextImports ==
  ASSUME StraysUseJSON, Safe, Imports, [Next]_vars
  PROVE  Imports'
<1>1. CASE Write
  BY <1>1, WriteImports
<1>2. CASE Scan
  BY <1>2, ScanImports
<1>3. CASE \/ TruncateAgain \/ WriteAgain \/ Applied \/ Cut \/ Build \/ UNCHANGED vars
           \/ (\E d \in Dir : Fetch(d))
           \/ \E f \in GoFiles : ParseFails(f) \/ Unmodified(f) \/ Truncate(f)
  <2>1. UNCHANGED <<decl, imports, fresh>>
    BY <1>3 DEF TruncateAgain, WriteAgain, Applied, Cut, Build, Fetch, ParseFails, Unmodified,
                Truncate, vars, sourceVars
  <2>2. fields' \subseteq fields
    BY <1>3 DEF TruncateAgain, WriteAgain, Applied, Cut, Stop, Build, Fetch, ParseFails,
                Unmodified, Truncate, vars, runVars
  <2>3. /\ groups' \subseteq groups
        /\ pc' \in {"write", "assign", "fill"} => file' \in groups'
    BY <1>3 DEF TruncateAgain, WriteAgain, Applied, Cut, Stop, Build, Fetch, ParseFails,
                Unmodified, Truncate, FileDone, vars, runVars, Imports, InGroups
  <2>4. fields' = {} \/ (pc \in {"assign", "fill"} =>
                            \/ pc' \in {"assign", "fill"} /\ file' = file
                            \/ file \notin groups')
    BY <1>3 DEF TruncateAgain, WriteAgain, Applied, Cut, Stop, Build, Fetch, ParseFails,
                Unmodified, Truncate, FileDone, vars, runVars
  <2>5. OneReport' /\ InGroups'
    BY <2>2, <2>3 DEF Imports, OneReport, InGroups
  <2>6. NewToSources'
    BY <2>1, <2>2, <2>3, <2>4 DEF Imports, NewToSources
  <2>7. ImportsUsed'
    BY <2>1 DEF Imports, ImportsUsed, UsesRaw
  <2>8. QED
    BY <2>5, <2>6, <2>7 DEF Imports
<1>4. QED
  BY <1>1, <1>2, <1>3 DEF Next, ApplyStep

LEMMA OneLong ==
  ASSUME NEW T, NEW q \in Seq(T), q # <<>>, Len(q) <= 1
  PROVE  Len(q) = 1
<1>1. Len(q) \in Nat \ {0}
  BY EmptySeq
<1>2. \A n \in Nat \ {0} : n <= 1 => n = 1
  OBVIOUS
<1>3. QED
  BY <1>1, <1>2, Zenon

\* A struct's name, a Go file's import and a method's line are what the compiler sees.
LEMMA LinesBuild ==
  ASSUME Safe, Lines, TornInHand, Imports
  PROVE  BuildsAfterwards
<1> SUFFICES ASSUME pc = "idle", ~cut, fresh,
                    \A s \in Structs : \A k \in Entries(s) : <<s, k>> \notin Clashes
             PROVE  Compiles
  BY DEF BuildsAfterwards
<1>1. torn = {}
  BY DEF TornInHand
<1>2. \A s \in Structs : \A k \in Entries(s) : Len(decl[s][k]) = 1
  <2> SUFFICES ASSUME NEW s \in Structs, NEW k \in Entries(s) PROVE Len(decl[s][k]) = 1
    OBVIOUS
  <2>1. decl[s][k] \in Seq(GoTypes) /\ Len(decl[s][k]) <= 1 /\ decl[s][k] # <<>>
    BY DEF Entries, Safe, TypeOK, DeclaredOnce
  <2>2. QED
    BY <2>1, OneLong
<1>3. \A s \in Structs : assigned[s] \subseteq raw[s] \cap Entries(s)
  BY DEF Lines, RawFollows, LinesFollow
<1>4. \A f \in GoFiles \ UsesJSON : f \in imports <=> UsesRaw(f)
  BY DEF Imports, ImportsUsed
<1>5. QED
  BY <1>1, <1>2, <1>3, <1>4 DEF Compiles, UsesRaw

---------------------------------------------------------------------------
(* The theorems                                                            *)

\* Every reachable state is of its type, and has no key twice in a struct.
THEOREM PatchTypeOK == Spec => []TypeOK
<1>1. Safe => TypeOK
  BY DEF Safe
<1>2. QED
  BY <1>1, InitSafe, NextSafe, PTL DEF Spec

\* hasJSONTag: whatever is patched how often, no struct declares a key twice.
THEOREM PatchDeclaresOnce == Spec => []DeclaredOnce
<1>1. Safe => DeclaredOnce
  BY DEF Safe
<1>2. QED
  BY <1>1, InitSafe, NextSafe, PTL DEF Spec

\* InferGoType: where the walk takes objects for what they are, patching makes no
\* event file undecodable unless two events disagree about a key.
THEOREM PatchKeepsReadable ==
  ASSUME WalksRight
  PROVE  Spec => []StaysReadable
<1>1. Init => Safe /\ AllAsked
  BY InitSafe DEF Init, AllAsked, Types
<1>2. Safe /\ AllAsked /\ [Next]_vars => (Safe /\ AllAsked)'
  BY WalksRight, NextSafe, NextAsked
<1>3. Safe /\ AllAsked => StaysReadable
  BY AskedReadable DEF Safe
<1>4. QED
  BY <1>1, <1>2, <1>3, PTL DEF Spec

\* ApplyPatches: after a run that went through, and a build, a scan finds nothing
\* but fields of structs that are not where the tree says.
THEOREM PatchSettles == Spec => []Settled
<1>1. Init => Safe /\ Applying
  BY InitSafe DEF Init, Applying, ScanKnows, DoneFiles, InHand, SourcesGrow
<1>2. Safe /\ Applying /\ [Next]_vars => (Safe /\ Applying)'
  BY NextSafe, NextApplying
<1>3. Safe /\ Applying => Settled
  BY ApplyingSettled
<1>4. QED
  BY <1>1, <1>2, <1>3, PTL DEF Spec

\* insertAssignmentLines: unless a run was cut off between its two passes, a method
\* that copies field by field copies every field its struct got.
THEOREM PatchAssigns ==
  ASSUME OwnReceivers
  PROVE  Spec => []DeclaredIsAssigned
<1> DEFINE Inv == Safe /\ Applying /\ Lines
<1>1. Init => Inv
  BY InitSafe, InitLines DEF Init, Applying, ScanKnows, DoneFiles, InHand, SourcesGrow
<1>2. Inv /\ [Next]_vars => Inv'
  BY OwnReceivers, NextSafe, NextApplying, NextLines
<1>3. Inv => DeclaredIsAssigned
  BY DEF DeclaredIsAssigned, Lines, LinesFollow, Applying, InHand
<1>4. QED
  BY <1>1, <1>2, <1>3, PTL DEF Spec

\* ensureImport, insertAssignmentLines: after a run that was not cut off and knew the
\* sources, they compile, unless two fields share a Go name.
THEOREM PatchBuilds ==
  ASSUME OwnReceivers, StraysUseJSON
  PROVE  Spec => []BuildsAfterwards
<1> DEFINE Inv == Safe /\ Applying /\ Lines /\ TornInHand /\ Imports
<1>1. Init => Inv
  BY InitSafe, InitLines DEF Init, Applying, ScanKnows, DoneFiles, InHand, SourcesGrow
<1>2. Inv /\ [Next]_vars => Inv'
  BY OwnReceivers, StraysUseJSON, NextSafe, NextApplying, NextLines, NextTorn, NextImports
<1>3. Inv => BuildsAfterwards
  BY LinesBuild
<1> HIDE DEF Inv
<1>4. QED
  BY <1>1, <1>2, <1>3, PTL DEF Spec
=============================================================================
