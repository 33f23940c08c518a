-------------------------------- MODULE Patch --------------------------------
(***************************************************************************)
(* "clitr patch --apply" (patch.go, internal/patch): unknown fields of the *)
(* saved event files become fields of the Go structs.  The binary that     *)
(* scans knows the structs it was built from; the sources it changes are   *)
(* those on disk, and the two differ until somebody builds again.          *)
(*                                                                         *)
(* A Go file is changed by reading, truncating and writing it, once for    *)
(* the fields and a second time for assignments; the process may stop      *)
(* between any two of these.                                               *)
(***************************************************************************)
EXTENDS Integers, Sequences

CONSTANTS
    Structs, GoFiles,
    DefinedIn,   \* the Go file each struct is defined in
    TreeFile,    \* the Go file the type tree names for it
    Places,      \* where an event file may hold an object
    StructAt,    \* the struct it decodes into there
    WalkedAs,    \* the struct the walk takes it for, "none" where it does not get
    Keys,        \* JSON keys that no struct has at first
    Clashes,     \* <<struct, key>>: the key's Go name is that of another field
    InnerRaw,    \* the structs whose UnmarshalJSON declares "var raw struct", in order
    Recv,        \* the receiver variable of those methods
    UsesJSON,    \* the Go files that use encoding/json, and import it
    EventFiles,  \* bound: event files 1 .. EventFiles, in the order of their names
    Payloads     \* bound: what each event file may hold that is new

Kinds   == {"string", "bool", "number", "null", "object", "array"}
GoTypes == {"string", "bool", "float64", "json.RawMessage"}

Occurrences == [place : Places, key : Keys, kind : Kinds]

Inner == {InnerRaw[i] : i \in DOMAIN InnerRaw}

ASSUME PatchAssumption ==
    /\ DefinedIn \in [Structs -> GoFiles] /\ TreeFile \in [Structs -> GoFiles]
    /\ StructAt \in [Places -> Structs] /\ WalkedAs \in [Places -> Structs \cup {"none"}]
    /\ "none" \notin Structs
    /\ Clashes \subseteq Structs \X Keys
    /\ InnerRaw \in Seq(Structs) /\ Recv \in [Inner -> STRING]
    /\ UsesJSON \subseteq GoFiles
    /\ EventFiles \in Nat /\ Payloads \in [1 .. EventFiles -> SUBSET SUBSET Occurrences]

Dir == 1 .. EventFiles

UnknownField == [struct : Structs, key : Keys, type : GoTypes]

VARIABLES
    event,     \* what each event file holds that is new; {} before it is fetched
    decl,      \* the types declared for a key in a struct: none, one, or more
    raw,       \* the keys in the inner raw struct
    assigned,  \* the keys with a line "recv.Field = raw.Field"
    imports,   \* the Go files that import encoding/json
    torn,      \* the Go files that are truncated
    binary,    \* decl when the binary was built
    pc, fields, groups, file,  \* runPatch: where it is, what it found, Go files to go
    plan,      \* the structs whose method is to get assignments
    result,    \* how the last run ended: "none", "clean", "ok", "error"
    cut, fresh \* history: a run was cut short; every run knew the sources it changed

sourceVars == <<decl, raw, assigned, imports, torn>>
runVars    == <<pc, fields, groups, file, plan, result>>
vars       == <<event, sourceVars, binary, runVars, cut, fresh>>

NoFile == "none"

TypeOK ==
    /\ event \in [Dir -> SUBSET Occurrences]
    /\ decl \in [Structs -> [Keys -> Seq(GoTypes)]]
    /\ binary \in [Structs -> [Keys -> Seq(GoTypes)]]
    /\ raw \in [Structs -> SUBSET Keys] /\ assigned \in [Structs -> SUBSET Keys]
    /\ imports \subseteq GoFiles /\ torn \subseteq GoFiles
    /\ pc \in {"idle", "apply", "write", "assign", "fill"}
    /\ fields \subseteq UnknownField
    /\ plan \subseteq Inner
    /\ groups \subseteq GoFiles /\ file \in GoFiles \cup {NoFile}
    /\ result \in {"none", "clean", "ok", "error"}
    /\ cut \in BOOLEAN /\ fresh \in BOOLEAN

Init ==
    /\ event = [d \in Dir |-> {}]
    /\ decl = [s \in Structs |-> [k \in Keys |-> <<>>]] /\ binary = decl
    /\ raw = [s \in Structs |-> {}] /\ assigned = [s \in Structs |-> {}]
    /\ imports = UsesJSON /\ torn = {}
    /\ pc = "idle" /\ fields = {} /\ groups = {} /\ file = NoFile /\ plan = {}
    /\ result = "none"
    /\ cut = FALSE /\ fresh = TRUE

---------------------------------------------------------------------------
(* Around the command                                                      *)

\* A fetch saves an event file; unknown fields survive in it.
Fetch(d) ==
    /\ pc = "idle" /\ event[d] = {}
    /\ \E p \in Payloads[d] : event' = [event EXCEPT ![d] = p]
    /\ result' = "none" /\ fields' = {}
    /\ UNCHANGED <<sourceVars, binary, pc, groups, file, plan, cut, fresh>>

Entries(s) == {k \in Keys : decl[s][k] # <<>>}

\* The names, imports and assignments the compiler checks.
Compiles ==
    /\ torn = {}
    /\ \A s \in Structs : \A k \in Entries(s) : Len(decl[s][k]) = 1 /\ <<s, k>> \notin Clashes
    /\ \A s \in Structs : assigned[s] \subseteq raw[s] \cap Entries(s)
    /\ \A f \in GoFiles \ UsesJSON :
           f \in imports <=> \E s \in Structs, k \in Keys : \E i \in DOMAIN decl[s][k] :
                                 DefinedIn[s] = f /\ decl[s][k][i] = "json.RawMessage"

Build ==
    /\ pc = "idle" /\ Compiles
    /\ binary' = decl
    /\ UNCHANGED <<event, sourceVars, runVars, cut, fresh>>

---------------------------------------------------------------------------
(* ScanDirectory                                                           *)

\* Mutants: a null is taken for a string; a number for a whole number.
InferNullAsString(kind) ==
    CASE kind \in {"string", "null"}  -> "string"
      [] kind = "bool"                -> "bool"
      [] kind \in {"object", "array"} -> "json.RawMessage"
      [] kind = "number"              -> "float64"

InferInteger(kind) ==
    CASE kind = "string"                      -> "string"
      [] kind = "bool"                        -> "bool"
      [] kind \in {"object", "array", "null"} -> "json.RawMessage"
      [] kind = "number"                      -> "int64"

InferGoType(kind) ==
    CASE kind = "string"                      -> "string"
      [] kind = "bool"                        -> "bool"
      [] kind \in {"object", "array", "null"} -> "json.RawMessage"
      [] kind = "number"                      -> "float64"

\* DetectUnknownFields of one file.
Detected(d) ==
    {[struct |-> WalkedAs[o.place], key |-> o.key, type |-> InferGoType(o.kind)] :
        o \in {x \in event[d] : /\ WalkedAs[x.place] # "none"
                                /\ binary[WalkedAs[x.place]][x.key] = <<>>}}

Found == UNION {Detected(d) : d \in Dir}

\* What is seen first of a struct and key is kept: the first file's, and within a
\* file whichever its map is walked to first.
IsFirst(u) ==
    \E d \in Dir : /\ u \in Detected(d)
                   /\ \A e \in 1 .. d - 1 : \A v \in Detected(e) :
                          v.struct # u.struct \/ v.key # u.key

SameField(u, v) == u.struct = v.struct /\ u.key = v.key

Scans ==
    {S \in SUBSET {u \in Found : IsFirst(u)} :
        \A u \in Found : \E v \in S : \A w \in S : SameField(u, w) <=> w = v}

\* runPatch without --apply, or with nothing unknown, changes no file.
Scan ==
    /\ pc = "idle"
    /\ \E S \in Scans :
        /\ fields' = S
        /\ groups' = {TreeFile[u.struct] : u \in S}
        /\ pc' = IF S = {} THEN "idle" ELSE "apply"
        /\ result' = IF S = {} THEN "clean" ELSE "none"
    /\ fresh' = (fresh /\ binary = decl)
    /\ UNCHANGED <<event, sourceVars, binary, file, plan, cut>>

---------------------------------------------------------------------------
(* ApplyPatches                                                            *)

\* The fields the tree wants in Go file f, of structs that really are there.
In(f) == {u \in fields : TreeFile[u.struct] = f /\ DefinedIn[u.struct] = f}

\* Mutants: a field is added whether or not its tag is there; only one at a time.
MissingAlways(f) == In(f)

MissingOne(f) ==
    {u \in In(f) : decl[u.struct][u.key] = <<>> /\ u = CHOOSE v \in In(f) : TRUE}

\* addFieldToStruct, unless hasJSONTag, for the struct and for its raw struct.
Missing(f) == {u \in In(f) : decl[u.struct][u.key] = <<>>}

MissingRaw(f) == {u \in In(f) : u.struct \in Inner /\ u.key \notin raw[u.struct]}

\* plan.assignments: the structs with lines to insert.
Planned(f) == {u.struct : u \in MissingRaw(f)}

\* The process is gone, with what it had found.
Stop(how) ==
    /\ pc' = "idle" /\ result' = how
    /\ fields' = {} /\ groups' = {} /\ file' = NoFile /\ plan' = {}

\* A file that does not parse ends the run, with other files done or not.
ParseFails(f) ==
    /\ pc = "apply" /\ f \in groups \cap torn
    /\ Stop("error")
    /\ UNCHANGED <<event, sourceVars, binary, cut, fresh>>

\* Nothing modified: also when the structs are in another file than the tree says.
Unmodified(f) ==
    /\ pc = "apply" /\ f \in groups \ torn
    /\ Missing(f) \cup MissingRaw(f) = {}
    /\ groups' = groups \ {f}
    /\ UNCHANGED <<event, sourceVars, binary, pc, fields, file, plan, result, cut, fresh>>

Truncate(f) ==
    /\ pc = "apply" /\ f \in groups \ torn
    /\ Missing(f) \cup MissingRaw(f) # {}
    /\ torn' = torn \cup {f} /\ file' = f /\ pc' = "write"
    /\ UNCHANGED <<event, decl, raw, assigned, imports, binary, fields, groups, plan, result,
                   cut, fresh>>

\* Mutant: the import is left to the developer.
ImportNone(f) == imports

\* ensureImport, for every field the tree sends to the file, added or not.
EnsureImport(f) ==
    IF \E u \in fields : TreeFile[u.struct] = f /\ u.type = "json.RawMessage"
    THEN imports \cup {f} ELSE imports

FileDone == pc' = "apply" /\ groups' = groups \ {file} /\ file' = NoFile

Added(s, k) == {u \in Missing(file) : u.struct = s /\ u.key = k}

\* writeFile: the fields of the structs and of the raw structs, in one go.
Write ==
    /\ pc = "write"
    /\ decl' = [s \in Structs |-> [k \in Keys |->
                   IF Added(s, k) = {} THEN decl[s][k]
                   ELSE Append(decl[s][k], (CHOOSE u \in Added(s, k) : TRUE).type)]]
    /\ raw' = [s \in Structs |->
                   raw[s] \cup {u.key : u \in {v \in MissingRaw(file) : v.struct = s}}]
    /\ imports' = EnsureImport(file)
    /\ torn' = torn \ {file}
    /\ plan' = Planned(file)
    /\ IF plan' = {} THEN FileDone ELSE pc' = "assign" /\ UNCHANGED <<groups, file>>
    /\ UNCHANGED <<event, assigned, binary, fields, result, cut, fresh>>

\* insertAssignmentLines reads the file again and truncates it.
TruncateAgain ==
    /\ pc = "assign"
    /\ torn' = torn \cup {file} /\ pc' = "fill"
    /\ UNCHANGED <<event, decl, raw, assigned, imports, binary, fields, groups, file, plan,
                   result, cut, fresh>>

\* The methods of the file with receiver variable v, by their place in InnerRaw.
Methods(v) == {i \in DOMAIN InnerRaw : DefinedIn[InnerRaw[i]] = file /\ Recv[InnerRaw[i]] = v}

FirstMethod(v) == {InnerRaw[i] : i \in {m \in Methods(v) : \A n \in Methods(v) : m <= n}}

\* recvToFields holds one struct's fields per receiver variable, the last one's.
RecvToStruct(v) ==
    LET planned == {m \in Methods(v) : InnerRaw[m] \in plan}
    IN  {InnerRaw[i] : i \in {m \in planned : \A n \in planned : n <= m}}

\* Mutant: the lines are looked for without their receiver.
ContainsAnyLine(v, k) == \E s \in Structs : k \in assigned[s]

\* containsLine looks for "recv.Field = raw.Field" in the whole file.
ContainsLine(v, k) == \E i \in Methods(v) : k \in assigned[InnerRaw[i]]

\* The lines go into the first block of assignments with their receiver variable.
NewLines(s) ==
    IF s \in Inner /\ s \in FirstMethod(Recv[s])
    THEN {u.key : u \in {x \in In(file) : /\ x.struct \in RecvToStruct(Recv[s])
                                          /\ ~ContainsLine(Recv[s], x.key)}}
    ELSE {}

WriteAgain ==
    /\ pc = "fill"
    /\ assigned' = [s \in Structs |-> assigned[s] \cup NewLines(s)]
    /\ torn' = torn \ {file}
    /\ FileDone /\ plan' = {}
    /\ UNCHANGED <<event, decl, raw, imports, binary, fields, result, cut, fresh>>

\* "Patches applied successfully."
Applied ==
    /\ pc = "apply" /\ groups = {}
    /\ pc' = "idle" /\ result' = "ok"
    /\ UNCHANGED <<event, sourceVars, binary, fields, groups, file, plan, cut, fresh>>

\* The process is killed, or a write fails.
Cut ==
    /\ pc # "idle"
    /\ Stop("none") /\ cut' = TRUE
    /\ UNCHANGED <<event, sourceVars, binary, fresh>>

ApplyStep ==
    \/ Write \/ TruncateAgain \/ WriteAgain \/ Applied
    \/ \E f \in GoFiles : ParseFails(f) \/ Unmodified(f) \/ Truncate(f)

Next == Scan \/ ApplyStep \/ Cut \/ Build \/ \E d \in Dir : Fetch(d)

Spec == Init /\ [][Next]_vars

---------------------------------------------------------------------------
(* What some properties ask of the structs and of the type tree            *)

\* Wherever the walk gets, it takes an object for the struct it decodes into.
WalksRight == \A p \in Places : WalkedAs[p] \in {"none", StructAt[p]}

\* No two methods of a Go file that declare "var raw struct" share a receiver.
OwnReceivers ==
    \A s, t \in Inner : DefinedIn[s] = DefinedIn[t] /\ Recv[s] = Recv[t] => s = t

\* A Go file that the tree names by mistake uses encoding/json anyway.
StraysUseJSON == \A s \in Structs : TreeFile[s] = DefinedIn[s] \/ TreeFile[s] \in UsesJSON

---------------------------------------------------------------------------
(* Properties                                                              *)

\* No struct gets a key twice, however often patches are run, by a binary that
\* knows the field or not, cut off anywhere, for whatever files (hasJSONTag, seen).
DeclaredOnce == \A s \in Structs, k \in Keys : Len(decl[s][k]) <= 1

\* Every field the scan reports is one that an event file has in an object that
\* decodes into that very struct: the hand-written type tree and the structs
\* agree wherever the walk goes (buildTypeTree).
BlamesTheRightStruct ==
    \A u \in fields : \E d \in Dir : \E o \in event[d] :
        StructAt[o.place] = u.struct /\ o.key = u.key

\* After a run that was applied and built into the binary, with the event files
\* as they were, nothing the walk gets to is unknown but in structs that the tree
\* looks for in the wrong file: one round is enough.
Settled ==
    result = "ok" /\ binary = decl =>
        \A u \in Found : TreeFile[u.struct] # DefinedIn[u.struct]

\* A method that copies field by field copies every field its struct got, unless
\* a run was cut off between its two passes: no later run repairs that.
DeclaredIsAssigned ==
    result = "ok" /\ ~cut => \A s \in Inner : Entries(s) \subseteq assigned[s]

\* The sources build after every run, unless it was cut off, or two fields share
\* a Go name, or the sources had been patched since the binary was built: then
\* ensureImport may add an import that nothing uses.
BuildsAfterwards ==
    pc = "idle" /\ ~cut /\ fresh =>
        Compiles \/ \E s \in Structs : \E k \in Entries(s) : <<s, k>> \in Clashes

Fits(type, kind) ==
    type = "json.RawMessage" \/ kind = "null" \/ type = InferGoType(kind)

\* Event file d decodes: every key the binary knows has a type its value fits.
Decodes(d) ==
    \A o \in event[d] : \A i \in DOMAIN binary[StructAt[o.place]][o.key] :
        Fits(binary[StructAt[o.place]][o.key][i], o.kind)

\* One kind per struct and key, nulls apart, over all event files.
KindsAgree(d) ==
    \A o \in event[d] : \A e \in Dir : \A p \in event[e] :
        /\ StructAt[p.place] = StructAt[o.place] /\ p.key = o.key
        /\ o.kind # "null" /\ p.kind # "null"
        => InferGoType(p.kind) = InferGoType(o.kind)

\* Patching never makes an event file undecodable, so that an export would leave
\* it out, unless another event has a value of another kind for the same key.
StaysReadable == \A d \in Dir : KindsAgree(d) => Decodes(d)

\* "Patches applied successfully.": every field that was reported is declared.
AppliedIsDeclared == result = "ok" => \A u \in fields : decl[u.struct][u.key] # <<>>

=============================================================================
