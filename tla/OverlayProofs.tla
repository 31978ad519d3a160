---------------------------- MODULE OverlayProofs ----------------------------
(***************************************************************************)
(* Proofs about the overlay files: what a regeneration keeps and repairs,  *)
(* what a compilation lets into the tables, which alerts a response has.   *)
(* The second half is about the derived rows (Derive): two undisturbed     *)
(* runs settle the store, the stored signal follows from the stored mode   *)
(* and scores.                                                             *)
(***************************************************************************)
EXTENDS OverlayStore, Derive, SequenceTheorems, WellFoundedInduction, TLAPS

-----------------------------------------------------------------------------
(* The operators                                                           *)

\* Templates are nodes; a missing, an empty and a generated file are contents.
LEMMA NodeTypes ==
    /\ \A s \in Slots : Template(s) \in Nodes
    /\ Missing \in Contents /\ Empty \in Contents /\ Generated \in Contents
  <1>0. \A s \in Slots : BlankValue(s) \in Values
    BY OverlayAssumption DEF BlankValue, Values, Halves, Shapes
  <1>1. \A s \in Slots : Template(s) \in Nodes
    BY <1>0, OverlayAssumption DEF Template, Nodes, Statuses
  <1> QED
    BY <1>1 DEF Missing, Empty, Generated, There, Contents

\* A node merged into its template is a node.
LEMMA KeptType == ASSUME NEW s \in Slots, NEW n \in Nodes PROVE Kept(s, n) \in Nodes
  <1>1. Induced(s, n.status).policy \in Statuses /\ Induced(s, n.status).weight \in {0, 1}
    BY NodeTypes DEF Induced, Nodes, Statuses
  <1> QED
    BY <1>1 DEF Kept, Nodes, Statuses, Values

\* A regenerated file is a content.
LEMMA MergeType == ASSUME NEW c \in Contents, NEW force \in BOOLEAN PROVE Merge(c, force) \in Contents
  BY NodeTypes, KeptType DEF Merge, There, Contents

\* A patched file is a content.
LEMMA PatchedType ==
    ASSUME NEW nodes \in [Slots -> Nodes], NEW s \in Slots, NEW entry \in Entries, NEW f \in 0..MaxFills
    PROVE  There(Patched(nodes, s, entry, f)) \in Contents
  <1>1. entry \in [keys : SUBSET Keys, status : Statuses, current : Halves, future : Halves,
                   shape : Shapes, web : BOOLEAN, reason : BOOLEAN]
    BY OverlayAssumption
  <1>2. FillOf(entry, f) \in Values
    BY <1>1 DEF FillOf, Values
  <1>3. ASSUME NEW n \in Nodes PROVE PatchedNode(n, entry, f) \in Nodes
    <2> HIDE DEF Values, Statuses
    <2> QED
      BY <1>1, <1>2 DEF PatchedNode, Nodes
  <1> QED
    BY <1>3 DEF Patched, There, Contents

\* A file the closed-loop check has repaired is a content.
LEMMA AuditedType == ASSUME NEW c \in Contents PROVE Audited(c) \in Contents
  <1>1. \A n \in Nodes : Demoted(n) \in Nodes
    BY DEF Demoted, Nodes, Statuses
  <1> QED
    BY <1>1 DEF Audited, There, Contents

\* A generated overlay has no errors but half optionalities, whatever it was
\* merged with.
LEMMA MergeIsValid == ASSUME NEW c, NEW force \in BOOLEAN PROVE Repaired(Merge(c, force))
  <1> DEFINE Sound(s, n) == NodeErrors(s, n) = IF HalfSplit(n) THEN {"unsplit"} ELSE {}
  <1>1. ASSUME NEW s \in Slots PROVE Sound(s, Template(s))
    <2>1. NodeErrors(s, Template(s)) = {}
      BY OverlayAssumption DEF NodeErrors, Template, BlankValue
    <2>2. ~HalfSplit(Template(s))
      BY DEF HalfSplit, Template, BlankValue
    <2> QED
      BY <2>1, <2>2
  <1>2. ASSUME NEW s \in Slots, NEW n, ShouldPreserve(s, n) PROVE Sound(s, Kept(s, n))
    <2>1. Kept(s, n).status = n.status /\ Kept(s, n).value = n.value
      BY DEF Kept
    <2>2. "required" \notin NodeErrors(s, Kept(s, n)) /\ "reason" \notin NodeErrors(s, Kept(s, n))
      BY <1>2, <2>1 DEF NodeErrors, ShouldPreserve
    <2>3. "na_policy" \notin NodeErrors(s, Kept(s, n))
      BY <1>2, <2>1 DEF NodeErrors, Kept, Induced
    <2>4. "unsplit" \in NodeErrors(s, Kept(s, n)) <=> HalfSplit(Kept(s, n))
      BY <1>2, <2>1 DEF NodeErrors, ShouldPreserve, HalfSplit
    <2>5. NodeErrors(s, Kept(s, n)) \subseteq {"required", "reason", "na_policy", "unsplit"}
      BY DEF NodeErrors
    <2> QED
      BY <2>2, <2>3, <2>4, <2>5
  <1>3. Merge(c, force).state = "there"
    BY DEF Merge, Generated, There
  <1>4. ASSUME NEW s \in Slots
        PROVE  Merge(c, force).nodes[s] = Template(s)
               \/ \E n : ShouldPreserve(s, n) /\ Merge(c, force).nodes[s] = Kept(s, n)
    BY DEF Merge, There, Generated
  <1>5. ASSUME NEW s \in Slots PROVE Sound(s, Merge(c, force).nodes[s])
    <2> HIDE DEF Sound
    <2> QED
      BY <1>1, <1>2, <1>4
  <1> QED
    BY <1>3, <1>5 DEF Repaired

\* What a merge has preserved or generated, the next one leaves alone.
LEMMA MergeAgain == ASSUME NEW c PROVE Merge(Merge(c, FALSE), FALSE) = Merge(c, FALSE)
  <1> DEFINE once == Merge(c, FALSE)
  <1>1. ASSUME NEW s \in Slots, ShouldPreserve(s, Template(s)) PROVE Kept(s, Template(s)) = Template(s)
    BY <1>1, OverlayAssumption DEF ShouldPreserve, Kept, Template, Induced
  <1>2. ASSUME NEW s \in Slots, NEW n PROVE Kept(s, Kept(s, n)) = Kept(s, n)
    BY DEF Kept, Induced
  <1>3. ASSUME NEW s \in Slots, NEW n, ShouldPreserve(s, n) PROVE ShouldPreserve(s, Kept(s, n))
    BY <1>3 DEF Kept, ShouldPreserve
  <1>4. once.state = "there" /\ once = There([s \in Slots |-> once.nodes[s]])
    BY DEF Merge, There, Generated
  <1>5. ASSUME NEW s \in Slots
        PROVE  once.nodes[s] = Template(s)
               \/ \E n : ShouldPreserve(s, n) /\ once.nodes[s] = Kept(s, n)
    BY DEF Merge, There, Generated
  <1>6. ASSUME NEW s \in Slots
        PROVE  (IF ShouldPreserve(s, once.nodes[s]) THEN Kept(s, once.nodes[s]) ELSE Template(s)) = once.nodes[s]
    BY <1>1, <1>2, <1>3, <1>5
  <1>7. Merge(once, FALSE) = There([s \in Slots |-> IF ShouldPreserve(s, once.nodes[s])
                                                    THEN Kept(s, once.nodes[s]) ELSE Template(s)])
    BY <1>4 DEF Merge
  <1> QED
    BY <1>4, <1>6, <1>7

-----------------------------------------------------------------------------
(* Types                                                                   *)

\* The states of processes at rest.
LEMMA RestTypes ==
    1 \in Views /\ Idle \in WriterStates /\ Resting \in CompilerStates /\ NoRequest \in Requests
  <1>1. 1 \in Views
    BY StoreAssumption DEF Views
  <1> QED
    BY <1>1, NodeTypes DEF Idle, Resting, NoRequest, NoAlerts, WriterStates, CompilerStates, Requests

\* Init is well typed.
LEMMA InitType == Init => TypeOK
  <1> SUFFICES ASSUME Init PROVE TypeOK
    OBVIOUS
  <1> QED
    BY RestTypes, NodeTypes, StoreAssumption, OverlayAssumption DEF Init, TypeOK

\* A writer that goes on to its next file is well typed.
LEMMA OnwardType ==
    ASSUME TypeOK, NEW w \in Writers
    PROVE  Onward(w) \in WriterStates
  <1>1. writer[w] \in WriterStates
    BY DEF TypeOK
  <1>2. writer[w].view # NFiles => writer[w].view + 1 \in Views
    BY <1>1, StoreAssumption DEF WriterStates, Views
  <1> QED
    BY <1>1, <1>2, RestTypes DEF Onward, WriterStates

\* A compiler that goes on to its next file is well typed.
LEMMA AdvanceType ==
    ASSUME TypeOK, NEW good \in BOOLEAN, NEW phase \in {"load", "commit"}
    PROVE  Advance(good, phase) \in CompilerStates
  <1>1. compiler \in CompilerStates
    BY DEF TypeOK
  <1>2. compiler.view < NFiles => compiler.view + 1 \in Views
    BY <1>1, StoreAssumption DEF CompilerStates, Views
  <1> QED
    BY <1>1, <1>2, RestTypes DEF Advance, CompilerStates

\* Every step keeps the types.
LEMMA StepType == TypeOK /\ [Next]_vars => TypeOK'
  <1> SUFFICES ASSUME TypeOK, [Next]_vars PROVE TypeOK'
    OBVIOUS
  <1> USE StoreAssumption, OverlayAssumption, NodeTypes, RestTypes
  <1>0. CASE UNCHANGED vars
    BY <1>0 DEF vars, TypeOK, WriterStates, CompilerStates
  <1>1. ASSUME NEW w \in Writers, NEW op \in Generating, StartGenerate(w, op) PROVE TypeOK'
    <2>1. [Idle EXCEPT !.pc = "read", !.op = op] \in WriterStates
      BY DEF WriterStates, Generating
    <2> QED
      BY <1>1, <2>1 DEF StartGenerate, TypeOK
  <1>2. ASSUME NEW w \in Writers, ReadExisting(w) PROVE TypeOK'
    <2>1. writer[w] \in WriterStates /\ file[writer[w].view] \in Contents
      BY DEF TypeOK, WriterStates
    <2>2. Merge(file[writer[w].view], writer[w].op = "force") \in Contents
      BY <2>1, MergeType
    <2>3. [writer[w] EXCEPT !.pc = "write", !.base = file[writer[w].view],
                            !.out = Merge(file[writer[w].view], writer[w].op = "force")] \in WriterStates
      BY <2>1, <2>2 DEF WriterStates
    <2> QED
      BY <1>2, <2>3 DEF ReadExisting, TypeOK
  <1>3. ASSUME NEW w \in Writers, SkipUnchanged(w) PROVE TypeOK'
    BY <1>3, OnwardType DEF SkipUnchanged, TypeOK, WriterStates, CompilerStates
  <1>4. ASSUME NEW w \in Writers, Truncate(w) PROVE TypeOK'
    BY <1>4 DEF Truncate, TypeOK, WriterStates, CompilerStates
  <1>5. ASSUME NEW w \in Writers, Flush(w) PROVE TypeOK'
    BY <1>5, OnwardType DEF Flush, TypeOK, WriterStates, CompilerStates
  <1>6. ASSUME NEW w \in Writers, NEW v \in Views, NEW s \in Slots, NEW e \in Entries, NEW strict \in BOOLEAN,
               ApplyPatch(w, v, s, e, strict)
        PROVE  TypeOK'
    <2>1. file[v] \in Contents /\ fills + 1 \in 0..MaxFills
      BY <1>6 DEF ApplyPatch, TypeOK, WriterStates, CompilerStates
    <2>2. There(Patched(file[v].nodes, s, e, fills + 1)) \in Contents
      BY <2>1, PatchedType DEF Contents
    <2> QED
      BY <1>6, <2>1, <2>2 DEF ApplyPatch, TypeOK, WriterStates, CompilerStates
  <1>7. ASSUME NEW w \in Writers, NEW v \in Views, NEW s \in Slots, NEW e \in Entries, SalvagePatch(w, v, s, e)
        PROVE  TypeOK'
    <2>1. file[v] \in Contents /\ fills + 1 \in 0..MaxFills
      BY <1>7 DEF SalvagePatch, TypeOK, WriterStates, CompilerStates
    <2>2. There(Patched(file[v].nodes, s, e, fills + 1)) \in Contents
      BY <2>1, PatchedType DEF Contents
    <2> QED
      BY <1>7, <2>1, <2>2 DEF SalvagePatch, TypeOK, WriterStates, CompilerStates
  <1>8. ASSUME NEW w \in Writers, StartVerify(w) PROVE TypeOK'
    <2>1. [Idle EXCEPT !.pc = "read", !.op = "demote"] \in WriterStates
      BY DEF WriterStates
    <2> QED
      BY <1>8, <2>1 DEF StartVerify, TypeOK
  <1>9. ASSUME NEW w \in Writers, AuditFile(w) PROVE TypeOK'
    <2>1. writer[w] \in WriterStates /\ file[writer[w].view] \in Contents
      BY DEF TypeOK, WriterStates
    <2>2. Audited(file[writer[w].view]) \in Contents
      BY <2>1, AuditedType
    <2>3. [writer[w] EXCEPT !.pc = "write", !.base = file[writer[w].view],
                            !.out = Audited(file[writer[w].view])] \in WriterStates
      BY <2>1, <2>2 DEF WriterStates
    <2> QED
      BY <1>9, <2>3, OnwardType DEF AuditFile, TypeOK
  <1>10. ASSUME NEW w \in Writers, WriterDies(w) PROVE TypeOK'
    BY <1>10 DEF WriterDies, TypeOK, WriterStates, CompilerStates
  <1>11. CASE StartCompile \/ CompilerDies
    BY <1>11 DEF StartCompile, CompilerDies, TypeOK, WriterStates, CompilerStates
  <1>12. CASE ValidateFile
    <2>1. Valid(file[compiler.view]) \in BOOLEAN
      BY DEF Valid
    <2> QED
      BY <1>12, <2>1, AdvanceType DEF ValidateFile, TypeOK, WriterStates, CompilerStates
  <1>13. CASE LoadFile
    <2>1. Accepted(file[compiler.view]) \in BOOLEAN /\ file[compiler.view] \in Contents
      BY DEF Accepted, Valid, TypeOK, WriterStates, CompilerStates
    <2>2. Advance(Accepted(file[compiler.view]), "commit") \in CompilerStates
      BY <2>1, AdvanceType
    <2>3. compiler' \in CompilerStates
      BY <1>13, <2>1, <2>2 DEF LoadFile, CompilerStates
    <2> QED
      BY <1>13, <2>3 DEF LoadFile, TypeOK
  <1>14. CASE ReplaceTables
    BY <1>14 DEF ReplaceTables, TypeOK, WriterStates, CompilerStates
  <1>15. ASSUME NEW v \in Views, ReadSnapshot(v) PROVE TypeOK'
    <2>1. file[v] \in Contents /\ tables.content[v] \in Contents /\ tables.version \in Nat
      BY DEF TypeOK
    <2>2. request' \in Requests
      BY <1>15, <2>1 DEF ReadSnapshot, Requests
    <2> QED
      BY <1>15, <2>2 DEF ReadSnapshot, TypeOK
  <1>16. CASE ReadAlerts
    <2>1. \A c : Alerts(c) \in [unknown : SUBSET Slots, weighted : SUBSET Slots]
      BY DEF Alerts
    <2>2. request' \in Requests
      BY <1>16, <2>1 DEF ReadAlerts, Requests, TypeOK, AlertsOf
    <2> QED
      BY <1>16, <2>2 DEF ReadAlerts, TypeOK
  <1>17. CASE NextRequest
    BY <1>17 DEF NextRequest, TypeOK
  <1> QED
    BY <1>0, <1>1, <1>2, <1>3, <1>4, <1>5, <1>6, <1>7, <1>8, <1>9, <1>10, <1>11, <1>12, <1>13, <1>14, <1>15,
       <1>16, <1>17 DEF Next, Write, Rewrite, Patch, Compile, Serve

-----------------------------------------------------------------------------
(* The inductive invariant                                                 *)

\* The nodes say what the last patch or demotion of each slot decided.
Honours(m, nodes) ==
    \A s \in Slots :
        /\ m[s].status \in {"Known", "N/A"} =>
              nodes[s].status = m[s].status /\ nodes[s].value.fill = m[s].fill
        /\ m[s].status = "Unknown" /\ m[s] # NoNode =>
              ~(nodes[s].status = "Known" /\ nodes[s].value.fill = m[s].fill)

\* No fact has another shape than its schema asks for.
Fit(nodes) == \A s \in Schemas : nodes[s].status = "Known" => nodes[s].value.shape # "odd"

Writing(w) == writer[w].pc \in {"write", "flush"}
Flushing(w, v) == writer[w].pc = "flush" /\ writer[w].view = v

\* What a writer is about to write was made from what it has read.
WritersInv ==
    \A w \in Writers :
        /\ writer[w].pc = "read" => writer[w].op # "patch"
        /\ Writing(w) =>
              /\ writer[w].out.state = "there"
              /\ writer[w].op \in Generating => writer[w].out = Merge(writer[w].base, writer[w].op = "force")
              /\ writer[w].op \notin Generating => writer[w].base.state = "there"

\* Strict mode holds for the files and for what is about to be written to them.
FitInv ==
    \A v \in Views \ unchecked :
        /\ file[v].state = "there" => Fit(file[v].nodes)
        /\ \A w \in Writers : Writing(w) /\ writer[w].view = v => Fit(writer[w].out.nodes)

\* A file is written by one process at a time, which has read it whole and
\* carries over what was decided about it.
FileKept(v) ==
    /\ file[v].state = "missing" => \A s \in Slots : meant[v][s] = NoNode
    /\ file[v].state = "there" => Honours(meant[v], file[v].nodes)
    /\ \A w \in Writers : Flushing(w, v) =>
          /\ file[v] = Empty
          /\ writer[w].op \in Generating => Honours(meant[v], writer[w].out.nodes)
          /\ writer[w].op \notin Generating => Honours(meant[v], writer[w].base.nodes)
    /\ \A w, x \in Writers : Flushing(w, v) /\ Flushing(x, v) => w = x

FilesInv ==
    /\ meant \in [Views -> [Slots -> [status : Statuses, fill : 0..MaxFills]]]
    /\ \A v \in Views : file[v].state = "empty" => file[v] = Empty
    /\ \A v \in Views \ disturbed : FileKept(v)

\* What the compiler has loaded is valid, as long as all of it was good.
CompileInv ==
    /\ compiler.pc = "load" /\ compiler.ok => \A v \in 1..(compiler.view - 1) : Valid(compiler.loaded[v])
    /\ compiler.pc = "commit" => \A v \in Views : Valid(compiler.loaded[v])

\* A response under way shows the tables it was read from.
RequestInv ==
    /\ request.version <= tables.version
    /\ request.pc = "alerts" /\ request.version = tables.version =>
          request.graph = tables.content[request.view]

OverlayInv ==
    TypeOK /\ WritersInv /\ FitInv /\ FilesInv /\ RegenerationRepairs
    /\ CompileInv /\ CompiledIsValid /\ RequestInv /\ AlertsMatchGraph

-----------------------------------------------------------------------------
(* What the operations keep                                                *)

\* A regeneration without --force keeps what was decided.
LEMMA MergeHonours ==
    ASSUME NEW m \in [Slots -> [status : Statuses, fill : 0..MaxFills]], NEW c \in Contents,
           c.state = "there", Honours(m, c.nodes)
    PROVE  Honours(m, Merge(c, FALSE).nodes)
  <1> DEFINE new == Merge(c, FALSE).nodes
  <1> SUFFICES ASSUME NEW s \in Slots
               PROVE  /\ m[s].status \in {"Known", "N/A"} =>
                            new[s].status = m[s].status /\ new[s].value.fill = m[s].fill
                      /\ m[s].status = "Unknown" /\ m[s] # NoNode =>
                            ~(new[s].status = "Known" /\ new[s].value.fill = m[s].fill)
    BY DEF Honours
  <1>1. new[s] = IF ShouldPreserve(s, c.nodes[s]) THEN Kept(s, c.nodes[s]) ELSE Template(s)
    BY DEF Merge, There
  <1> HIDE DEF new
  <1>2. ShouldPreserve(s, c.nodes[s]) =>
           new[s].status = c.nodes[s].status /\ new[s].value = c.nodes[s].value
    BY <1>1 DEF Kept
  <1>3. ~ShouldPreserve(s, c.nodes[s]) => new[s].value.fill = 0 /\ c.nodes[s].status \notin {"Known", "N/A"}
    BY <1>1 DEF Template, BlankValue, ShouldPreserve
  <1>4. m[s] = [status |-> m[s].status, fill |-> m[s].fill]
    OBVIOUS
  <1> QED
    BY <1>2, <1>3, <1>4 DEF Honours, NoNode

\* A regeneration and a demotion keep the shapes; a patch with errors is known
\* as unchecked.
LEMMA MergeFits ==
    ASSUME NEW c \in Contents, NEW force \in BOOLEAN, c.state = "there" => Fit(c.nodes)
    PROVE  Fit(Merge(c, force).nodes)
  <1> SUFFICES ASSUME NEW s \in Schemas, Merge(c, force).nodes[s].status = "Known"
               PROVE  Merge(c, force).nodes[s].value.shape # "odd"
    BY DEF Fit
  <1>1. s \in Slots
    BY OverlayAssumption
  <1>2. Merge(c, force).nodes[s] = IF c.state = "there" /\ ~force /\ ShouldPreserve(s, c.nodes[s])
                                   THEN Kept(s, c.nodes[s]) ELSE Template(s)
    BY <1>1 DEF Merge, There, Generated
  <1> QED
    BY <1>2 DEF Kept, Template, BlankValue, Fit

\* The repair of the closed-loop check keeps a fitting file fitting.
LEMMA AuditedFits == ASSUME NEW c \in Contents, c.state = "there", Fit(c.nodes) PROVE Fit(Audited(c).nodes)
  <1> SUFFICES ASSUME NEW s \in Schemas, Audited(c).nodes[s].status = "Known"
               PROVE  Audited(c).nodes[s].value.shape # "odd"
    BY DEF Fit
  <1>1. s \in Slots /\ c.nodes[s] \in Nodes
    BY OverlayAssumption DEF Contents
  <1>2. Audited(c).nodes[s] = IF Violates(s, c.nodes[s]) THEN Demoted(c.nodes[s]) ELSE c.nodes[s]
    BY <1>1 DEF Audited, There
  <1>3. Demoted(c.nodes[s]).status = "Unknown"
    BY <1>1 DEF Demoted, Nodes
  <1> QED
    BY <1>2, <1>3 DEF Fit

\* An entry that is not overlooked keeps a fitting file fitting.
LEMMA PatchedFits ==
    ASSUME NEW nodes \in [Slots -> Nodes], NEW s \in Slots, NEW e \in Entries, NEW f \in 0..MaxFills,
           Fit(nodes), ~Overlooked(s, e)
    PROVE  Fit(Patched(nodes, s, e, f))
  <1> SUFFICES ASSUME NEW t \in Schemas, Patched(nodes, s, e, f)[t].status = "Known"
               PROVE  Patched(nodes, s, e, f)[t].value.shape # "odd"
    BY DEF Fit
  <1>1. t \in Slots /\ nodes[t] \in Nodes
    BY OverlayAssumption
  <1>2. CASE t # s
    BY <1>1, <1>2 DEF Patched, Fit
  <1>3. CASE t = s
    <2>1. Patched(nodes, s, e, f)[t] = PatchedNode(nodes[s], e, f)
      BY <1>1, <1>3 DEF Patched
    <2>2. CASE "data_status" \in e.keys
      <3>1. Says(e, "Known")
        BY <1>1, <1>3, <2>1, <2>2 DEF PatchedNode, Nodes, Says
      <3>2. "value" \in e.keys /\ e.shape = "fits"
        BY <1>3, <3>1 DEF Overlooked, SchemaErrors, ShapeOf
      <3> QED
        BY <1>1, <1>3, <2>1, <3>2 DEF PatchedNode, Nodes, FillOf
    <2>3. CASE "data_status" \notin e.keys
      <3>1. "value" \notin e.keys
        BY <2>3 DEF Overlooked
      <3> QED
        BY <1>1, <1>3, <2>1, <2>3, <3>1 DEF PatchedNode, Nodes, Fit
    <2> QED
      BY <2>2, <2>3
  <1> QED
    BY <1>2, <1>3

-----------------------------------------------------------------------------
(* The steps                                                               *)

\* Init establishes OverlayInv.
LEMMA OverlayInitInv == Init => OverlayInv
  <1> SUFFICES ASSUME Init PROVE OverlayInv
    OBVIOUS
  <1>1. TypeOK
    BY InitType
  <1>2. \A w \in Writers : writer[w].pc = "idle"
    BY DEF Init, Idle
  <1>3. \A v \in Views : file[v] = Missing /\ Missing.state = "missing"
    BY DEF Init, Missing
  <1>4. WritersInv /\ FitInv
    BY <1>2, <1>3 DEF WritersInv, FitInv, Writing
  <1>5. meant \in [Views -> [Slots -> [status : Statuses, fill : 0..MaxFills]]]
    BY OverlayAssumption DEF Init, NoNode, Statuses
  <1>6. \A v \in Views, s \in Slots : meant[v][s] = NoNode
    BY DEF Init
  <1>7. FilesInv
    BY <1>2, <1>3, <1>5, <1>6 DEF FilesInv, FileKept, Flushing
  <1> QED
    BY <1>1, <1>4, <1>7 DEF Init, OverlayInv, RegenerationRepairs, CompileInv, CompiledIsValid, RequestInv,
       AlertsMatchGraph, Resting, NoRequest

\* The compiler and the server.
LEMMA CompileStep ==
    TypeOK /\ CompileInv /\ CompiledIsValid /\ [Next]_vars => CompileInv' /\ CompiledIsValid'
  <1> SUFFICES ASSUME TypeOK, CompileInv, CompiledIsValid, [Next]_vars PROVE CompileInv' /\ CompiledIsValid'
    OBVIOUS
  <1> USE DEF CompileInv, CompiledIsValid
  <1>1. CASE UNCHANGED <<compiler, tables>>
    BY <1>1
  <1>2. CASE StartCompile \/ CompilerDies
    BY <1>2 DEF StartCompile, CompilerDies, Resting
  <1>3. CASE ValidateFile
    BY <1>3, StoreAssumption DEF ValidateFile, Advance, Resting, TypeOK, CompilerStates, Views
  <1>4. CASE LoadFile
    <2> DEFINE k == compiler.view
    <2> DEFINE good == Accepted(file[k])
    <2>0. compiler \in CompilerStates /\ k \in 1..NFiles /\ good \in BOOLEAN
      BY DEF TypeOK, CompilerStates, Views, Accepted, Valid
    <2>1. CASE k < NFiles /\ compiler.ok /\ good
      <3>1. /\ compiler'.pc = "load" /\ compiler'.view = k + 1
            /\ compiler'.loaded = [compiler.loaded EXCEPT ![k] = file[k]]
        <4>1. Advance(good, "commit") = [compiler EXCEPT !.view = k + 1, !.ok = compiler.ok /\ good]
          BY <2>1 DEF Advance
        <4>2. compiler' = [Advance(good, "commit") EXCEPT !.loaded = [Advance(good, "commit").loaded EXCEPT ![k] = file[k]]]
          BY <1>4, <2>1 DEF LoadFile
        <4>3. /\ Advance(good, "commit") \in CompilerStates /\ Advance(good, "commit").pc = "load"
              /\ Advance(good, "commit").view = k + 1 /\ Advance(good, "commit").loaded = compiler.loaded
          BY <1>4, <2>0, <4>1, AdvanceType DEF LoadFile, CompilerStates
        <4> QED
          BY <4>2, <4>3 DEF CompilerStates
      <3>2. \A v \in 1..k : Valid(compiler'.loaded[v])
        <4>1. SUFFICES ASSUME NEW v \in 1..k PROVE Valid(compiler'.loaded[v])
          OBVIOUS
        <4>2. v \in Views /\ compiler.loaded \in [Views -> Contents]
          <5>1. v \in Views
            BY <2>0, StoreAssumption DEF Views
          <5>2. compiler.loaded \in [Views -> Contents]
            BY <2>0 DEF CompilerStates
          <5> QED
            BY <5>1, <5>2
        <4>3. CASE v = k
          BY <2>0, <2>1, <3>1, <4>2, <4>3 DEF Accepted
        <4>4. CASE v # k
          <5>1. v \in 1..(k - 1) /\ compiler.pc = "load"
            BY <1>4, <2>0, <4>4 DEF LoadFile
          <5>2. Valid(compiler.loaded[v])
            BY <2>1, <5>1
          <5> QED
            BY <3>1, <4>2, <4>4, <5>2
        <4> QED
          BY <4>3, <4>4
      <3> QED
        BY <1>4, <2>0, <3>1, <3>2 DEF LoadFile
    <2>2. CASE k = NFiles /\ compiler.ok /\ good
      <3>1. compiler'.pc = "commit" /\ compiler'.loaded = [compiler.loaded EXCEPT ![k] = file[k]]
        <4>1. Advance(good, "commit") = [compiler EXCEPT !.pc = "commit", !.view = 1]
          BY <2>0, <2>2, StoreAssumption DEF Advance
        <4>2. compiler' = [Advance(good, "commit") EXCEPT !.loaded = [Advance(good, "commit").loaded EXCEPT ![k] = file[k]]]
          BY <1>4, <2>2 DEF LoadFile
        <4>3. /\ Advance(good, "commit") \in CompilerStates /\ Advance(good, "commit").pc = "commit"
              /\ Advance(good, "commit").loaded = compiler.loaded
          BY <2>0, <4>1, AdvanceType DEF CompilerStates
        <4> QED
          BY <4>2, <4>3 DEF CompilerStates
      <3>2. \A v \in 1..k : Valid(compiler'.loaded[v])
        <4>1. SUFFICES ASSUME NEW v \in 1..k PROVE Valid(compiler'.loaded[v])
          OBVIOUS
        <4>2. v \in Views /\ compiler.loaded \in [Views -> Contents]
          <5>1. v \in Views
            BY <2>0, StoreAssumption DEF Views
          <5>2. compiler.loaded \in [Views -> Contents]
            BY <2>0 DEF CompilerStates
          <5> QED
            BY <5>1, <5>2
        <4>3. CASE v = k
          BY <2>0, <2>2, <3>1, <4>2, <4>3 DEF Accepted
        <4>4. CASE v # k
          <5>1. v \in 1..(k - 1) /\ compiler.pc = "load"
            BY <1>4, <2>0, <4>4 DEF LoadFile
          <5>2. Valid(compiler.loaded[v])
            BY <2>2, <5>1
          <5> QED
            BY <3>1, <4>2, <4>4, <5>2
        <4> QED
          BY <4>3, <4>4
      <3> QED
        BY <1>4, <2>0, <2>2, <3>1, <3>2 DEF LoadFile, Views
    <2>3. CASE ~(compiler.ok /\ good)
      <3>1. ~(compiler'.pc \in {"load", "commit"} /\ compiler'.ok) /\ compiler'.pc # "commit"
        BY <1>4, <2>0, <2>3, RestTypes DEF LoadFile, Advance, CompilerStates, Resting
      <3> QED
        BY <1>4, <3>1 DEF LoadFile
    <2> QED
      BY <2>0, <2>1, <2>2, <2>3, StoreAssumption
  <1>5. CASE ReplaceTables
    BY <1>5 DEF ReplaceTables, Resting
  <1> QED
    <2>1. ASSUME NEW w \in Writers, Write(w) PROVE UNCHANGED <<compiler, tables>>
      BY <2>1 DEF Write, Rewrite, Patch, StartGenerate, ReadExisting, SkipUnchanged, Truncate, Flush, ApplyPatch, SalvagePatch,
         StartVerify, AuditFile, WriterDies
    <2>2. Serve => UNCHANGED <<compiler, tables>>
      BY DEF Serve, ReadSnapshot, ReadAlerts, NextRequest
    <2>3. UNCHANGED vars => UNCHANGED <<compiler, tables>>
      BY DEF vars
    <2> HIDE DEF CompileInv, CompiledIsValid
    <2> QED
      BY <1>1, <1>2, <1>3, <1>4, <1>5, <2>1, <2>2, <2>3 DEF Next, Compile

\* Every step keeps what a request has read, and the alerts with their graph.
LEMMA RequestStep ==
    TypeOK /\ RequestInv /\ AlertsMatchGraph /\ [Next]_vars => RequestInv' /\ AlertsMatchGraph'
  <1> SUFFICES ASSUME TypeOK, RequestInv, AlertsMatchGraph, [Next]_vars PROVE RequestInv' /\ AlertsMatchGraph'
    OBVIOUS
  <1> USE DEF RequestInv, AlertsMatchGraph
  <1>0. request \in Requests /\ tables.version \in Nat
    BY DEF TypeOK
  <1>1. CASE UNCHANGED <<request, tables>>
    BY <1>1
  <1>2. CASE ReplaceTables
    BY <1>0, <1>2 DEF ReplaceTables, Requests
  <1>3. ASSUME NEW v \in Views, ReadSnapshot(v) PROVE RequestInv' /\ AlertsMatchGraph'
    <2>1. NoRequest \in Requests /\ NoRequest.version = 0
      BY RestTypes DEF NoRequest
    <2>2. CASE tables.version > 0
      BY <1>0, <1>3, <2>1, <2>2 DEF ReadSnapshot, Requests
    <2>3. CASE ~(tables.version > 0)
      <3>1. request'.version = 0 /\ request'.pc \in {"not_found", "answered"}
        BY <1>3, <2>1, <2>3 DEF ReadSnapshot, Requests
      <3> QED
        BY <1>0, <1>3, <3>1 DEF ReadSnapshot
    <2> QED
      BY <2>2, <2>3
  <1>4. CASE ReadAlerts
    <2>1. /\ request'.pc = "answered" /\ request'.graph = request.graph /\ request'.version = request.version
          /\ request'.raced = (tables.version # request.version)
          /\ request'.alerts = IF AlertsOf(request.view) = NoAlerts THEN Alerts(request.graph)
                               ELSE AlertsOf(request.view)
      BY <1>0, <1>4 DEF ReadAlerts, Requests
    <2>2. request.pc = "alerts" /\ tables' = tables
      BY <1>4 DEF ReadAlerts
    <2> QED
      BY <1>0, <2>1, <2>2 DEF AlertsOf
  <1>5. CASE NextRequest
    BY <1>0, <1>5 DEF NextRequest, NoRequest
  <1> QED
    <2>1. ASSUME NEW w \in Writers, Write(w) PROVE UNCHANGED <<request, tables>>
      BY <2>1 DEF Write, Rewrite, Patch, StartGenerate, ReadExisting, SkipUnchanged, Truncate, Flush, ApplyPatch, SalvagePatch,
         StartVerify, AuditFile, WriterDies
    <2>2. StartCompile \/ ValidateFile \/ LoadFile \/ CompilerDies \/ UNCHANGED vars => UNCHANGED <<request, tables>>
      BY DEF StartCompile, ValidateFile, LoadFile, CompilerDies, vars
    <2> HIDE DEF RequestInv, AlertsMatchGraph
    <2> QED
      BY <1>1, <1>2, <1>3, <1>4, <1>5, <2>1, <2>2 DEF Next, Compile, Serve

\* The compiler and the server write no files.
LEMMA OnlyWritersWrite ==
    ASSUME [Next]_vars
    PROVE  (\E w \in Writers : Write(w)) \/ UNCHANGED <<file, writer, meant, unchecked, regenerated, disturbed>>
  BY DEF Next, vars, Compile, Serve, StartCompile, ValidateFile, LoadFile, ReplaceTables, CompilerDies, ReadSnapshot,
     ReadAlerts, NextRequest

\* What a writer goes on with is neither a patch nor something to write.
LEMMA OnwardReads ==
    ASSUME TypeOK, NEW w \in Writers
    PROVE  /\ Onward(w).pc \in {"idle", "read"}
           /\ Onward(w).pc = "read" => Onward(w).op = writer[w].op /\ writer[w].op # "patch"
  <1>1. Idle \in WriterStates /\ Idle.pc = "idle"
    BY RestTypes DEF Idle
  <1> QED
    BY <1>1 DEF Onward, WriterStates

\* Every step keeps what each writer holds of its file.
LEMMA WritersStep == TypeOK /\ WritersInv /\ [Next]_vars => WritersInv'
  <1> SUFFICES ASSUME TypeOK, WritersInv, [Next]_vars PROVE WritersInv'
    OBVIOUS
  <1> USE DEF Writing
  <1>0. CASE UNCHANGED <<file, writer, meant, unchecked, regenerated, disturbed>>
    BY <1>0 DEF WritersInv
  <1>idle. Idle \in WriterStates /\ Idle.pc = "idle"
    BY RestTypes DEF Idle
  <1>w. ASSUME NEW w \in Writers PROVE writer[w] \in WriterStates /\ file[writer[w].view] \in Contents
    BY DEF TypeOK, WriterStates
  <1>1. ASSUME NEW w \in Writers, NEW op \in Generating, StartGenerate(w, op) PROVE WritersInv'
    <2>1. writer'[w].pc = "read" /\ writer'[w].op # "patch" /\ \A x \in Writers \ {w} : writer'[x] = writer[x]
      BY <1>1, <1>idle DEF StartGenerate, TypeOK, WriterStates, Generating
    <2> QED
      BY <2>1 DEF WritersInv
  <1>2. ASSUME NEW w \in Writers, ReadExisting(w) PROVE WritersInv'
    <2>1. /\ writer'[w].pc = "write" /\ writer'[w].op = writer[w].op
          /\ writer'[w].base = file[writer[w].view]
          /\ writer'[w].out = Merge(file[writer[w].view], writer[w].op = "force")
          /\ \A x \in Writers \ {w} : writer'[x] = writer[x]
      BY <1>2, <1>w DEF ReadExisting, TypeOK, WriterStates
    <2>2. writer[w].op \in Generating
      BY <1>2, <1>w DEF ReadExisting, WritersInv, WriterStates, Generating
    <2>3. writer'[w].out.state = "there"
      BY <2>1 DEF Merge, There, Generated
    <2> QED
      BY <2>1, <2>2, <2>3 DEF WritersInv
  <1>3. ASSUME NEW w \in Writers, SkipUnchanged(w) \/ Flush(w) PROVE WritersInv'
    <2>1. writer'[w] = Onward(w) /\ \A x \in Writers \ {w} : writer'[x] = writer[x]
      BY <1>3 DEF SkipUnchanged, Flush, TypeOK
    <2> QED
      BY <2>1, OnwardReads DEF WritersInv
  <1>4. ASSUME NEW w \in Writers, Truncate(w) PROVE WritersInv'
    <2>1. /\ writer'[w].pc = "flush" /\ writer'[w].op = writer[w].op /\ writer'[w].base = writer[w].base
          /\ writer'[w].out = writer[w].out /\ writer[w].pc = "write"
          /\ \A x \in Writers \ {w} : writer'[x] = writer[x]
      BY <1>4, <1>w DEF Truncate, TypeOK, WriterStates
    <2> QED
      BY <2>1 DEF WritersInv
  <1>5. ASSUME NEW w \in Writers, NEW v \in Views, NEW s \in Slots, NEW e \in Entries, NEW strict \in BOOLEAN,
               SalvagePatch(w, v, s, e) \/ ApplyPatch(w, v, s, e, strict)
        PROVE  WritersInv'
    <2>1. /\ writer'[w].pc = "write" /\ writer'[w].op = "patch" /\ writer'[w].base.state = "there"
          /\ writer'[w].out.state = "there" /\ \A x \in Writers \ {w} : writer'[x] = writer[x]
      BY <1>5 DEF SalvagePatch, ApplyPatch, TypeOK, There
    <2> QED
      BY <2>1 DEF WritersInv, Generating
  <1>6. ASSUME NEW w \in Writers, StartVerify(w) PROVE WritersInv'
    <2>1. writer'[w].pc = "read" /\ writer'[w].op # "patch" /\ \A x \in Writers \ {w} : writer'[x] = writer[x]
      BY <1>6, <1>idle DEF StartVerify, TypeOK, WriterStates
    <2> QED
      BY <2>1 DEF WritersInv
  <1>7. ASSUME NEW w \in Writers, AuditFile(w) PROVE WritersInv'
    <2> DEFINE c == file[writer[w].view]
    <2>1. CASE Audited(c) = c
      <3>1. writer'[w] = Onward(w) /\ \A x \in Writers \ {w} : writer'[x] = writer[x]
        BY <1>7, <2>1 DEF AuditFile, TypeOK
      <3> QED
        BY <3>1, OnwardReads DEF WritersInv
    <2>2. CASE Audited(c) # c
      <3>1. c.state = "there" /\ Audited(c).state = "there"
        BY <2>2 DEF Audited, There
      <3>2. /\ writer'[w].pc = "write" /\ writer'[w].op = "demote" /\ writer'[w].base = c
            /\ writer'[w].out = Audited(c) /\ \A x \in Writers \ {w} : writer'[x] = writer[x]
        BY <1>7, <1>w, <2>2 DEF AuditFile, TypeOK, WriterStates
      <3> QED
        BY <3>1, <3>2 DEF WritersInv, Generating
    <2> QED
      BY <2>1, <2>2
  <1>8. ASSUME NEW w \in Writers, WriterDies(w) PROVE WritersInv'
    <2>1. writer'[w] = Idle /\ \A x \in Writers \ {w} : writer'[x] = writer[x]
      BY <1>8 DEF WriterDies, TypeOK
    <2> QED
      BY <1>idle, <2>1 DEF WritersInv
  <1> QED
    BY <1>0, <1>1, <1>2, <1>3, <1>4, <1>5, <1>6, <1>7, <1>8, OnlyWritersWrite DEF Write, Rewrite, Patch

\* A regenerated file is valid.
LEMMA RegeneratedStep ==
    TypeOK /\ WritersInv /\ RegenerationRepairs /\ [Next]_vars => RegenerationRepairs'
  <1> SUFFICES ASSUME TypeOK, WritersInv, RegenerationRepairs, [Next]_vars PROVE RegenerationRepairs'
    OBVIOUS
  <1> USE DEF RegenerationRepairs
  <1>0. ASSUME UNCHANGED <<file, regenerated>> PROVE RegenerationRepairs'
    BY <1>0
  <1>out. ASSUME NEW w \in Writers, Writing(w), writer[w].op \in Generating PROVE Repaired(writer[w].out)
    BY <1>out, MergeIsValid DEF WritersInv
  <1>1. ASSUME NEW w \in Writers, SkipUnchanged(w) PROVE RegenerationRepairs'
    <2>1. Repaired(file[writer[w].view])
      BY <1>1, <1>out DEF SkipUnchanged, Writing
    <2> QED
      BY <1>1, <2>1 DEF SkipUnchanged
  <1>2. ASSUME NEW w \in Writers, Truncate(w) PROVE RegenerationRepairs'
    BY <1>2 DEF Truncate, TypeOK
  <1>3. ASSUME NEW w \in Writers, Flush(w) PROVE RegenerationRepairs'
    <2>1. writer[w].op \in Generating => Repaired(writer[w].out)
      BY <1>3, <1>out DEF Flush, Writing
    <2>2. /\ file' = [file EXCEPT ![writer[w].view] = writer[w].out]
          /\ writer[w].op \in Generating => regenerated' = regenerated \cup {writer[w].view}
          /\ writer[w].op \notin Generating => regenerated' = regenerated \ {writer[w].view}
      BY <1>3 DEF Flush
    <2>3. writer[w].view \in Views /\ file \in [Views -> Contents] /\ regenerated \subseteq Views
      BY DEF TypeOK, WriterStates
    <2>4. CASE writer[w].op \in Generating
      BY <2>1, <2>2, <2>3, <2>4
    <2>5. CASE writer[w].op \notin Generating
      BY <2>2, <2>3, <2>5
    <2> QED
      BY <2>4, <2>5
  <1>4. ASSUME NEW w \in Writers, NEW v \in Views, NEW s \in Slots, NEW e \in Entries, NEW strict \in BOOLEAN,
               SalvagePatch(w, v, s, e) \/ ApplyPatch(w, v, s, e, strict)
        PROVE  UNCHANGED <<file, regenerated>>
    BY <1>4 DEF SalvagePatch, ApplyPatch
  <1>5. ASSUME NEW w \in Writers, NEW op \in Generating,
               \/ StartGenerate(w, op) \/ ReadExisting(w) \/ StartVerify(w) \/ AuditFile(w) \/ WriterDies(w)
        PROVE  UNCHANGED <<file, regenerated>>
    BY <1>5 DEF StartGenerate, ReadExisting, StartVerify, AuditFile, WriterDies
  <1>6. "generate" \in Generating
    BY DEF Generating
  <1> HIDE DEF RegenerationRepairs
  <1> QED
    BY <1>0, <1>1, <1>2, <1>3, <1>4, <1>5, <1>6, OnlyWritersWrite DEF Write, Rewrite, Patch

\* Strict mode.
LEMMA FitStep == TypeOK /\ WritersInv /\ FitInv /\ [Next]_vars => FitInv'
  <1> SUFFICES ASSUME TypeOK, WritersInv, FitInv, [Next]_vars PROVE FitInv'
    OBVIOUS
  <1> USE DEF Writing
  <1>0. CASE UNCHANGED <<file, writer, meant, unchecked, regenerated, disturbed>>
    BY <1>0 DEF FitInv
  <1>idle. Idle \in WriterStates /\ Idle.pc = "idle"
    BY RestTypes DEF Idle
  <1>w. ASSUME NEW w \in Writers
        PROVE  writer[w] \in WriterStates /\ writer[w].view \in Views /\ file[writer[w].view] \in Contents
    BY DEF TypeOK, WriterStates
  <1>1. ASSUME NEW w \in Writers, NEW op \in Generating, StartGenerate(w, op) \/ StartVerify(w) \/ WriterDies(w)
        PROVE  FitInv'
    <2>1. /\ writer'[w].pc \in {"idle", "read"} /\ \A x \in Writers \ {w} : writer'[x] = writer[x]
          /\ UNCHANGED <<file, unchecked>>
      <3>1. CASE StartGenerate(w, op)
        BY <3>1, <1>idle DEF StartGenerate, TypeOK, WriterStates
      <3>2. CASE StartVerify(w)
        BY <3>2, <1>idle DEF StartVerify, TypeOK, WriterStates
      <3>3. CASE WriterDies(w)
        BY <3>3, <1>idle DEF WriterDies, TypeOK
      <3> QED
        BY <1>1, <3>1, <3>2, <3>3
    <2> QED
      BY <2>1 DEF FitInv
  <1>2. ASSUME NEW w \in Writers, ReadExisting(w) PROVE FitInv'
    <2> DEFINE c == file[writer[w].view]
    <2>1. /\ writer'[w].view = writer[w].view /\ writer'[w].out = Merge(c, writer[w].op = "force")
          /\ \A x \in Writers \ {w} : writer'[x] = writer[x]
          /\ UNCHANGED <<file, unchecked>>
      BY <1>2, <1>w DEF ReadExisting, TypeOK, WriterStates
    <2>2. writer[w].view \notin unchecked => Fit(writer'[w].out.nodes)
      BY <1>w, <2>1, MergeFits DEF FitInv
    <2> QED
      BY <2>1, <2>2 DEF FitInv
  <1>3. ASSUME NEW w \in Writers, SkipUnchanged(w) PROVE FitInv'
    <2>1. writer'[w].pc \in {"idle", "read"} /\ \A x \in Writers \ {w} : writer'[x] = writer[x]
      BY <1>3, OnwardReads DEF SkipUnchanged, TypeOK
    <2> QED
      BY <1>3, <2>1 DEF FitInv, SkipUnchanged
  <1>4. ASSUME NEW w \in Writers, Truncate(w) PROVE FitInv'
    <2>1. /\ writer'[w].view = writer[w].view /\ writer'[w].out = writer[w].out /\ writer[w].pc = "write"
          /\ \A x \in Writers \ {w} : writer'[x] = writer[x]
      BY <1>4, <1>w DEF Truncate, TypeOK, WriterStates
    <2>2. file' = [file EXCEPT ![writer[w].view] = Empty] /\ Empty.state = "empty" /\ unchecked' = unchecked
      BY <1>4 DEF Truncate, Empty
    <2> QED
      BY <2>1, <2>2 DEF FitInv, TypeOK
  <1>5. ASSUME NEW w \in Writers, Flush(w) PROVE FitInv'
    <2>1. writer'[w].pc \in {"idle", "read"} /\ \A x \in Writers \ {w} : writer'[x] = writer[x]
      BY <1>5, OnwardReads DEF Flush, TypeOK
    <2>2. file' = [file EXCEPT ![writer[w].view] = writer[w].out] /\ unchecked' = unchecked /\ Writing(w)
      BY <1>5 DEF Flush
    <2> QED
      BY <2>1, <2>2 DEF FitInv, TypeOK
  <1>6. ASSUME NEW w \in Writers, NEW v \in Views, NEW s \in Slots, NEW e \in Entries, NEW strict \in BOOLEAN,
               SalvagePatch(w, v, s, e) \/ ApplyPatch(w, v, s, e, strict)
        PROVE  FitInv'
    <2> DEFINE patched == Patched(file[v].nodes, s, e, fills + 1)
    <2>1. /\ writer'[w].view = v /\ file[v].state = "there" /\ \A x \in Writers \ {w} : writer'[x] = writer[x]
          /\ file' = file /\ unchecked \subseteq unchecked'
          /\ fills + 1 \in 0..MaxFills /\ file[v].nodes \in [Slots -> Nodes]
      BY <1>6, OverlayAssumption DEF SalvagePatch, ApplyPatch, TypeOK, Contents
    <2>2. \/ writer'[w].out = file[v]
          \/ writer'[w].out = There(patched) /\ (~Overlooked(s, e) \/ v \in unchecked')
      BY <1>6 DEF SalvagePatch, ApplyPatch, TypeOK
    <2>3. v \notin unchecked' => Fit(file[v].nodes)
      BY <2>1 DEF FitInv
    <2>4. ~Overlooked(s, e) /\ Fit(file[v].nodes) => Fit(patched)
      BY <2>1, PatchedFits
    <2>5. There(patched).nodes = patched
      BY DEF There
    <2>6. v \notin unchecked' => Fit(writer'[w].out.nodes)
      BY <2>2, <2>3, <2>4, <2>5
    <2> HIDE DEF patched
    <2> QED
      BY <2>1, <2>6 DEF FitInv
  <1>7. ASSUME NEW w \in Writers, AuditFile(w) PROVE FitInv'
    <2> DEFINE c == file[writer[w].view]
    <2>1. CASE Audited(c) = c
      <3>1. /\ writer'[w].pc \in {"idle", "read"} /\ \A x \in Writers \ {w} : writer'[x] = writer[x]
            /\ UNCHANGED <<file, unchecked>>
        BY <1>7, <2>1, OnwardReads DEF AuditFile, TypeOK
      <3> QED
        BY <3>1 DEF FitInv
    <2>2. CASE Audited(c) # c
      <3>1. c.state = "there" /\ c \in Contents
        BY <2>2, <1>w DEF Audited
      <3>2. /\ writer'[w].view = writer[w].view /\ writer'[w].out = Audited(c)
            /\ \A x \in Writers \ {w} : writer'[x] = writer[x]
            /\ UNCHANGED <<file, unchecked>>
        BY <1>7, <1>w, <2>2 DEF AuditFile, TypeOK, WriterStates
      <3>3. writer[w].view \notin unchecked => Fit(writer'[w].out.nodes)
        BY <1>w, <3>1, <3>2, AuditedFits DEF FitInv
      <3> QED
        BY <3>2, <3>3 DEF FitInv
    <2> QED
      BY <2>1, <2>2
  <1>8. "generate" \in Generating
    BY DEF Generating
  <1> QED
    BY <1>0, <1>1, <1>2, <1>3, <1>4, <1>5, <1>6, <1>7, <1>8, OnlyWritersWrite DEF Write, Rewrite, Patch

\* What was decided about a file survives.
LEMMA FilesStep == TypeOK /\ WritersInv /\ FilesInv /\ [Next]_vars => FilesInv'
  <1> SUFFICES ASSUME TypeOK, WritersInv, FilesInv, [Next]_vars PROVE FilesInv'
    OBVIOUS
  <1>0. CASE UNCHANGED <<file, writer, meant, unchecked, regenerated, disturbed>>
    BY <1>0 DEF FilesInv, FileKept, Flushing
  <1>idle. Idle \in WriterStates /\ Idle.pc = "idle"
    BY RestTypes DEF Idle
  <1>w. ASSUME NEW w \in Writers
        PROVE  writer[w] \in WriterStates /\ writer[w].view \in Views /\ file[writer[w].view] \in Contents
    BY DEF TypeOK, WriterStates
  \* Steps that neither write nor are about to.
  <1>1. ASSUME NEW w \in Writers, writer'[w].pc # "flush", \A x \in Writers \ {w} : writer'[x] = writer[x],
               UNCHANGED <<file, meant>>, disturbed \subseteq disturbed'
        PROVE  FilesInv'
    BY <1>1 DEF FilesInv, FileKept, Flushing
  <1>2. ASSUME NEW w \in Writers, NEW op \in Generating, StartGenerate(w, op) \/ StartVerify(w) \/ WriterDies(w)
        PROVE  FilesInv'
    <2>1. /\ writer'[w].pc # "flush" /\ \A x \in Writers \ {w} : writer'[x] = writer[x]
          /\ UNCHANGED <<file, meant>> /\ disturbed \subseteq disturbed'
      <3>1. CASE StartGenerate(w, op)
        BY <3>1, <1>idle DEF StartGenerate, TypeOK, WriterStates
      <3>2. CASE StartVerify(w)
        BY <3>2, <1>idle DEF StartVerify, TypeOK, WriterStates
      <3>3. CASE WriterDies(w)
        BY <3>3, <1>idle DEF WriterDies, TypeOK
      <3> QED
        BY <1>2, <3>1, <3>2, <3>3
    <2> QED
      BY <1>1, <2>1
  <1>3. ASSUME NEW w \in Writers, ReadExisting(w) \/ AuditFile(w) \/ SkipUnchanged(w) PROVE FilesInv'
    <2>1. /\ writer'[w].pc # "flush" /\ \A x \in Writers \ {w} : writer'[x] = writer[x]
          /\ UNCHANGED <<file, meant>> /\ disturbed \subseteq disturbed'
      <3>1. CASE ReadExisting(w)
        BY <1>w, <3>1 DEF ReadExisting, TypeOK, WriterStates
      <3>2. CASE AuditFile(w)
        BY <1>w, <3>2, OnwardReads DEF AuditFile, TypeOK, WriterStates
      <3>3. CASE SkipUnchanged(w)
        BY <3>3, OnwardReads DEF SkipUnchanged, TypeOK
      <3> QED
        BY <1>3, <3>1, <3>2, <3>3
    <2> QED
      BY <1>1, <2>1
  <1>4. ASSUME NEW w \in Writers, NEW v \in Views, NEW s \in Slots, NEW e \in Entries, NEW strict \in BOOLEAN,
               SalvagePatch(w, v, s, e) \/ ApplyPatch(w, v, s, e, strict)
        PROVE  FilesInv'
    <2>1. /\ writer'[w].pc # "flush" /\ \A x \in Writers \ {w} : writer'[x] = writer[x]
          /\ UNCHANGED <<file, meant>> /\ disturbed \subseteq disturbed'
      BY <1>4 DEF SalvagePatch, ApplyPatch, TypeOK
    <2> QED
      BY <1>1, <2>1
  <1>5. ASSUME NEW w \in Writers, Truncate(w) PROVE FilesInv'
    <2>v. PICK v \in Views : v = writer[w].view
      BY <1>w
    <2> USE <2>v
    <2>1. /\ writer'[w].pc = "flush" /\ writer'[w].view = v /\ writer'[w].op = writer[w].op
          /\ writer'[w].out = writer[w].out /\ writer'[w].base = writer[w].base /\ writer[w].pc = "write"
          /\ \A x \in Writers \ {w} : writer'[x] = writer[x]
      BY <1>5, <1>w DEF Truncate, TypeOK, WriterStates
    <2>2. file' = [file EXCEPT ![v] = Empty] /\ Empty.state = "empty" /\ meant' = meant
      BY <1>5 DEF Truncate, Empty
    <2>3. file'[v] = Empty /\ \A u \in Views \ {v} : file'[u] = file[u]
      BY <1>w, <2>2 DEF TypeOK
    <2>4. disturbed \subseteq disturbed'
          /\ (v \notin disturbed' => writer[w].op # "force" /\ file[v] = writer[w].base /\ file[v] # Empty)
      BY <1>5 DEF Truncate
    <2>5. ASSUME v \notin disturbed'
          PROVE  /\ writer[w].op \in Generating => Honours(meant[v], writer[w].out.nodes)
                 /\ writer[w].op \notin Generating => Honours(meant[v], writer[w].base.nodes)
      <3>1. file[v].state \in {"missing", "there"} /\ v \in Views \ disturbed
        BY <1>w, <2>4, <2>5 DEF FilesInv, Contents
      <3>2. writer[w].op \in Generating => writer[w].out = Merge(file[v], FALSE)
        BY <2>1, <2>4, <2>5 DEF WritersInv, Writing
      <3>3. writer[w].op \notin Generating => file[v].state = "there"
        BY <2>1, <2>4, <2>5 DEF WritersInv, Writing
      <3>4. CASE file[v].state = "there"
        <4>1. Honours(meant[v], file[v].nodes) /\ meant[v] \in [Slots -> [status : Statuses, fill : 0..MaxFills]]
          BY <3>1, <3>4 DEF FilesInv, FileKept
        <4>2. Honours(meant[v], Merge(file[v], FALSE).nodes)
          BY <1>w, <3>4, <4>1, MergeHonours
        <4> QED
          BY <2>4, <2>5, <3>2, <4>1, <4>2
      <3>5. CASE file[v].state = "missing"
        <4>1. \A s \in Slots : meant[v][s] = NoNode
          BY <3>1, <3>5 DEF FilesInv, FileKept
        <4>2. Honours(meant[v], writer[w].out.nodes)
          BY <4>1 DEF Honours, NoNode
        <4> QED
          BY <3>3, <3>5, <4>2
      <3> QED
        BY <3>1, <3>4, <3>5
    <2>6. ASSUME v \notin disturbed' PROVE \A x \in Writers : Flushing(x, v)' => x = w
      BY <1>w, <2>1, <2>4, <2>6 DEF FilesInv, FileKept, Flushing
    <2>7. \A u \in Views : file'[u].state = "empty" => file'[u] = Empty
      BY <2>3 DEF FilesInv, FileKept
    <2>8. ASSUME NEW u \in Views \ disturbed', u # v
          PROVE  \A x \in Writers : Flushing(x, u)' => Flushing(x, u) /\ writer'[x] = writer[x]
      BY <2>1, <2>8 DEF Flushing
    <2>10. ASSUME v \notin disturbed' PROVE FileKept(v)'
      BY <2>1, <2>2, <2>3, <2>5, <2>6, <2>10 DEF FileKept
    <2>11. ASSUME NEW u \in Views \ disturbed', u # v
           PROVE  FileKept(u)'
      BY <2>2, <2>3, <2>4, <2>8, <2>11 DEF FilesInv, FileKept
    <2> QED
      BY <2>2, <2>7, <2>10, <2>11 DEF FilesInv
  <1>6. ASSUME NEW w \in Writers, Flush(w) PROVE FilesInv'
    <2>v. PICK v \in Views : v = writer[w].view
      BY <1>w
    <2> USE <2>v
    <2> DEFINE n == writer[w].out.nodes
    <2> DEFINE b == writer[w].base.nodes
    <2>1. /\ writer'[w].pc # "flush" /\ \A x \in Writers \ {w} : writer'[x] = writer[x]
          /\ Flushing(w, v) /\ Writing(w)
      BY <1>6, OnwardReads DEF Flush, TypeOK, Flushing, Writing
    <2>2. v \in Views /\ file'[v] = writer[w].out /\ \A u \in Views \ {v} : file'[u] = file[u]
      BY <1>6, <1>w DEF Flush, TypeOK
    <2>3. writer[w].out.state = "there" /\ writer[w].out \in Contents /\ writer[w].base \in Contents
      BY <1>w, <2>1 DEF WritersInv, WriterStates
    <2>4. disturbed \subseteq disturbed'
      BY <1>6 DEF Flush
    <2>5. writer[w].op \in Generating => meant' = meant
      BY <1>6 DEF Flush
    <2>6. writer[w].op \notin Generating =>
            meant' = [meant EXCEPT ![v] = [s \in Slots |->
                        IF n[s] = b[s] THEN meant[v][s] ELSE [status |-> n[s].status, fill |-> n[s].value.fill]]]
      BY <1>6 DEF Flush
    <2>7. meant' \in [Views -> [Slots -> [status : Statuses, fill : 0..MaxFills]]]
      <3>1. \A s \in Slots : n[s] \in Nodes
        BY <2>3 DEF Contents
      <3>2. \A s \in Slots : [status |-> n[s].status, fill |-> n[s].value.fill] \in [status : Statuses, fill : 0..MaxFills]
        BY <3>1 DEF Nodes, Values
      <3> HIDE DEF n, b
      <3>3. meant \in [Views -> [Slots -> [status : Statuses, fill : 0..MaxFills]]]
        BY DEF FilesInv
      <3>4. CASE writer[w].op \notin Generating
        <4>1. [s \in Slots |-> IF n[s] = b[s] THEN meant[v][s] ELSE [status |-> n[s].status, fill |-> n[s].value.fill]]
              \in [Slots -> [status : Statuses, fill : 0..MaxFills]]
          BY <3>2, <3>3
        <4> QED
          BY <2>6, <3>3, <3>4, <4>1
      <3> QED
        BY <2>5, <3>3, <3>4
    <2>8. \A u \in Views \ {v} : meant'[u] = meant[u]
      BY <2>2, <2>5, <2>6 DEF FilesInv, FileKept
    <2>9. ASSUME v \notin disturbed' PROVE Honours(meant'[v], n)
      <3>1. CASE writer[w].op \in Generating
        BY <2>1, <2>2, <2>4, <2>5, <2>9, <3>1 DEF FilesInv, FileKept
      <3>2. CASE writer[w].op \notin Generating
        <4>1. Honours(meant[v], b)
          BY <2>1, <2>2, <2>4, <2>9, <3>2 DEF FilesInv, FileKept
        <4>2. \A s \in Slots : meant'[v][s] = IF n[s] = b[s] THEN meant[v][s]
                                              ELSE [status |-> n[s].status, fill |-> n[s].value.fill]
          BY <2>2, <2>6, <3>2 DEF FilesInv, FileKept
        <4> HIDE DEF n, b
        <4>3. ASSUME NEW s \in Slots, n[s] = b[s]
              PROVE  meant'[v][s] = meant[v][s]
          BY <4>2, <4>3
        <4>4. ASSUME NEW s \in Slots, n[s] # b[s]
              PROVE  meant'[v][s].status = n[s].status /\ meant'[v][s].fill = n[s].value.fill
          <5>1. meant'[v][s] = [status |-> n[s].status, fill |-> n[s].value.fill]
            BY <4>2, <4>4, Zenon
          <5> QED
            BY <5>1
        <4> QED
          BY <4>1, <4>3, <4>4 DEF Honours
      <3> QED
        BY <3>1, <3>2
    <2>10. ASSUME v \notin disturbed' PROVE \A x \in Writers : ~Flushing(x, v)'
      BY <2>1, <2>2, <2>4, <2>10 DEF FilesInv, FileKept, Flushing
    <2> HIDE DEF n, b
    <2>11. ASSUME NEW u \in Views \ disturbed', u # v
           PROVE  \A x \in Writers : Flushing(x, u)' => Flushing(x, u) /\ writer'[x] = writer[x]
      BY <2>1, <2>11 DEF Flushing
    <2>12. \A u \in Views : file'[u].state = "empty" => file'[u] = Empty
      BY <2>2, <2>3 DEF FilesInv, FileKept
    <2>13. ASSUME NEW u \in Views \ disturbed', u # v
           PROVE  FileKept(u)'
      BY <2>2, <2>4, <2>8, <2>11, <2>13 DEF FilesInv, FileKept
    <2>14. v \notin disturbed' => file'[v].state = "there" /\ Honours(meant'[v], file'[v].nodes)
      BY <2>2, <2>3, <2>9 DEF n
    <2>15. v \notin disturbed' => FileKept(v)'
      BY <2>10, <2>14 DEF FileKept
    <2> QED
      BY <2>7, <2>12, <2>13, <2>15 DEF FilesInv
  <1>7. "generate" \in Generating
    BY DEF Generating
  <1> QED
    BY <1>0, <1>2, <1>3, <1>4, <1>5, <1>6, <1>7, OnlyWritersWrite DEF Write, Rewrite, Patch

\* Every step keeps the invariant.
LEMMA OverlayStepInv == OverlayInv /\ [Next]_vars => OverlayInv'
  BY StepType, WritersStep, FitStep, FilesStep, RegeneratedStep, CompileStep, RequestStep DEF OverlayInv

\* Files, tables, writers, compiler and requests satisfy OverlayInv in every
\* behaviour.
THEOREM OverlaysInvariant == Spec => []OverlayInv
  BY OverlayInitInv, OverlayStepInv, PTL DEF Spec

-----------------------------------------------------------------------------
(* Theorems                                                                *)

\* Whatever processes write the files of a company and however they interleave:
\* what a patch or a demotion decided survives every regeneration of a file that
\* was not forced, written by two processes at once or left empty, and with
\* --strict-schema no fact has a value of the wrong shape unless a patch was
\* salvaged or brought a value without a status (overlays.py,
\* merge_preserve_existing_overlay; apply_yaml_patch.py).
THEOREM FillsAreKept == Spec => []FillsSurvive
  <1>1. OverlayInv => FillsSurvive
    <2> SUFFICES ASSUME OverlayInv PROVE FillsSurvive
      OBVIOUS
    <2>1. FactsSurvive /\ DemotionsHold
      BY DEF OverlayInv, FilesInv, FileKept, Honours, FactsSurvive, DemotionsHold
    <2>2. StrictUnlessOverlooked
      BY DEF OverlayInv, FitInv, Fit, StrictUnlessOverlooked
    <2> QED
      BY <2>1, <2>2 DEF FillsSurvive
  <1> QED
    BY <1>1, OverlaysInvariant, PTL

\* A regeneration leaves no error in a file it writes but the optionalities of
\* which half is filled and half is missing, for every template without a required
\* slot that is unknown, and a second one changes nothing.
THEOREM RegenerationIsSafe == Spec => []RegenerationSafe
  <1>1. OverlayInv => RegenerationSafe
    BY MergeAgain DEF OverlayInv, RegenerationSafe, MergeIsIdempotent
  <1> QED
    BY <1>1, OverlaysInvariant, PTL

\* Files that change between the two passes of the compiler never get an invalid
\* overlay into the tables (overlays.py, compile_overlays_to_sqlite).
THEOREM TablesAreValid == Spec => []CompiledIsValid
  BY OverlaysInvariant, PTL DEF OverlayInv

\* A response that no compilation overtakes shows the alerts of its graph.
THEOREM AlertsAreOfTheGraph == Spec => []AlertsMatchGraph
  BY OverlaysInvariant, PTL DEF OverlayInv

-----------------------------------------------------------------------------
(* Derived rows: counting                                                  *)

\* A set of naturals has a least one.
LEMMA LeastNat == ASSUME NEW S \in SUBSET Nat, S # {} PROVE \E m \in S : \A k \in S : m <= k
  <1>1. PICK m \in S : \A k \in S : <<k, m>> \notin OpToRel(<, Nat)
    BY NatLessThanWellFounded, WFMin
  <1>2. \A k \in S : ~(k < m)
    BY <1>1 DEF OpToRel
  <1> QED
    BY <1>2

\* What holds at 0 and goes on by one holds up to n.
LEMMA CountUp ==
    ASSUME NEW n \in Nat, NEW A, 0 \in A, \A i \in 1..n : i - 1 \in A => i \in A
    PROVE  \A i \in 0..n : i \in A
  <1> DEFINE S == {i \in 0..n : i \notin A}
  <1> SUFFICES ASSUME S # {} PROVE FALSE
    OBVIOUS
  <1>1. PICK m \in S : \A k \in S : m <= k
    <2>1. S \in SUBSET Nat
      OBVIOUS
    <2> HIDE DEF S
    <2> QED
      BY <2>1, LeastNat
  <1>2. m \in 1..n /\ m - 1 \notin S
    BY <1>1
  <1> QED
    BY <1>1, <1>2

-----------------------------------------------------------------------------
(* Derived rows: one formula of the loop                                   *)

\* What the formulas emit, and the sub-scores.
Subs == DOMAIN ShortWeights \cup DOMAIN MidWeights \cup DOMAIN LongWeights
OutsUpTo(n) == {Registry[i].out : i \in 1..n}

\* The registry has seventeen formulas.
LEMMA RegistryIs == Len(Registry) = 17 /\ DOMAIN Registry = 1..17
  BY DEF Registry

\* The sub-scores are the same eleven points whatever the snapshot has.
LEMMA SubscoresAre == \A snap : DOMAIN Subscores(snap) = Subs
  BY DEF Subscores, BootstrapSubscores, Subs

\* The loop over the registry exists and goes formula by formula.
LoopSolves(g, usable, n) ==
    g = [k \in 0..n |-> IF k = 0 THEN NoFields
                        ELSE With(g[k - 1], Registry[k].out, Step(usable, g[k - 1], Registry[k]))]

\* Some sequence of tables goes through any number of formulas.
LEMMA LoopExists == ASSUME NEW usable, NEW n \in Nat PROVE \E g : LoopSolves(g, usable, n)
  <1> DEFINE A == {i \in Nat : \E g : LoopSolves(g, usable, i)}
             Term(g, k) == IF k = 0 THEN NoFields
                           ELSE With(g[k - 1], Registry[k].out, Step(usable, g[k - 1], Registry[k]))
  <1>1. 0 \in A
    <2> DEFINE g == [k \in 0..0 |-> NoFields]
    <2>1. LoopSolves(g, usable, 0)
      BY DEF LoopSolves
    <2> QED
      BY <2>1
  <1>2. ASSUME NEW i \in 1..n, i - 1 \in A PROVE i \in A
    <2>1. PICK g : g = [k \in 0..(i - 1) |-> Term(g, k)]
      BY <1>2 DEF LoopSolves
    <2> HIDE DEF Term
    <2> DEFINE h == [k \in 0..i |-> IF k = i THEN Term(g, i) ELSE g[k]]
    <2>2. \A k \in 0..i : k # 0 => h[k - 1] = g[k - 1]
      OBVIOUS
    <2>3. \A k \in 0..i : Term(h, k) = Term(g, k)
      BY <2>2 DEF Term
    <2>4. \A k \in 0..i : h[k] = Term(g, k)
      BY <2>1
    <2>5. h = [k \in 0..i |-> Term(h, k)]
      BY <2>3, <2>4
    <2>6. LoopSolves(h, usable, i)
      BY <2>5 DEF LoopSolves, Term
    <2> QED
      BY <2>6
  <1> HIDE DEF A
  <1>3. n \in A
    BY <1>1, <1>2, CountUp
  <1> QED
    BY <1>3 DEF A

\* The formulas and their points.
LEMMA OutsAre ==
    /\ Registry[1].out = "L7.env.risk_appetite"
    /\ Registry[2].out = "L7.mood.fomo"
    /\ Registry[3].out = "L10.val.expansion_compression"
    /\ Registry[4].out = "L8.industry.demand_supply"
    /\ Registry[5].out = "L8.industry.price_war"
    /\ Registry[6].out = "L8.val.priced_in"
    /\ Registry[7].out = "L6.path.tag"
    /\ Registry[8].out = "L6.path.second_derivative"
    /\ Registry[9].out = "L6.sens.growth_margin"
    /\ Registry[10].out = "L6.sens.cashflow"
    /\ Registry[11].out = "L6.sens.rates"
    /\ Registry[12].out = "L6.sens.risk_narrative"
    /\ Registry[13].out = "L11.short.score"
    /\ Registry[14].out = "L11.mid.score"
    /\ Registry[15].out = "L11.long.score"
    /\ Registry[16].out = "L11.mode"
    /\ Registry[17].out = "L11.trade.signal"
  BY DEF Registry

\* No two formulas emit the same point.
LEMMA OutsDiffer == \A i, j \in 1..17 : Registry[i].out = Registry[j].out => i = j
  <1> DEFINE out == [i \in 1..17 |-> Registry[i].out]
  <1> SUFFICES ASSUME NEW i \in 1..17, NEW j \in 1..17, i # j PROVE out[i] # out[j]
    OBVIOUS
  <1>1. /\ out[1] = "L7.env.risk_appetite"
        /\ out[2] = "L7.mood.fomo"
        /\ out[3] = "L10.val.expansion_compression"
        /\ out[4] = "L8.industry.demand_supply"
        /\ out[5] = "L8.industry.price_war"
        /\ out[6] = "L8.val.priced_in"
        /\ out[7] = "L6.path.tag"
        /\ out[8] = "L6.path.second_derivative"
        /\ out[9] = "L6.sens.growth_margin"
        /\ out[10] = "L6.sens.cashflow"
        /\ out[11] = "L6.sens.rates"
        /\ out[12] = "L6.sens.risk_narrative"
        /\ out[13] = "L11.short.score"
        /\ out[14] = "L11.mid.score"
        /\ out[15] = "L11.long.score"
        /\ out[16] = "L11.mode"
        /\ out[17] = "L11.trade.signal"
    BY OutsAre
  <1> HIDE DEF out
  <1> QED
    BY <1>1

\* The loop is a solution, and what it emits is the last table.
LEMMA LoopIs ==
    ASSUME NEW usable
    PROVE  \E g : LoopSolves(g, usable, 17) /\ Emitted(usable, 17) = g[17]
  <1> DEFINE g == CHOOSE f : LoopSolves(f, usable, 17)
  <1>1. LoopSolves(g, usable, 17)
    <2>1. \E f : LoopSolves(f, usable, 17)
      BY LoopExists
    <2> QED
      BY <2>1
  <1>2. Emitted(usable, 17) = g[17]
    BY DEF Emitted, LoopSolves, Extended
  <1> HIDE DEF g
  <1> QED
    BY <1>1, <1>2

\* One turn of the loop.
LEMMA LoopTurn ==
    ASSUME NEW g, NEW usable, LoopSolves(g, usable, 17), NEW k \in 1..17
    PROVE  g[k] = With(g[k - 1], Registry[k].out, Step(usable, g[k - 1], Registry[k]))
  <1>1. k \in 0..17 /\ k # 0
    OBVIOUS
  <1> QED
    BY <1>1 DEF LoopSolves

\* After n formulas the table has their points.
LEMMA LoopHas ==
    ASSUME NEW g, NEW usable, LoopSolves(g, usable, 17)
    PROVE  \A n \in 0..17 : DOMAIN g[n] = OutsUpTo(n)
  <1> DEFINE A == {n \in 0..17 : DOMAIN g[n] = OutsUpTo(n)}
  <1>1. 0 \in A
    <2>1. g[0] = NoFields
      BY DEF LoopSolves
    <2> QED
      BY <2>1 DEF NoFields, OutsUpTo
  <1>2. ASSUME NEW i \in 1..17, i - 1 \in A PROVE i \in A
    <2>1. DOMAIN g[i] = DOMAIN g[i - 1] \cup {Registry[i].out}
      <3> DEFINE v == Step(usable, g[i - 1], Registry[i])
      <3>1. g[i] = With(g[i - 1], Registry[i].out, v)
        BY LoopTurn
      <3> HIDE DEF v
      <3> QED
        BY <3>1 DEF With
    <2>2. OutsUpTo(i) = OutsUpTo(i - 1) \cup {Registry[i].out}
      BY DEF OutsUpTo
    <2> QED
      BY <1>2, <2>1, <2>2
  <1> HIDE DEF A
  <1>3. \A n \in 0..17 : n \in A
    BY <1>1, <1>2, CountUp
  <1> QED
    BY <1>3 DEF A

\* What a formula has emitted stays.
LEMMA LoopKeeps ==
    ASSUME NEW g, NEW usable, LoopSolves(g, usable, 17), NEW i \in 1..17
    PROVE  \A n \in i..17 : g[n][Registry[i].out] = Step(usable, g[i - 1], Registry[i])
  <1> DEFINE o == Registry[i].out
             v == Step(usable, g[i - 1], Registry[i])
             A == {n \in Nat : n >= i => g[n][o] = v}
  <1>1. 0 \in A
    OBVIOUS
  <1>2. ASSUME NEW n \in 1..17, n - 1 \in A PROVE n \in A
    <2>1. CASE n < i
      BY <2>1
    <2>2. CASE n = i
      <3>1. g[n] = With(g[i - 1], o, v)
        BY <2>2, LoopTurn
      <3> HIDE DEF o, v
      <3>2. g[n][o] = v
        BY <3>1 DEF With
      <3> QED
        BY <3>2
    <2>3. CASE n > i
      <3>1. g[n - 1][o] = v
        BY <1>2, <2>3
      <3>2. o # Registry[n].out
        BY <2>3, OutsDiffer
      <3>3. o \in DOMAIN g[n - 1]
        <4>1. n - 1 \in 0..17 /\ i \in 1..(n - 1)
          BY <2>3
        <4>2. DOMAIN g[n - 1] = OutsUpTo(n - 1)
          BY <4>1, LoopHas
        <4> QED
          BY <4>1, <4>2 DEF OutsUpTo
      <3> DEFINE w == Step(usable, g[n - 1], Registry[n])
      <3>4. g[n] = With(g[n - 1], Registry[n].out, w)
        BY LoopTurn
      <3> HIDE DEF o, v, w
      <3>5. g[n][o] = g[n - 1][o]
        BY <3>2, <3>3, <3>4 DEF With
      <3> QED
        BY <3>1, <3>5
    <2> QED
      BY <2>1, <2>2, <2>3
  <1> HIDE DEF A
  <1>3. \A n \in 0..17 : n \in A
    BY <1>1, <1>2, CountUp
  <1> QED
    BY <1>3 DEF A

-----------------------------------------------------------------------------
(* Derived rows: what a run depends on                                     *)

\* Two tables that agree on a point both have its row, or neither.
AgreeAt(s, t, dp) == (dp \in DOMAIN s <=> dp \in DOMAIN t) /\ (dp \in DOMAIN s => s[dp] = t[dp])
AgreeOff(s, t, D) == \A dp : dp \notin D => AgreeAt(s, t, dp)

\* All that the loop emits.
LEMMA OutSetIs ==
    OutsUpTo(17) =
       {"L7.env.risk_appetite", "L7.mood.fomo", "L10.val.expansion_compression",
        "L8.industry.demand_supply", "L8.industry.price_war", "L8.val.priced_in", "L6.path.tag",
        "L6.path.second_derivative", "L6.sens.growth_margin", "L6.sens.cashflow",
        "L6.sens.rates", "L6.sens.risk_narrative", "L11.short.score", "L11.mid.score",
        "L11.long.score", "L11.mode", "L11.trade.signal"}
  <1>1. OutsUpTo(17) =
         {Registry[1].out, Registry[2].out, Registry[3].out, Registry[4].out,
          Registry[5].out, Registry[6].out, Registry[7].out, Registry[8].out,
          Registry[9].out, Registry[10].out, Registry[11].out, Registry[12].out,
          Registry[13].out, Registry[14].out, Registry[15].out, Registry[16].out,
          Registry[17].out}
    BY DEF OutsUpTo
  <1> QED
    BY <1>1, OutsAre

\* The eleven sub-scores.
LEMMA SubsAre ==
    Subs = {"L11.short.event_impact", "L11.short.flow_boost", "L11.short.sentiment_shift",
            "L11.short.technical", "L11.mid.orders_revenue", "L11.mid.margin_guidance",
            "L11.mid.eps_upward", "L11.long.industry_space", "L11.long.compete_moat",
            "L11.long.business_model", "L11.long.margin"}
  BY DEF Subs, ShortWeights, MidWeights, LongWeights

\* The derived points are what the formulas emit and the sub-scores.
LEMMA DerivedIs == Derived = OutsUpTo(17) \cup Subs
  BY RegistryIs DEF Derived, Outs, OutsUpTo, Subs

\* The sub-scores are computed from sources only.
LEMMA SubscoresLocal ==
    ASSUME NEW s, NEW t, AgreeOff(s, t, Derived)
    PROVE  Subscores(s) = Subscores(t)
  <1> DEFINE u == [dp \in Usable(s) |-> s[dp].value]
             v == [dp \in Usable(t) |-> t[dp].value]
             Sources == {"L10.industry.pmi", "L5.fina.gross_margin", "L5.fina.net_margin",
                         "L5.fina.ocf_quality",
                        "L5.fina.revenue_yoy", "L5.fina.roe", "L6.priced.crowdedness", "L6.priced.run_up",
                        "L7.flow.active_inflow", "L7.flow.block_trade", "L7.mood.media_social",
                        "L9.company.earnings_guidance", "L9.event.intraday_announcement",
                        "L9.event.intraday_news", "L9.media.social_buzz"}
  <1>1. Sources \cap Derived = {}
    BY DerivedIs, OutSetIs, SubsAre
  <1>2. \A dp \in Sources : Of(u, dp) = Of(v, dp)
    BY <1>1 DEF Of, Usable, AgreeOff, AgreeAt
  <1>3. /\ Of(u, "L10.industry.pmi") = Of(v, "L10.industry.pmi")
        /\ Of(u, "L5.fina.gross_margin") = Of(v, "L5.fina.gross_margin")
        /\ Of(u, "L5.fina.net_margin") = Of(v, "L5.fina.net_margin")
        /\ Of(u, "L5.fina.ocf_quality") = Of(v, "L5.fina.ocf_quality")
        /\ Of(u, "L5.fina.revenue_yoy") = Of(v, "L5.fina.revenue_yoy")
        /\ Of(u, "L5.fina.roe") = Of(v, "L5.fina.roe")
        /\ Of(u, "L6.priced.crowdedness") = Of(v, "L6.priced.crowdedness")
        /\ Of(u, "L6.priced.run_up") = Of(v, "L6.priced.run_up")
        /\ Of(u, "L7.flow.active_inflow") = Of(v, "L7.flow.active_inflow")
        /\ Of(u, "L7.flow.block_trade") = Of(v, "L7.flow.block_trade")
        /\ Of(u, "L7.mood.media_social") = Of(v, "L7.mood.media_social")
        /\ Of(u, "L9.company.earnings_guidance") = Of(v, "L9.company.earnings_guidance")
        /\ Of(u, "L9.event.intraday_announcement") = Of(v, "L9.event.intraday_announcement")
        /\ Of(u, "L9.event.intraday_news") = Of(v, "L9.event.intraday_news")
        /\ Of(u, "L9.media.social_buzz") = Of(v, "L9.media.social_buzz")
    BY <1>2
  <1> HIDE DEF u, v
  <1>4. EventImpact(u) = EventImpact(v)
    BY ONLY <1>3 DEF EventImpact
  <1>5. FlowBoost(u) = FlowBoost(v)
    BY ONLY <1>3 DEF FlowBoost
  <1>6. SentimentShift(u) = SentimentShift(v)
    BY ONLY <1>3 DEF SentimentShift
  <1>7. Technical(u) = Technical(v)
    BY ONLY <1>3 DEF Technical
  <1>8. MarginGuidance(u) = MarginGuidance(v)
    BY ONLY <1>3 DEF MarginGuidance, Value
  <1>9. EpsUpward(u) = EpsUpward(v)
    BY ONLY <1>3 DEF EpsUpward
  <1>10. IndustrySpace(u) = IndustrySpace(v)
    BY ONLY <1>3 DEF IndustrySpace
  <1>11. CompeteMoat(u) = CompeteMoat(v)
    BY ONLY <1>3 DEF CompeteMoat, Value
  <1>12. \A d : /\ Value(u, "L5.fina.revenue_yoy", d) = Value(v, "L5.fina.revenue_yoy", d)
              /\ Value(u, "L5.fina.ocf_quality", d) = Value(v, "L5.fina.ocf_quality", d)
              /\ Value(u, "L5.fina.net_margin", d) = Value(v, "L5.fina.net_margin", d)
    BY ONLY <1>3 DEF Value
  <1>13. BootstrapSubscores(u) = BootstrapSubscores(v)
    BY ONLY <1>4, <1>5, <1>6, <1>7, <1>8, <1>9, <1>10, <1>11, <1>12 DEF BootstrapSubscores
  <1> QED
    BY <1>13 DEF Subscores, u, v

\* The inputs of a run are those of another where their snapshots agree, and the sub-scores.
LEMMA InputsLocal ==
    ASSUME NEW s, NEW t, AgreeOff(s, t, Derived), NEW dp, dp \in Subs \/ AgreeAt(s, t, dp)
    PROVE  AgreeAt(Inputs(s), Inputs(t), dp)
  <1>1. Subscores(s) = Subscores(t) /\ DOMAIN Subscores(s) = Subs
    BY SubscoresLocal, SubscoresAre
  <1>2. CASE dp \in Subs
    BY <1>1, <1>2 DEF Inputs, AgreeAt
  <1>3. CASE dp \notin Subs /\ AgreeAt(s, t, dp)
    BY <1>1, <1>3 DEF Inputs, AgreeAt, Usable
  <1> QED
    BY <1>2, <1>3

\* A formula depends on its inputs only.
LEMMA StepLocal ==
    ASSUME NEW u, NEW v, NEW a, NEW b, NEW f,
           \A dp \in f.in : AgreeAt(a, b, dp) /\ (dp \in DOMAIN a \/ AgreeAt(u, v, dp))
    PROVE  Step(u, a, f) = Step(v, b, f)
  <1>1. f.in \cap (DOMAIN u \cup DOMAIN a) = f.in \cap (DOMAIN v \cup DOMAIN b)
    BY DEF AgreeAt
  <1>2. \A dp \in f.in \cap (DOMAIN u \cup DOMAIN a) : Seen(u, a, dp) = Seen(v, b, dp)
    BY DEF AgreeAt, Seen
  <1>3. Visible(u, a, f) = Visible(v, b, f)
    BY <1>1, <1>2 DEF Visible
  <1> QED
    BY <1>3 DEF Step

\* What a formula reads is a source, a sub-score or the point of an earlier one,
\* but for the price: it reads the short score, which comes later.
LEMMA Reads ==
    \A k \in 1..17 : \A dp \in Registry[k].in :
        /\ dp # "L8.val.priced_in"
        /\ \/ dp \notin Derived \/ dp \in Subs \/ dp \in OutsUpTo(k - 1)
           \/ k = 6 /\ dp = "L11.short.score"
  <1> DEFINE Fine(k, dp) == /\ dp # "L8.val.priced_in"
                            /\ \/ dp \notin Derived \/ dp \in Subs \/ dp \in OutsUpTo(k - 1)
                               \/ k = 6 /\ dp = "L11.short.score"
  <1>1. \A dp \in Registry[1].in : Fine(1, dp)
    <2>1. Registry[1].in = {"L7.env.market_trend", "L7.env.style", "L9.macro.liquidity", "L9.macro.rates"}
      BY DEF Registry
    <2>2. {"L7.env.market_trend", "L7.env.style", "L9.macro.liquidity", "L9.macro.rates"} \cap Derived = {}
      BY DerivedIs, OutSetIs, SubsAre
    <2> QED
      BY <2>1, <2>2
  <1>2. \A dp \in Registry[2].in : Fine(2, dp)
    <2>1. Registry[2].in = {"L7.mood.media_social", "L7.flow.active_inflow", "L7.mood.theme"}
      BY DEF Registry
    <2>2. {"L7.mood.media_social", "L7.flow.active_inflow", "L7.mood.theme"} \cap Derived = {}
      BY DerivedIs, OutSetIs, SubsAre
    <2> QED
      BY <2>1, <2>2
  <1>3. \A dp \in Registry[3].in : Fine(3, dp)
    <2>1. Registry[3].in = {"L6.state.expansion_compression"}
      BY DEF Registry
    <2>2. {"L6.state.expansion_compression"} \cap Derived = {}
      BY DerivedIs, OutSetIs, SubsAre
    <2> QED
      BY <2>1, <2>2
  <1>4. \A dp \in Registry[4].in : Fine(4, dp)
    <2>1. Registry[4].in = {"L0.demand.terminal", "L0.supply.capacity", "L0.supply.inventory",
                            "L0.demand.replacement"}
      BY DEF Registry
    <2>2. {"L0.demand.terminal", "L0.supply.capacity", "L0.supply.inventory",
           "L0.demand.replacement"} \cap Derived = {}
      BY DerivedIs, OutSetIs, SubsAre
    <2> QED
      BY <2>1, <2>2
  <1>5. \A dp \in Registry[5].in : Fine(5, dp)
    <2>1. Registry[5].in = {"L0.price.discount", "L0.compete.price_war", "L0.price.pricing_power"}
      BY DEF Registry
    <2>2. {"L0.price.discount", "L0.compete.price_war", "L0.price.pricing_power"} \cap Derived = {}
      BY DerivedIs, OutSetIs, SubsAre
    <2> QED
      BY <2>1, <2>2
  <1>6. \A dp \in Registry[6].in : Fine(6, dp)
    <2>1. Registry[6].in = {"L6.priced.run_up", "L11.short.score", "L8.val.overvalued"}
      BY DEF Registry
    <2>2. {"L6.priced.run_up", "L8.val.overvalued"} \cap Derived = {}
      BY DerivedIs, OutSetIs, SubsAre
    <2> QED
      BY <2>1, <2>2
  <1>7. \A dp \in Registry[7].in : Fine(7, dp)
    <2>1. Registry[7].in = {"L6.mult.pe", "L6.state.historical_percentile",
                            "L10.val.historical_quantile", "L6.state.expansion_compression"}
      BY DEF Registry
    <2>2. {"L6.mult.pe", "L6.state.historical_percentile", "L10.val.historical_quantile",
           "L6.state.expansion_compression"} \cap Derived = {}
      BY DerivedIs, OutSetIs, SubsAre
    <2> QED
      BY <2>1, <2>2
  <1>8. \A dp \in Registry[8].in : Fine(8, dp)
    <2>1. Registry[8].in = {"L6.state.historical_percentile", "L6.priced.run_up"}
      BY DEF Registry
    <2>2. {"L6.state.historical_percentile", "L6.priced.run_up"} \cap Derived = {}
      BY DerivedIs, OutSetIs, SubsAre
    <2> QED
      BY <2>1, <2>2
  <1>9. \A dp \in Registry[9].in : Fine(9, dp)
    <2>1. Registry[9].in = {"L5.fina.gross_margin", "L5.fina.revenue_yoy"}
      BY DEF Registry
    <2>2. {"L5.fina.gross_margin", "L5.fina.revenue_yoy"} \cap Derived = {}
      BY DerivedIs, OutSetIs, SubsAre
    <2> QED
      BY <2>1, <2>2
  <1>10. \A dp \in Registry[10].in : Fine(10, dp)
    <2>1. Registry[10].in = {"L5.fina.ocf_quality", "L5.cf.fcf"}
      BY DEF Registry
    <2>2. {"L5.fina.ocf_quality", "L5.cf.fcf"} \cap Derived = {}
      BY DerivedIs, OutSetIs, SubsAre
    <2> QED
      BY <2>1, <2>2
  <1>11. \A dp \in Registry[11].in : Fine(11, dp)
    <2>1. Registry[11].in = {"L7.env.rates", "L9.macro.rates"}
      BY DEF Registry
    <2>2. {"L7.env.rates", "L9.macro.rates"} \cap Derived = {}
      BY DerivedIs, OutSetIs, SubsAre
    <2> QED
      BY <2>1, <2>2
  <1>12. \A dp \in Registry[12].in : Fine(12, dp)
    <2>1. Registry[12].in = {"L9.media.report", "L9.event.intraday_news", "L5.surprise.sell_side"}
      BY DEF Registry
    <2>2. {"L9.media.report", "L9.event.intraday_news", "L5.surprise.sell_side"} \cap Derived = {}
      BY DerivedIs, OutSetIs, SubsAre
    <2> QED
      BY <2>1, <2>2
  <1>13. \A dp \in Registry[13].in : Fine(13, dp)
    BY SubsAre DEF Registry, Subs
  <1>14. \A dp \in Registry[14].in : Fine(14, dp)
    BY SubsAre DEF Registry, Subs
  <1>15. \A dp \in Registry[15].in : Fine(15, dp)
    BY SubsAre DEF Registry, Subs
  <1>16. \A dp \in Registry[16].in : Fine(16, dp)
    <2>1. Registry[16].in = {"L11.short.score", "L11.mid.score", "L11.long.score", "L8.val.overvalued",
                             "L7.flow.active_inflow"}
      BY DEF Registry
    <2>2. {"L8.val.overvalued", "L7.flow.active_inflow"} \cap Derived = {}
      BY DerivedIs, OutSetIs, SubsAre
    <2>3. {"L11.short.score", "L11.mid.score", "L11.long.score"} \subseteq OutsUpTo(16 - 1)
      BY OutsAre DEF OutsUpTo
    <2> QED
      BY <2>1, <2>2, <2>3
  <1>17. \A dp \in Registry[17].in : Fine(17, dp)
    <2>1. Registry[17].in = {"L11.short.score", "L11.mid.score", "L11.long.score", "L11.mode"}
      BY DEF Registry
    <2>3. {"L11.short.score", "L11.mid.score", "L11.long.score", "L11.mode"} \subseteq OutsUpTo(17 - 1)
      BY OutsAre DEF OutsUpTo
    <2> QED
      BY <2>1, <2>3
  <1> HIDE DEF Fine
  <1>18. \A k \in 1..17 : \A dp \in Registry[k].in : Fine(k, dp)
    BY <1>1, <1>2, <1>3, <1>4, <1>5, <1>6, <1>7, <1>8, <1>9, <1>10, <1>11, <1>12, <1>13, <1>14, <1>15,
          <1>16, <1>17
  <1> QED
    BY <1>18 DEF Fine

\* Two runs over the same sources emit the same, but for the price; and the price
\* too when they find the same short score.
LEMMA LoopsAgree ==
    ASSUME NEW s, NEW t, AgreeOff(s, t, Derived), NEW D,
           D = {"L8.val.priced_in"} \/ (D = {} /\ AgreeAt(s, t, "L11.short.score")),
           NEW g, NEW h, LoopSolves(g, Inputs(s), 17), LoopSolves(h, Inputs(t), 17)
    PROVE  \A k \in 0..17 : AgreeOff(g[k], h[k], D)
  <1> DEFINE u == Inputs(s)
             v == Inputs(t)
             A == {k \in 0..17 : AgreeOff(g[k], h[k], D)}
  <1>1. 0 \in A
    BY DEF LoopSolves, AgreeOff, AgreeAt
  <1>2. ASSUME NEW k \in 1..17, k - 1 \in A PROVE k \in A
    <2> DEFINE f == Registry[k]
               o == Registry[k].out
               x == Step(u, g[k - 1], f)
               y == Step(v, h[k - 1], f)
    <2>1. AgreeOff(g[k - 1], h[k - 1], D)
      BY <1>2
    <2>2. g[k] = With(g[k - 1], o, x) /\ h[k] = With(h[k - 1], o, y)
      BY LoopTurn
    <2>3. ASSUME o \notin D PROVE x = y
      <3>1. ASSUME NEW dp \in f.in
            PROVE  AgreeAt(g[k - 1], h[k - 1], dp) /\ (dp \in DOMAIN g[k - 1] \/ AgreeAt(u, v, dp))
        <4>1. dp # "L8.val.priced_in"
          BY <3>1, Reads
        <4>2. AgreeAt(g[k - 1], h[k - 1], dp)
          BY <2>1, <4>1 DEF AgreeOff
        <4>3. CASE dp \in OutsUpTo(k - 1)
          <5>1. k - 1 \in 0..17
            OBVIOUS
          <5>2. DOMAIN g[k - 1] = OutsUpTo(k - 1)
            BY <5>1, LoopHas
          <5> QED
            BY <4>2, <4>3, <5>2
        <4>4. CASE dp \in Subs \/ dp \notin Derived
          <5>1. dp \in Subs \/ AgreeAt(s, t, dp)
            BY <4>4 DEF AgreeOff
          <5> QED
            BY <4>2, <5>1, InputsLocal
        <4>5. CASE k = 6 /\ dp = "L11.short.score"
          <5>1. o = "L8.val.priced_in"
            BY <4>5, OutsAre
          <5>2. AgreeAt(s, t, dp)
            BY <2>3, <4>5, <5>1
          <5> QED
            BY <4>2, <5>2, InputsLocal
        <4> QED
          BY <3>1, <4>3, <4>4, <4>5, Reads
      <3> QED
        BY <3>1, StepLocal
    <2> HIDE DEF o, x, y, f
    <2>4. AgreeOff(g[k], h[k], D)
      <3> SUFFICES ASSUME NEW dp, dp \notin D PROVE AgreeAt(g[k], h[k], dp)
        BY DEF AgreeOff
      <3>1. AgreeAt(g[k - 1], h[k - 1], dp)
        BY <2>1 DEF AgreeOff
      <3>2. CASE dp = o
        BY <2>2, <2>3, <3>2 DEF AgreeAt, With
      <3>3. CASE dp # o
        BY <2>2, <3>1, <3>3 DEF AgreeAt, With
      <3> QED
        BY <3>2, <3>3
    <2> QED
      BY <2>4
  <1> HIDE DEF A
  <1>3. \A k \in 0..17 : k \in A
    BY <1>1, <1>2, CountUp
  <1> QED
    BY <1>3 DEF A

\* So do their rows.
LEMMA RunsAgree ==
    ASSUME NEW s, NEW t, AgreeOff(s, t, Derived), NEW D,
           D = {"L8.val.priced_in"} \/ (D = {} /\ AgreeAt(s, t, "L11.short.score"))
    PROVE  AgreeOff(RunOne(s), RunOne(t), D)
  <1>1. PICK g : LoopSolves(g, Inputs(s), 17) /\ Emitted(Inputs(s), 17) = g[17]
    BY LoopIs
  <1>2. PICK h : LoopSolves(h, Inputs(t), 17) /\ Emitted(Inputs(t), 17) = h[17]
    BY LoopIs
  <1>3. AgreeOff(g[17], h[17], D)
    BY <1>1, <1>2, LoopsAgree
  <1>4. Subscores(s) = Subscores(t)
    BY SubscoresLocal
  <1> QED
    BY <1>1, <1>2, <1>3, <1>4, RegistryIs DEF RunOne, RowsOf, AgreeOff, AgreeAt

\* A run writes all derived points and no others.
LEMMA RunHas == \A s : DOMAIN RunOne(s) = Derived
  <1> SUFFICES ASSUME NEW s PROVE DOMAIN RunOne(s) = Derived
    OBVIOUS
  <1>1. PICK g : LoopSolves(g, Inputs(s), 17) /\ Emitted(Inputs(s), 17) = g[17]
    BY LoopIs
  <1>2. DOMAIN g[17] = OutsUpTo(17)
    BY <1>1, LoopHas
  <1> QED
    BY <1>1, <1>2, RegistryIs, SubscoresAre, DerivedIs DEF RunOne, RowsOf

-----------------------------------------------------------------------------
(* Derived rows: the store                                                 *)

CodeSet == {Codes[i] : i \in DOMAIN Codes}

\* A stock is its own nearest owner, and all owners are there.
LEMMA LookupIs ==
    ASSUME NEW c \in CodeSet
    PROVE  /\ c \in DOMAIN Initial /\ Lookup[c] \in Seq(DOMAIN Initial) /\ 1 \in DOMAIN Lookup[c]
          /\ Lookup[c][1] = c
           /\ DOMAIN Lookup[c] \in SUBSET (Nat \ {0})
  <1>1. PICK i \in DOMAIN Codes : c = Codes[i]
    BY DEF CodeSet
  <1>2. Lookup[c] \in Seq(DOMAIN Initial) /\ Len(Lookup[c]) > 0 /\ Lookup[c][1] = c
    BY <1>1, DeriveAssumption DEF DeriveAssumption
  <1> DEFINE l == Lookup[c]
  <1> HIDE DEF l
  <1>3. l \in Seq(DOMAIN Initial) /\ Len(l) > 0 => 1 \in DOMAIN l /\ l[1] \in DOMAIN Initial
        /\ DOMAIN l \in SUBSET (Nat \ {0})
    OBVIOUS
  <1> QED
    BY <1>2, <1>3 DEF l

\* The owners that have a point.
Having(store, c, dp) == {i \in DOMAIN Lookup[c] : dp \in DOMAIN store[Lookup[c][i]]}

\* A snapshot has the row of the nearest owner that has one.
LEMMA SnapshotIs ==
    ASSUME NEW store, NEW c \in CodeSet, NEW dp
    PROVE  /\ dp \in DOMAIN Snapshot(store, c) <=> Having(store, c, dp) # {}
           /\ Having(store, c, dp) # {} =>
                 /\ Least(Having(store, c, dp)) \in Having(store, c, dp)
                 /\ Snapshot(store, c)[dp] = store[Lookup[c][Least(Having(store, c, dp))]][dp]
  <1> DEFINE has == Having(store, c, dp)
  <1>1. dp \in DOMAIN Snapshot(store, c) <=> has # {}
    BY DEF Snapshot, Having
  <1>2. ASSUME has # {} PROVE Least(has) \in has
    <2>1. has \in SUBSET Nat
      BY LookupIs DEF Having
    <2> HIDE DEF has
    <2>2. \E m \in has : \A k \in has : m <= k
      BY <1>2, <2>1, LeastNat
    <2> QED
      BY <2>2 DEF Least
  <1>3. ASSUME has # {} PROVE Snapshot(store, c)[dp] = store[Lookup[c][Least(has)]][dp]
    BY <1>1, <1>3 DEF Snapshot, Having
  <1> QED
    BY <1>1, <1>2, <1>3

\* What the stock itself has is what its snapshot has.
LEMMA SnapshotOwn ==
    ASSUME NEW store, NEW c \in CodeSet, NEW dp \in DOMAIN store[c]
    PROVE  AgreeAt(Snapshot(store, c), store[c], dp)
  <1> DEFINE has == Having(store, c, dp)
  <1>1. 1 \in has /\ has \in SUBSET (Nat \ {0})
    BY LookupIs DEF Having
  <1>2. Least(has) \in has /\ dp \in DOMAIN Snapshot(store, c)
        /\ Snapshot(store, c)[dp] = store[Lookup[c][Least(has)]][dp]
    BY <1>1, SnapshotIs
  <1>3. Least(has) = 1
    <2> HIDE DEF has
    <2>1. 1 \in has /\ \A y \in has : 1 <= y
      BY <1>1
    <2>2. \A x \in has : (\A y \in has : x <= y) => x = 1
      BY <1>1
    <2> QED
      BY <2>1, <2>2 DEF Least
  <1> QED
    BY <1>2, <1>3, LookupIs DEF AgreeAt

\* Where two stores agree, so do their snapshots.
LEMMA SnapshotsAgree ==
    ASSUME NEW store, NEW next, NEW c \in CodeSet, NEW D,
           \A o \in DOMAIN Initial : AgreeOff(store[o], next[o], D)
    PROVE  AgreeOff(Snapshot(store, c), Snapshot(next, c), D)
  <1> SUFFICES ASSUME NEW dp, dp \notin D PROVE AgreeAt(Snapshot(store, c), Snapshot(next, c), dp)
    BY DEF AgreeOff
  <1>1. \A i \in DOMAIN Lookup[c] : AgreeAt(store[Lookup[c][i]], next[Lookup[c][i]], dp)
    <2>1. \A i \in DOMAIN Lookup[c] : Lookup[c][i] \in DOMAIN Initial
      <3> DEFINE l == Lookup[c]
      <3>1. l \in Seq(DOMAIN Initial)
        BY LookupIs
      <3> HIDE DEF l
      <3>2. \A i \in DOMAIN l : l[i] \in DOMAIN Initial
        BY <3>1
      <3> QED
        BY <3>2 DEF l
    <2> QED
      BY <2>1 DEF AgreeOff
  <1>2. Having(store, c, dp) = Having(next, c, dp)
    BY <1>1 DEF Having, AgreeAt
  <1> DEFINE has == Having(store, c, dp)
  <1>3. CASE has = {}
    <2>1. dp \notin DOMAIN Snapshot(store, c) /\ dp \notin DOMAIN Snapshot(next, c)
      BY <1>2, <1>3, SnapshotIs
    <2> QED
      BY <2>1 DEF AgreeAt
  <1>4. CASE has # {}
    <2> DEFINE o == Lookup[c][Least(has)]
    <2>1. /\ Least(has) \in has
          /\ dp \in DOMAIN Snapshot(store, c) /\ Snapshot(store, c)[dp] = store[o][dp]
          /\ dp \in DOMAIN Snapshot(next, c) /\ Snapshot(next, c)[dp] = next[o][dp]
      <3>1. Having(store, c, dp) # {} /\ Having(next, c, dp) # {}
        BY <1>2, <1>4
      <3>2. Least(Having(store, c, dp)) \in Having(store, c, dp) /\ dp \in DOMAIN Snapshot(store, c)
            /\ Snapshot(store, c)[dp] = store[Lookup[c][Least(Having(store, c, dp))]][dp]
        BY ONLY <3>1, SnapshotIs, c \in CodeSet
      <3>3. dp \in DOMAIN Snapshot(next, c)
            /\ Snapshot(next, c)[dp] = next[Lookup[c][Least(Having(next, c, dp))]][dp]
        BY ONLY <3>1, SnapshotIs, c \in CodeSet
      <3> QED
        BY <1>2, <3>2, <3>3
    <2>2. store[o][dp] = next[o][dp]
      BY <1>1, <2>1 DEF Having, AgreeAt
    <2> QED
      BY <2>1, <2>2 DEF AgreeAt
  <1> QED
    BY <1>3, <1>4

-----------------------------------------------------------------------------
(* Derived rows: the mode and the signal                                   *)

\* The formulas of the last two points.
LEMMA LastFormulas == \A u : Formula("L11.mode", u) = Mode(u) /\ Formula("L11.trade.signal", u) = TradeSignal(u)
  BY DEF Formula

\* A value that a formula leaves is the result and its confidence, and never empty.
LEMMA OutcomeIs ==
    ASSUME NEW f, NEW seen
    PROVE  LET result == Formula(f.out, [dp \in DOMAIN seen |-> seen[dp].value])
           IN  /\ result # <<>> => \E x : Outcome(f, seen).value = With(result[1], "confidence", x)
               /\ DOMAIN Outcome(f, seen).value # {}
  <1> DEFINE result == Formula(f.out, [dp \in DOMAIN seen |-> seen[dp].value])
  <1>1. CASE result = <<>>
    BY <1>1 DEF Outcome, Entry
  <1>2. CASE result # <<>>
    <2>1. PICK x : Outcome(f, seen).value = With(result[1], "confidence", x)
      BY <1>2 DEF Outcome, Entry
    <2> DEFINE left == Outcome(f, seen).value
    <2>2. DOMAIN left # {}
      <3> HIDE DEF result, left
      <3>1. left = With(result[1], "confidence", x)
        BY <2>1 DEF left
      <3> QED
        BY <3>1 DEF With
    <2> QED
      BY <2>1, <2>2
  <1> QED
    BY <1>1, <1>2

\* The trade signal depends on the scores and the mode only.
LEMMA SignalLocal ==
    ASSUME NEW u, NEW v,
           \A dp \in {"L11.short.score", "L11.mid.score", "L11.long.score", "L11.mode"} : Of(u, dp) = Of(v, dp)
    PROVE  TradeSignal(u) = TradeSignal(v)
  <1>1. /\ Of(u, "L11.short.score") = Of(v, "L11.short.score")
        /\ Of(u, "L11.mid.score") = Of(v, "L11.mid.score")
        /\ Of(u, "L11.long.score") = Of(v, "L11.long.score")
        /\ Of(u, "L11.mode") = Of(v, "L11.mode")
    OBVIOUS
  <1> DEFINE D == {"L11.short.score", "L11.mid.score", "L11.long.score"}
  <1>2. AnyOf(u, D) = AnyOf(v, D)
    BY <1>1 DEF AnyOf, Filled
  <1>3. /\ ScoreOf(u, "L11.short.score") = ScoreOf(v, "L11.short.score")
        /\ ScoreOf(u, "L11.mid.score") = ScoreOf(v, "L11.mid.score")
        /\ ScoreOf(u, "L11.long.score") = ScoreOf(v, "L11.long.score")
    BY <1>1 DEF ScoreOf
  <1> QED
    BY ONLY <1>1, <1>2, <1>3 DEF TradeSignal, IfAny

\* A mode and a signal are there as soon as the short score is.
LEMMA ModeIs ==
    ASSUME NEW u, Filled(u, "L11.short.score")
    PROVE  Mode(u) # <<>> /\ "mode" \in DOMAIN Mode(u)[1]
  <1>1. AnyOf(u, {"L11.short.score", "L11.mid.score", "L11.long.score"})
    BY DEF AnyOf
  <1> QED
    BY <1>1 DEF Mode, IfAny

\* The signal names the mode it was given, and avoids a stock in a reversal or a de-rating.
LEMMA SignalIs ==
    ASSUME NEW u, Filled(u, "L11.short.score")
    PROVE  LET mode == Get(Of(u, "L11.mode"), "mode", "none")
           IN  /\ TradeSignal(u) # <<>> /\ DOMAIN TradeSignal(u)[1] = {"signal", "mode_label"}
               /\ TradeSignal(u)[1].mode_label = mode
               /\ mode \in {"trend_reversal", "de_rating"} => TradeSignal(u)[1].signal = "AVOID"
  <1>1. AnyOf(u, {"L11.short.score", "L11.mid.score", "L11.long.score"})
    BY DEF AnyOf
  <1> QED
    BY <1>1 DEF TradeSignal, IfAny

\* The payloads that a formula sees.
ValuesOf(seen) == [dp \in DOMAIN seen |-> seen[dp].value]

\* The same with the result named.
LEMMA ResultStays ==
    ASSUME NEW f, NEW seen, NEW result, result # <<>>,
           result = Formula(f.out, ValuesOf(seen))
    PROVE  \E x : Outcome(f, seen).value = With(result[1], "confidence", x)
  BY OutcomeIs DEF ValuesOf

\* The mode and the signal of one run belong together.
LEMMA RunSignal == \A s : SignalFollowsMode(RunOne(s))
  <1> SUFFICES ASSUME NEW s PROVE SignalFollowsMode(RunOne(s))
    OBVIOUS
  <1>1. PICK g : LoopSolves(g, Inputs(s), 17) /\ Emitted(Inputs(s), 17) = g[17]
    BY LoopIs
  <1> DEFINE u == Inputs(s)
             Scores == {"L11.short.score", "L11.mid.score", "L11.long.score"}
             Five == Scores \cup {"L11.mode", "L11.trade.signal"}
             run == RunOne(s)
             stored == [dp \in DOMAIN run |-> run[dp].value]
             seen(n) == Visible(u, g[n - 1], Registry[n])
             values(n) == [dp \in DOMAIN seen(n) |-> seen(n)[dp].value]
  <1>2. \A dp \in Five : dp \in DOMAIN stored /\ stored[dp] = g[17][dp].value
    <2>1. Five \subseteq OutsUpTo(17) /\ Five \cap Subs = {}
      BY OutSetIs, SubsAre
    <2>2. DOMAIN g[17] = OutsUpTo(17)
      BY <1>1, LoopHas
    <2>3. \A dp \in Five : dp \in DOMAIN run /\ run[dp].value = g[17][dp].value
      BY <1>1, <2>1, <2>2, RegistryIs, SubscoresAre DEF RunOne, RowsOf
    <2> HIDE DEF run
    <2> QED
      BY <2>3
  <1>3. \A i \in 13..17 : \A n \in i..17 :
           g[n][Registry[i].out] = Outcome(Registry[i], seen(i))
    BY <1>1, LoopKeeps DEF Step
  <1>4. \A n \in 16..17 : \A dp \in Scores \cup {"L11.mode"} :
           dp # "L11.mode" \/ n = 17 => dp \in DOMAIN g[n - 1] /\ g[n - 1][dp] = g[17][dp]
    <2>1. ASSUME NEW n \in 16..17, NEW i \in 13..(n - 1)
          PROVE  Registry[i].out \in DOMAIN g[n - 1] /\ g[n - 1][Registry[i].out] = g[17][Registry[i].out]
      <3>1. DOMAIN g[n - 1] = OutsUpTo(n - 1) /\ i \in 1..(n - 1)
        BY <1>1, LoopHas
      <3>2. g[n - 1][Registry[i].out] = Outcome(Registry[i], seen(i))
            /\ g[17][Registry[i].out] = Outcome(Registry[i], seen(i))
        BY <1>3
      <3> QED
        BY <3>1, <3>2 DEF OutsUpTo
    <2>2. \A n \in 16..17 : /\ 13 \in 13..(n - 1) /\ 14 \in 13..(n - 1) /\ 15 \in 13..(n - 1)
                            /\ n # 16 => 16 \in 13..(n - 1)
      OBVIOUS
    <2> QED
      BY <2>1, <2>2, OutsAre
  <1>5. /\ Scores \subseteq Registry[16].in
        /\ Registry[17].in = Scores \cup {"L11.mode"}
    BY DEF Registry
  <1>6. \A n \in 16..17 : \A dp \in Scores \cup {"L11.mode"} :
           dp # "L11.mode" \/ n = 17 => dp \in DOMAIN values(n) /\ values(n)[dp] = stored[dp]
    <2>1. \A n \in 16..17 : \A dp \in Scores \cup {"L11.mode"} :
             dp # "L11.mode" \/ n = 17 => dp \in DOMAIN seen(n) /\ seen(n)[dp] = g[17][dp]
      BY <1>4, <1>5 DEF Visible, Seen
    <2> HIDE DEF seen, stored
    <2> QED
      BY <1>2, <2>1
  <1>7. DOMAIN stored["L11.short.score"] # {}
    <2>1. g[17]["L11.short.score"] = Outcome(Registry[13], seen(13))
      BY <1>3, OutsAre
    <2> HIDE DEF seen
    <2>2. DOMAIN Outcome(Registry[13], seen(13)).value # {}
      BY OutcomeIs
    <2> QED
      BY <1>2, <2>1, <2>2
  <1>8. Filled(values(16), "L11.short.score") /\ Filled(values(17), "L11.short.score")
    BY <1>6, <1>7 DEF Filled, Of
  <1>9. "mode" \in DOMAIN stored["L11.mode"]
    <2>1. g[17]["L11.mode"] = Outcome(Registry[16], seen(16)) /\ Registry[16].out = "L11.mode"
      BY <1>3, OutsAre
    <2>2. Formula(Registry[16].out, values(16)) = Mode(values(16))
      BY <2>1, LastFormulas
    <2>3. Mode(values(16)) # <<>> /\ "mode" \in DOMAIN Mode(values(16))[1]
      BY <1>8, ModeIs
    <2>4. \E x : Outcome(Registry[16], seen(16)).value = With(Mode(values(16))[1], "confidence", x)
      <3> DEFINE result == Mode(values(16))
                 row == seen(16)
                 f == Registry[16]
      <3>1. result = Formula(f.out, ValuesOf(row)) /\ result # <<>>
        BY <2>2, <2>3 DEF ValuesOf
      <3> HIDE DEF result, row, f
      <3>2. \E x : Outcome(f, row).value = With(result[1], "confidence", x)
        BY ONLY <3>1, ResultStays
      <3> QED
        BY <3>2 DEF result, row, f
    <2> DEFINE left == Mode(values(16))[1]
    <2> HIDE DEF left
    <2>5. "mode" \in DOMAIN left /\ \E x : stored["L11.mode"] = With(left, "confidence", x)
      BY <1>2, <2>1, <2>3, <2>4 DEF left
    <2> QED
      BY <2>5 DEF With
  <1>10. LET mode == stored["L11.mode"].mode
             signal == stored["L11.trade.signal"]
         IN  /\ signal.mode_label = mode
             /\ signal.signal = TradeSignal(values(17))[1].signal
             /\ mode \in {"trend_reversal", "de_rating"} => signal.signal = "AVOID"
    <2>1. g[17]["L11.trade.signal"] = Outcome(Registry[17], seen(17)) /\ Registry[17].out = "L11.trade.signal"
      BY <1>3, OutsAre
    <2>2. Formula(Registry[17].out, values(17)) = TradeSignal(values(17))
      BY <2>1, LastFormulas
    <2> DEFINE mode == Get(Of(values(17), "L11.mode"), "mode", "none")
               left == TradeSignal(values(17))[1]
    <2>3. /\ TradeSignal(values(17)) # <<>> /\ DOMAIN left = {"signal", "mode_label"}
          /\ left.mode_label = mode
          /\ mode \in {"trend_reversal", "de_rating"} => left.signal = "AVOID"
      BY <1>8, SignalIs
    <2>4. \E x : Outcome(Registry[17], seen(17)).value = With(TradeSignal(values(17))[1], "confidence", x)
      <3> DEFINE result == TradeSignal(values(17))
                 row == seen(17)
                 f == Registry[17]
      <3>1. result = Formula(f.out, ValuesOf(row)) /\ result # <<>>
        BY <2>2, <2>3 DEF ValuesOf
      <3> HIDE DEF result, row, f
      <3>2. \E x : Outcome(f, row).value = With(result[1], "confidence", x)
        BY ONLY <3>1, ResultStays
      <3> QED
        BY <3>2 DEF result, row, f
    <2>5. mode = stored["L11.mode"].mode
      <3>1. "L11.mode" \in DOMAIN values(17) /\ values(17)["L11.mode"] = stored["L11.mode"]
        BY <1>6
      <3> HIDE DEF values, stored
      <3> QED
        BY <1>9, <3>1 DEF Of, Get
    <2>6. \E x : stored["L11.trade.signal"] = With(left, "confidence", x)
      BY <1>2, <2>1, <2>4
    <2> HIDE DEF mode, stored
    <2>7. left.signal = stored["L11.trade.signal"].signal
          /\ left.mode_label = stored["L11.trade.signal"].mode_label
      <3> DEFINE signal == stored["L11.trade.signal"]
      <3> HIDE DEF left, signal
      <3>1. DOMAIN left = {"signal", "mode_label"} /\ \E x : signal = With(left, "confidence", x)
        BY <2>3, <2>6 DEF signal
      <3>2. left.signal = signal.signal /\ left.mode_label = signal.mode_label
        BY <3>1 DEF With
      <3> QED
        BY <3>2 DEF signal
    <2> HIDE DEF left
    <2> QED
      BY <2>3, <2>5, <2>7 DEF left
  <1>11. TradeSignal(stored) = TradeSignal(values(17))
    <2>1. \A dp \in {"L11.short.score", "L11.mid.score", "L11.long.score", "L11.mode"} :
             Of(stored, dp) = Of(values(17), dp)
      <3>1. \A dp \in Scores \cup {"L11.mode"} :
               dp \in DOMAIN stored /\ dp \in DOMAIN values(17) /\ values(17)[dp] = stored[dp]
        BY <1>2, <1>6
      <3> HIDE DEF stored, values
      <3> QED
        BY <3>1 DEF Of
    <2> HIDE DEF stored, values
    <2> QED
      BY <2>1, SignalLocal
  <1> QED
    BY <1>10, <1>11 DEF SignalFollowsMode

-----------------------------------------------------------------------------
(* Derived rows: queues and writes                                         *)

\* A sequence, whatever it is of, and what it has.
IsQueue(q) == \E T : q \in Seq(T)
In(q) == {q[i] : i \in DOMAIN q}

\* The head of a queue, and the rest.
LEMMA QueueIs ==
    ASSUME NEW T, NEW q \in Seq(T), q # <<>>
    PROVE  Head(q) \in T /\ Tail(q) \in Seq(T) /\ In(q) = {Head(q)} \cup In(Tail(q))
  <1>1. Head(q) \in T /\ Tail(q) \in Seq(T) /\ Head(q) = q[1] /\ Len(q) \in Nat \ {0}
        /\ Len(Tail(q)) = Len(q) - 1
    OBVIOUS
  <1>2. DOMAIN q = 1..Len(q) /\ DOMAIN Tail(q) = 1..(Len(q) - 1)
        /\ \A i \in 1..(Len(q) - 1) : Tail(q)[i] = q[i + 1]
    BY <1>1
  <1> DEFINE n == Len(q)
             r == Tail(q)
  <1> HIDE DEF n, r
  <1>3. ASSUME NEW i \in 1..n PROVE i = 1 \/ \E j \in 1..(n - 1) : r[j] = q[i]
    <2>1. i = 1 \/ i - 1 \in 1..(n - 1)
      BY <1>1 DEF n
    <2> QED
      BY <1>2, <2>1 DEF n, r
  <1>4. ASSUME NEW j \in 1..(n - 1) PROVE \E i \in 1..n : q[i] = r[j]
    <2>1. j + 1 \in 1..n
      BY <1>1 DEF n
    <2> QED
      BY <1>2, <2>1 DEF n, r
  <1>5. 1 \in 1..n
    BY <1>1 DEF n
  <1>6. {q[i] : i \in 1..n} = {q[1]} \cup {r[j] : j \in 1..(n - 1)}
    BY <1>3, <1>4, <1>5
  <1> QED
    BY <1>1, <1>2, <1>6 DEF n, r, In

\* A queue may be of anything.
LEMMA QueueHas ==
    ASSUME NEW q, IsQueue(q), q # <<>>
    PROVE  Head(q) \in In(q) /\ IsQueue(Tail(q)) /\ In(q) = {Head(q)} \cup In(Tail(q))
  <1>1. PICK T : q \in Seq(T)
    BY DEF IsQueue
  <1>2. Tail(q) \in Seq(T) /\ In(q) = {Head(q)} \cup In(Tail(q))
    BY <1>1, QueueIs
  <1> QED
    BY <1>2 DEF IsQueue

\* A queue that grows at its end.
LEMMA QueueGrows ==
    ASSUME NEW q, IsQueue(q), NEW e
    PROVE  IsQueue(Append(q, e)) /\ In(Append(q, e)) = In(q) \cup {e}
  <1>1. PICK T : q \in Seq(T)
    BY DEF IsQueue
  <1> DEFINE W == T \cup {e}
             n == Len(q)
  <1>2. n \in Nat /\ DOMAIN q = 1..n /\ \A i \in 1..n : q[i] \in T
    BY <1>1
  <1>3. q \in Seq(W)
    <2>1. q = [i \in 1..n |-> q[i]]
      BY <1>1
    <2>2. \A i \in 1..n : q[i] \in W
      BY <1>2
    <2> HIDE DEF n, W
    <2>3. q \in [1..n -> W]
      BY <2>1, <2>2
    <2> QED
      BY <1>2, <2>3
  <1>4. e \in W
    OBVIOUS
  <1> HIDE DEF W
  <1>5. Append(q, e) \in Seq(W)
    BY <1>3, <1>4
  <1>6. DOMAIN Append(q, e) = 1..(n + 1) /\ Append(q, e)[n + 1] = e
        /\ \A i \in 1..n : Append(q, e)[i] = q[i]
    BY <1>3, <1>4
  <1> DEFINE r == Append(q, e)
  <1> HIDE DEF r, n
  <1>7. {r[i] : i \in 1..(n + 1)} = {q[i] : i \in 1..n} \cup {e}
    <2>1. \A i \in 1..(n + 1) : i = n + 1 \/ i \in 1..n
      BY <1>2
    <2>2. n + 1 \in 1..(n + 1) /\ \A i \in 1..n : i \in 1..(n + 1)
      BY <1>2
    <2> QED
      BY <1>6, <2>1, <2>2 DEF r
  <1> QED
    BY <1>2, <1>5, <1>6, <1>7 DEF IsQueue, In, r

\* An empty queue has nothing.
LEMMA QueueEmpty == IsQueue(<<>>) /\ In(<<>>) = {}
  <1>1. <<>> \in Seq({})
    OBVIOUS
  <1> QED
    BY <1>1 DEF IsQueue, In

\* Any sequence of stocks is a queue of them.
LEMMA CodesAre == Codes \in Seq(CodeSet) /\ In(Codes) = CodeSet
  <1>1. Codes \in Seq(DOMAIN Initial)
    BY DeriveAssumption DEF DeriveAssumption
  <1>2. Len(Codes) \in Nat /\ DOMAIN Codes = 1..Len(Codes) /\ Codes = [i \in 1..Len(Codes) |-> Codes[i]]
    BY <1>1
  <1>3. \A i \in 1..Len(Codes) : Codes[i] \in CodeSet
    BY <1>2 DEF CodeSet
  <1>4. Codes \in [1..Len(Codes) -> CodeSet]
    BY <1>2, <1>3
  <1> QED
    BY <1>2, <1>4 DEF In, CodeSet

\* The rows that a step of an upsert commits.
Now(job, order, n) == {order[i] : i \in (job.at + 1)..n} \cap DOMAIN Head(job.batch).rows

\* What a step of an upsert leaves of an owner's rows.
LEMMA UpsertIs ==
    ASSUME NEW job, NEW order, NEW n
    PROVE  /\ DOMAIN Upsert(job, order, n) = DOMAIN rows
           /\ \A o \in DOMAIN rows : \A dp :
                 o # Head(job.batch).owner \/ dp \notin Now(job, order, n)
                 => AgreeAt(rows[o], Upsert(job, order, n)[o], dp)
           /\ \A o \in DOMAIN rows : \A dp \in Now(job, order, n) :
                 o = Head(job.batch).owner => AgreeAt(Head(job.batch).rows, Upsert(job, order, n)[o], dp)
  <1> DEFINE entry == Head(job.batch)
             now == Now(job, order, n)
             after == Upsert(job, order, n)
             table(o) == [dp \in DOMAIN rows[o] \cup now |->
                             IF dp \in now THEN entry.rows[dp] ELSE rows[o][dp]]
  <1>1. /\ DOMAIN after = DOMAIN rows
        /\ \A o \in DOMAIN rows : after[o] = IF o = entry.owner THEN table(o) ELSE rows[o]
    BY DEF Upsert, Now
  <1>2. now \subseteq DOMAIN entry.rows
    BY DEF Now
  <1> HIDE DEF after, now, entry
  <1>3. ASSUME NEW o \in DOMAIN rows, NEW dp, o # entry.owner \/ dp \notin now
        PROVE  AgreeAt(rows[o], after[o], dp)
    BY <1>1, <1>3 DEF AgreeAt
  <1>4. ASSUME NEW o \in DOMAIN rows, NEW dp \in now, o = entry.owner
        PROVE  AgreeAt(entry.rows, after[o], dp)
    BY <1>1, <1>2, <1>4 DEF AgreeAt
  <1> QED
    BY <1>1, <1>3, <1>4 DEF after, now, entry

\* The points among the first n rows of a stock.
Done(n) == {RunOrder[i] : i \in 1..n}

\* Two sequences, one behind the other.
LEMMA Joined ==
    ASSUME NEW T, NEW a \in Seq(T), NEW b \in Seq(T)
    PROVE  /\ a \o b \in Seq(T) /\ Len(a \o b) = Len(a) + Len(b) /\ DOMAIN (a \o b) = 1..Len(a \o b)
           /\ \A i \in 1..Len(a) : (a \o b)[i] = a[i]
           /\ \A i \in 1..Len(b) : (a \o b)[Len(a) + i] = b[i]
  OBVIOUS

\* All rows of a stock are those of the derived points.
LEMMA OrderIs == Len(RunOrder) = 28 /\ Done(28) = Derived /\ DOMAIN RunOrder = 1..28
  <1> DEFINE outs == [i \in DOMAIN Registry |-> Registry[i].out]
             T == OutsUpTo(17) \cup Subs
  <1>1. outs \in Seq(T) /\ Len(outs) = 17 /\ \A i \in 1..17 : outs[i] = Registry[i].out
    <2>1. outs = [i \in 1..17 |-> Registry[i].out]
      BY RegistryIs
    <2>2. \A i \in 1..17 : Registry[i].out \in T
      BY DEF OutsUpTo
    <2> HIDE DEF outs, T
    <2> DEFINE n == 17
    <2>3. outs \in [1..n -> T] /\ n \in Nat
      BY <2>1, <2>2
    <2> HIDE DEF n
    <2>4. outs \in Seq(T) /\ Len(outs) = n
      BY <2>3
    <2> QED
      BY <2>1, <2>4 DEF n
  <1>2. SubOrder \in Seq(T) /\ Len(SubOrder) = 11
    BY SubsAre DEF SubOrder
  <1>3. {SubOrder[i] : i \in 1..11} = Subs
    <2>1. /\ SubOrder[1] = "L11.short.event_impact" /\ SubOrder[2] = "L11.short.flow_boost"
          /\ SubOrder[3] = "L11.short.sentiment_shift" /\ SubOrder[4] = "L11.short.technical"
          /\ SubOrder[5] = "L11.mid.orders_revenue" /\ SubOrder[6] = "L11.mid.margin_guidance"
          /\ SubOrder[7] = "L11.mid.eps_upward" /\ SubOrder[8] = "L11.long.industry_space"
          /\ SubOrder[9] = "L11.long.compete_moat" /\ SubOrder[10] = "L11.long.business_model"
          /\ SubOrder[11] = "L11.long.margin"
      BY DEF SubOrder
    <2>2. {SubOrder[i] : i \in 1..11} =
             {SubOrder[1], SubOrder[2], SubOrder[3], SubOrder[4], SubOrder[5], SubOrder[6],
              SubOrder[7], SubOrder[8], SubOrder[9], SubOrder[10], SubOrder[11]}
      OBVIOUS
    <2> QED
      BY <2>1, <2>2, SubsAre
  <1> HIDE DEF outs, T
  <1>4. RunOrder = SubOrder \o outs
    BY DEF RunOrder, outs
  <1>5. /\ Len(RunOrder) = 28 /\ DOMAIN RunOrder = 1..28
        /\ \A i \in 1..11 : RunOrder[i] = SubOrder[i]
        /\ \A i \in 1..17 : RunOrder[11 + i] = outs[i]
    <2> DEFINE a == SubOrder
               c == a \o outs
    <2>1. a \in Seq(T) /\ outs \in Seq(T)
      BY <1>1, <1>2
    <2>2. Len(a) = 11 /\ Len(outs) = 17
      BY <1>1, <1>2
    <2>3. RunOrder = c
      BY <1>4
    <2> HIDE DEF a
    <2>4. /\ Len(c) = Len(a) + Len(outs) /\ DOMAIN c = 1..Len(c)
          /\ \A i \in 1..Len(a) : c[i] = a[i]
          /\ \A i \in 1..Len(outs) : c[Len(a) + i] = outs[i]
      BY ONLY <2>1, Joined
    <2> HIDE DEF c
    <2>5. /\ Len(c) = 28 /\ DOMAIN c = 1..28
          /\ \A i \in 1..11 : c[i] = a[i]
          /\ \A i \in 1..17 : c[11 + i] = outs[i]
      BY ONLY <2>2, <2>4
    <2> QED
      BY <2>3, <2>5 DEF a
  <1>6. Done(28) = {SubOrder[i] : i \in 1..11} \cup {outs[i] : i \in 1..17}
    <2>1. \A i \in 1..28 : i \in 1..11 \/ (i - 11 \in 1..17 /\ 11 + (i - 11) = i)
      OBVIOUS
    <2>2. \A i \in 1..17 : 11 + i \in 1..28
      OBVIOUS
    <2>3. \A i \in 1..11 : i \in 1..28
      OBVIOUS
    <2>4. \A i \in 1..28 : RunOrder[i] \in {SubOrder[j] : j \in 1..11} \cup {outs[j] : j \in 1..17}
      <3> TAKE i \in 1..28
      <3>1. CASE i \in 1..11
        BY <1>5, <3>1
      <3>2. CASE i - 11 \in 1..17 /\ 11 + (i - 11) = i
        <4>1. RunOrder[11 + (i - 11)] = outs[i - 11]
          BY <1>5, <3>2
        <4> QED
          BY <3>2, <4>1
      <3> QED
        BY <2>1, <3>1, <3>2
    <2>5. \A i \in 1..17 : \E j \in 1..28 : RunOrder[j] = outs[i]
      BY <1>5, <2>2
    <2>6. \A i \in 1..11 : \E j \in 1..28 : RunOrder[j] = SubOrder[i]
      BY <1>5, <2>3
    <2>7. {SubOrder[i] : i \in 1..11} \subseteq Done(28)
      BY <2>6 DEF Done
    <2>8. {outs[i] : i \in 1..17} \subseteq Done(28)
      BY <2>5 DEF Done
    <2> QED
      BY <2>4, <2>7, <2>8 DEF Done
  <1>7. {outs[i] : i \in 1..17} = OutsUpTo(17)
    BY <1>1 DEF OutsUpTo
  <1> QED
    BY <1>3, <1>5, <1>6, <1>7, DerivedIs

-----------------------------------------------------------------------------
(* Derived rows: the inductive invariant                                   *)

\* A run over the store would write what the store has, except for the points in D.
Settled(store, c, D) ==
    \A dp \in Derived \ D : AgreeAt(RunOne(Snapshot(store, c)), store[c], dp)

\* What a stock has of the points of the signal: all of one run or nothing.
Whole(table) ==
    /\ SignalPoints \subseteq DOMAIN table \/ SignalPoints \cap DOMAIN table = {}
    /\ SignalFollowsMode(table)

Job(j) == DOMAIN j = {"on", "left", "batch", "at", "clean"} /\ IsQueue(j.batch)

\* A batch has whole runs; Tier 0 has nothing that a run derives.
BatchesInv ==
    /\ \A b \in In(runner.batch) :
          b.owner \in CodeSet /\ DOMAIN b.rows = Derived /\ SignalFollowsMode(b.rows)
    /\ \A b \in In(tier0.batch) : DOMAIN b.rows \cap Derived = {}

\* What is written of the first stock, of the points of the signal, is there.
HeadInv ==
    \A dp \in Shown(runner.at) : AgreeAt(Head(runner.batch).rows, rows[Head(runner.batch).owner], dp)

StoreInv ==
    /\ DOMAIN rows = DOMAIN Initial /\ Job(runner) /\ Job(tier0)
    /\ runner.at \in 0..27
    /\ runner.left # <<>> \/ runner.batch = <<>> => runner.at = 0
    /\ runner.on => runner.left \in Seq(CodeSet)
    /\ quiet \in 0..2
    /\ runner.on /\ ~runner.clean => quiet = 0
    /\ BatchesInv /\ HeadInv
    /\ \A c \in CodeSet \ torn : Whole(rows[c])

\* What base, the store when an undisturbed run began, has to do with the store now:
\* the run has changed derived points of stocks only, and each is the one of base or the
\* one of the run.  In every other case base is the store.
OffBase(base, store) ==
    \A o \in DOMAIN Initial : AgreeOff(base[o], store[o], IF o \in CodeSet THEN Derived ELSE {})
SettledBase(base, q) ==
    /\ q >= 1 => \A c \in CodeSet : Settled(base, c, {"L8.val.priced_in"})
    /\ q = 2 => \A c \in CodeSet : Settled(base, c, {})
Undisturbed(job) == job.on /\ job.clean
FromBase(base, store) ==
    \A c \in CodeSet : \A dp \in Derived :
        AgreeAt(store[c], base[c], dp) \/ AgreeAt(store[c], RunOne(Snapshot(base, c)), dp)
\* A point is written, or the stock is still to be loaded or to be written.
Awaited(job, c, dp) ==
    \/ c \in In(job.left)
    \/ /\ \E b \in In(job.batch) : b.owner = c
       /\ c = Head(job.batch).owner => dp \notin Done(job.at)
RunOver(base, store, job) ==
    /\ \A b \in In(job.batch) : b.rows = RunOne(Snapshot(base, b.owner))
    /\ \A c \in CodeSet : \A dp \in Derived :
          AgreeAt(store[c], RunOne(Snapshot(base, c)), dp) \/ Awaited(job, c, dp)
Sound(base, store, job, q) ==
    /\ OffBase(base, store) /\ SettledBase(base, q) /\ FromBase(base, store)
    /\ ~Undisturbed(job) \/ job.left # <<>> => base = store
    /\ Undisturbed(job) => RunOver(base, store, job)

DeriveInv == StoreInv /\ \E base : Sound(base, rows, runner, quiet)

\* A store is sound as its own base.
LEMMA OwnBase == \A store : OffBase(store, store) /\ FromBase(store, store)
  BY DEF OffBase, FromBase, AgreeOff, AgreeAt

\* An input has changed: nothing is settled.
LEMMA UnsettledSound ==
    ASSUME NEW store, NEW job, ~job.clean PROVE Sound(store, store, job, 0)
  BY OwnBase DEF Sound, SettledBase, Undisturbed

\* The short score and the price are derived points.
LEMMA ShortIs == "L11.short.score" \in Derived /\ "L8.val.priced_in" \in Derived
  BY DerivedIs, OutSetIs

\* A store that a run has changed without changing what is settled is settled.
LEMMA StaysSettled ==
    ASSUME NEW base, NEW store, NEW q, OffBase(base, store), SettledBase(base, q),
           FromBase(base, store), q \in 0..2
    PROVE  SettledBase(store, q)
  <1> SUFFICES ASSUME q >= 1, NEW c \in CodeSet
               PROVE  /\ Settled(store, c, {"L8.val.priced_in"})
                      /\ q = 2 => Settled(store, c, {})
    BY DEF SettledBase
  <1>1. \A d \in CodeSet : \A dp \in Derived \ {"L8.val.priced_in"} :
           /\ AgreeAt(RunOne(Snapshot(base, d)), base[d], dp)
           /\ AgreeAt(base[d], store[d], dp)
    <2>1. \A d \in CodeSet : Settled(base, d, {"L8.val.priced_in"})
      BY DEF SettledBase
    <2> QED
      BY <2>1 DEF Settled, FromBase, AgreeAt
  <1>2. \A o \in DOMAIN Initial : AgreeOff(base[o], store[o], {"L8.val.priced_in"})
    BY <1>1, ShortIs DEF OffBase, AgreeOff
  <1> DEFINE s == Snapshot(base, c)
             t == Snapshot(store, c)
  <1>3. AgreeOff(s, t, {"L8.val.priced_in"})
    BY <1>2, SnapshotsAgree
  <1>4. AgreeOff(RunOne(s), RunOne(t), {})
    <2> DEFINE D == {}
    <2>1. AgreeOff(s, t, Derived) /\ AgreeAt(s, t, "L11.short.score")
      BY <1>3, ShortIs DEF AgreeOff
    <2>2. D = {"L8.val.priced_in"} \/ (D = {} /\ AgreeAt(s, t, "L11.short.score"))
      BY <2>1
    <2> HIDE DEF s, t
    <2> QED
      BY <2>1, <2>2, RunsAgree
  <1>5. Settled(store, c, {"L8.val.priced_in"})
    BY <1>1, <1>4 DEF Settled, AgreeOff, AgreeAt
  <1>6. ASSUME q = 2 PROVE Settled(store, c, {})
    <2>1. \A dp \in Derived : AgreeAt(RunOne(s), base[c], dp)
      BY <1>6 DEF SettledBase, Settled
    <2>2. \A dp \in Derived : AgreeAt(store[c], base[c], dp)
      BY <2>1 DEF FromBase, AgreeAt
    <2> HIDE DEF s, t
    <2>3. \A dp \in Derived : AgreeAt(RunOne(t), store[c], dp)
      BY <1>4, <2>1, <2>2 DEF AgreeOff, AgreeAt
    <2> QED
      BY <2>3 DEF Settled, t
  <1> QED
    BY <1>5, <1>6

\* The first undisturbed run settles all but the price, the second the price.
LEMMA RunSettles ==
    ASSUME NEW base, NEW store, NEW q, OffBase(base, store), SettledBase(base, q), q \in 0..2,
           \A c \in CodeSet : \A dp \in Derived : AgreeAt(store[c], RunOne(Snapshot(base, c)), dp)
    PROVE  SettledBase(store, IF q = 2 THEN 2 ELSE q + 1)
  <1> SUFFICES ASSUME NEW c \in CodeSet
               PROVE  Settled(store, c, {"L8.val.priced_in"}) /\ (q >= 1 => Settled(store, c, {}))
    BY DEF SettledBase
  <1> DEFINE s == Snapshot(base, c)
             t == Snapshot(store, c)
  <1>1. \A o \in DOMAIN Initial : AgreeOff(base[o], store[o], Derived)
    BY DEF OffBase, AgreeOff
  <1>2. AgreeOff(s, t, Derived)
    BY <1>1, SnapshotsAgree
  <1>3. \A dp \in Derived : dp \in DOMAIN store[c] /\ AgreeAt(RunOne(s), store[c], dp)
    BY RunHas DEF AgreeAt
  <1>4. \A dp \in Derived : AgreeAt(t, store[c], dp)
    BY <1>3, SnapshotOwn
  <1>5. Settled(store, c, {"L8.val.priced_in"})
    <2>1. AgreeOff(RunOne(s), RunOne(t), {"L8.val.priced_in"})
      <3> HIDE DEF s, t
      <3> QED
        BY <1>2, RunsAgree
    <2> HIDE DEF s
    <2> QED
      BY <1>3, <2>1 DEF Settled, AgreeOff, AgreeAt
  <1>6. ASSUME q >= 1 PROVE Settled(store, c, {})
    <2>1. AgreeAt(RunOne(s), base[c], "L11.short.score")
      <3>1. Settled(base, c, {"L8.val.priced_in"})
        BY <1>6 DEF SettledBase
      <3>2. "L11.short.score" \in Derived \ {"L8.val.priced_in"}
        BY ShortIs
      <3> QED
        BY <3>1, <3>2 DEF Settled
    <2>2. "L11.short.score" \in DOMAIN base[c]
      BY <2>1, ShortIs, RunHas DEF AgreeAt
    <2>3. AgreeAt(s, base[c], "L11.short.score")
      BY <2>2, SnapshotOwn
    <2>4. AgreeAt(s, t, "L11.short.score")
      <3> HIDE DEF s, t
      <3> QED
        BY <1>3, <1>4, <2>1, <2>3, ShortIs DEF AgreeAt
    <2>5. AgreeOff(RunOne(s), RunOne(t), {})
      <3> DEFINE D == {}
      <3>1. D = {"L8.val.priced_in"} \/ (D = {} /\ AgreeAt(s, t, "L11.short.score"))
        BY <2>4
      <3> HIDE DEF s, t
      <3> QED
        BY <1>2, <3>1, RunsAgree
    <2> HIDE DEF s
    <2> QED
      BY <1>3, <2>5 DEF Settled, AgreeOff, AgreeAt
  <1> QED
    BY <1>5, <1>6

\* The points of the signal are derived.
LEMMA SignalPointsAre == SignalPoints \subseteq OutsUpTo(17) /\ SignalPoints \subseteq Derived
  BY DerivedIs, OutSetIs DEF SignalPoints

\* The points of the signal alone decide whether a table is whole.
LEMMA WholeCarries ==
    ASSUME NEW s, NEW t, \A dp \in SignalPoints : AgreeAt(s, t, dp), Whole(s)
    PROVE  Whole(t)
  <1> DEFINE stored == [dp \in DOMAIN s |-> s[dp].value]
             next == [dp \in DOMAIN t |-> t[dp].value]
  <1>1. SignalPoints \subseteq DOMAIN t \/ SignalPoints \cap DOMAIN t = {}
    BY DEF Whole, AgreeAt
  <1>2. SignalFollowsMode(t)
    <2>1. CASE "L11.trade.signal" \notin DOMAIN t
      BY <2>1 DEF SignalFollowsMode
    <2>2. CASE "L11.trade.signal" \in DOMAIN t
      <3>1. SignalPoints \subseteq DOMAIN t /\ SignalPoints \subseteq DOMAIN s
        <4>1. "L11.trade.signal" \in SignalPoints
          BY DEF SignalPoints
        <4> QED
          BY <1>1, <2>2, <4>1 DEF AgreeAt
      <3>2. \A dp \in SignalPoints : dp \in DOMAIN stored /\ dp \in DOMAIN next /\ stored[dp] = next[dp]
        BY <3>1 DEF AgreeAt
      <3> HIDE DEF stored, next
      <3>3. \A dp \in {"L11.short.score", "L11.mid.score", "L11.long.score", "L11.mode"} :
                Of(stored, dp) = Of(next, dp)
        BY <3>2 DEF Of, SignalPoints
      <3>4. TradeSignal(stored) = TradeSignal(next)
        BY <3>3, SignalLocal
      <3>5. LET signal == stored["L11.trade.signal"]
            IN  /\ signal.mode_label = stored["L11.mode"].mode
                /\ signal.signal = TradeSignal(stored)[1].signal
                /\ stored["L11.mode"].mode \in {"trend_reversal", "de_rating"} => signal.signal = "AVOID"
        <4>1. SignalFollowsMode(s) /\ "L11.trade.signal" \in DOMAIN stored
          BY <3>2 DEF Whole, SignalPoints
        <4> QED
          BY <4>1 DEF SignalFollowsMode, stored
      <3>6. LET signal == next["L11.trade.signal"]
            IN  /\ signal.mode_label = next["L11.mode"].mode
                /\ signal.signal = TradeSignal(next)[1].signal
                /\ next["L11.mode"].mode \in {"trend_reversal", "de_rating"} => signal.signal = "AVOID"
        BY <3>2, <3>4, <3>5 DEF SignalPoints
      <3> QED
        BY <3>6 DEF SignalFollowsMode, next
    <2> QED
      BY <2>1, <2>2
  <1> QED
    BY <1>1, <1>2 DEF Whole

-----------------------------------------------------------------------------
(* Derived rows: every step keeps the invariant                            *)

\* The commands start with nothing of a formula stored.
LEMMA DeriveStarts == ASSUME DeriveInit PROVE DeriveInv
  <1>1. rows = Initial /\ runner = NoCommand /\ tier0 = NoCommand /\ quiet = 0 /\ torn = {}
    BY DEF DeriveInit
  <1>2. /\ Job(runner) /\ Job(tier0) /\ ~runner.on /\ runner.at = 0 /\ runner.left = <<>>
        /\ runner.batch = <<>> /\ In(runner.batch) = {} /\ In(tier0.batch) = {}
    BY <1>1, QueueEmpty DEF NoCommand, Job
  <1>3. ASSUME NEW c \in CodeSet PROVE Whole(rows[c])
    <2>1. DOMAIN rows[c] \cap SignalPoints = {}
      <3>1. c \in DOMAIN Initial
        BY LookupIs
      <3>2. DOMAIN Initial[c] \cap Outs = {}
        BY <3>1, DeriveAssumption DEF DeriveAssumption
      <3>3. Outs = OutsUpTo(17)
        BY RegistryIs DEF Outs, OutsUpTo
      <3> QED
        BY <1>1, <3>2, <3>3, SignalPointsAre
    <2> QED
      BY <2>1 DEF Whole, SignalFollowsMode, SignalPoints
  <1>4. BatchesInv /\ HeadInv
    <2>1. Shown(0) = {}
      BY DEF Shown
    <2> QED
      BY <1>2, <2>1 DEF BatchesInv, HeadInv
  <1>5. Sound(rows, rows, runner, quiet)
    BY <1>1, <1>2, OwnBase DEF Sound, SettledBase, Undisturbed
  <1> QED
    BY <1>1, <1>2, <1>3, <1>4, <1>5 DEF DeriveInv, StoreInv

\* What a step keeps that leaves the store and the run of derive-snapshot alone.
LEMMA RunStays ==
    ASSUME DeriveInv, UNCHANGED <<rows, runner, quiet, torn>>, Job(tier0'),
           \A b \in In(tier0.batch') : DOMAIN b.rows \cap Derived = {}
    PROVE  DeriveInv'
  <1>1. StoreInv'
    BY DEF DeriveInv, StoreInv, BatchesInv, HeadInv
  <1>2. \E base : Sound(base, rows', runner', quiet')
    BY DEF DeriveInv
  <1> QED
    BY <1>1, <1>2 DEF DeriveInv

\* What a step keeps that changes an input: the run under way is no longer clean.
LEMMA InputChanges ==
    ASSUME StoreInv, runner' = Dirty(runner), quiet' = 0, torn' = torn,
           DOMAIN rows' = DOMAIN rows, Job(tier0'),
           \A b \in In(tier0.batch') : DOMAIN b.rows \cap Derived = {},
           \A o \in DOMAIN rows : \A dp \in SignalPoints : AgreeAt(rows[o], rows'[o], dp)
    PROVE  DeriveInv'
  <1>1. /\ Job(runner') /\ runner'.on = runner.on /\ runner'.left = runner.left
        /\ runner'.batch = runner.batch /\ runner'.at = runner.at /\ ~runner'.clean
    BY DEF StoreInv, Job, Dirty
  <1>2. ASSUME NEW c \in CodeSet \ torn' PROVE Whole(rows'[c])
    <2>1. Whole(rows[c]) /\ c \in DOMAIN rows
      BY LookupIs DEF StoreInv
    <2> QED
      BY <2>1, WholeCarries
  <1>3. HeadInv'
    <2> SUFFICES ASSUME NEW dp \in Shown(runner.at)
                 PROVE  AgreeAt(Head(runner.batch).rows, rows'[Head(runner.batch).owner], dp)
      BY <1>1 DEF HeadInv
    <2>1. AgreeAt(Head(runner.batch).rows, rows[Head(runner.batch).owner], dp) /\ dp \in SignalPoints
      BY DEF StoreInv, HeadInv, Shown
    <2>2. Head(runner.batch).owner \in DOMAIN rows
      <3>1. runner.at # 0
        BY DEF Shown
      <3>2. Head(runner.batch) \in In(runner.batch)
        BY <3>1, QueueHas DEF StoreInv, Job
      <3> QED
        BY <3>2, LookupIs DEF StoreInv, BatchesInv
    <2> QED
      BY <2>1, <2>2 DEF AgreeAt
  <1>4. BatchesInv'
    BY <1>1 DEF StoreInv, BatchesInv
  <1>5. StoreInv'
    BY <1>1, <1>2, <1>3, <1>4 DEF StoreInv
  <1>6. Sound(rows', rows', runner', quiet')
    BY <1>1, UnsettledSound
  <1> QED
    BY <1>5, <1>6 DEF DeriveInv

\* The collector writes a source or a sub-score of its own.
LEMMA CollectKeepsDerive == ASSUME DeriveInv, NEW w \in Feed, Collect(w) PROVE DeriveInv'
  <1>1. w.owner \in DOMAIN Initial /\ w.dp \notin Outs /\ StoreInv
    BY DeriveAssumption DEF DeriveAssumption, DeriveInv
  <1>2. /\ rows' = [rows EXCEPT ![w.owner] = With(@, w.dp, w.row)] /\ runner' = Dirty(runner)
        /\ quiet' = 0 /\ tier0' = tier0 /\ torn' = torn
    BY DEF Collect
  <1>3. w.dp \notin SignalPoints
    BY <1>1, RegistryIs, SignalPointsAre DEF Outs, OutsUpTo
  <1>4. \A o \in DOMAIN rows : \A dp \in SignalPoints : AgreeAt(rows[o], rows'[o], dp)
    <2> SUFFICES ASSUME NEW o \in DOMAIN rows, NEW dp \in SignalPoints PROVE AgreeAt(rows[o], rows'[o], dp)
      OBVIOUS
    <2>1. CASE o # w.owner
      BY <1>2, <2>1 DEF AgreeAt
    <2>2. CASE o = w.owner
      <3>1. rows'[o] = With(rows[o], w.dp, w.row)
        BY <1>2, <2>2
      <3> QED
        BY <1>3, <3>1 DEF With, AgreeAt
    <2> QED
      BY <2>1, <2>2
  <1>5. DOMAIN rows' = DOMAIN rows
    BY <1>2
  <1>6. Job(tier0') /\ \A b \in In(tier0.batch') : DOMAIN b.rows \cap Derived = {}
    BY <1>1, <1>2 DEF StoreInv, BatchesInv
  <1> QED
    BY <1>1, <1>2, <1>4, <1>5, <1>6, InputChanges

\* A new command, and one that is loading.
LEMMA NewJob ==
    ASSUME NEW job, job = [NoCommand EXCEPT !.on = TRUE, !.left = Codes]
    PROVE  /\ Job(job) /\ job.on /\ job.clean /\ job.left = Codes /\ job.at = 0
           /\ job.batch = <<>> /\ In(job.batch) = {}
  BY QueueEmpty DEF NoCommand, Job

\* A job that has loaded one stock more.
LEMMA LoadedJob ==
    ASSUME NEW job, Job(job), NEW entry
    PROVE  LET next == Load(job, entry)
           IN  /\ Job(next) /\ next.on = job.on /\ next.clean = job.clean /\ next.at = job.at
               /\ next.left = Tail(job.left) /\ In(next.batch) = In(job.batch) \cup {entry}
               /\ next.batch = Append(job.batch, entry)
  <1>1. IsQueue(Append(job.batch, entry)) /\ In(Append(job.batch, entry)) = In(job.batch) \cup {entry}
    BY QueueGrows DEF Job
  <1> DEFINE longer == Append(job.batch, entry)
             rest == Tail(job.left)
             next == [job EXCEPT !.left = rest, !.batch = longer]
  <1>2. Load(job, entry) = next
    BY DEF Load
  <1> HIDE DEF longer, rest
  <1>3. /\ DOMAIN next = DOMAIN job /\ next.left = rest /\ next.batch = longer
        /\ next.on = job.on /\ next.clean = job.clean /\ next.at = job.at
    BY DEF Job
  <1> HIDE DEF next
  <1> QED
    BY <1>1, <1>2, <1>3 DEF Job, longer, rest

\* A run of derive-snapshot starts with all stocks before it.
LEMMA StartRunnerKeepsDerive == ASSUME DeriveInv, StartRunner PROVE DeriveInv'
  <1>1. /\ ~runner.on /\ runner' = [NoCommand EXCEPT !.on = TRUE, !.left = Codes]
        /\ UNCHANGED <<rows, tier0, quiet, torn>>
    BY DEF StartRunner
  <1>2. /\ Job(runner') /\ runner'.on /\ runner'.clean /\ runner'.left = Codes /\ runner'.at = 0
        /\ runner'.batch = <<>> /\ In(runner'.batch) = {}
    BY <1>1, NewJob
  <1>3. runner'.left \in Seq(CodeSet) /\ In(runner'.left) = CodeSet
    BY <1>2, CodesAre
  <1>4. BatchesInv' /\ HeadInv'
    <2>1. Shown(0) = {}
      BY DEF Shown
    <2> QED
      BY <1>1, <1>2, <2>1 DEF DeriveInv, StoreInv, BatchesInv, HeadInv
  <1>5. StoreInv'
    BY <1>1, <1>2, <1>3, <1>4 DEF DeriveInv, StoreInv
  <1>6. Sound(rows, rows', runner', quiet')
    <2>1. PICK base : Sound(base, rows, runner, quiet)
      BY DEF DeriveInv
    <2>2. SettledBase(rows, quiet)
      BY <1>1, <2>1 DEF Sound, Undisturbed
    <2>3. RunOver(rows, rows', runner')
      BY <1>2, <1>3 DEF RunOver, Awaited
    <2> QED
      BY <1>1, <2>2, <2>3, OwnBase DEF Sound
  <1> QED
    BY <1>5, <1>6 DEF DeriveInv

\* A run of derive-snapshot computes one stock more.
LEMMA RunnerLoadsKeepsDerive == ASSUME DeriveInv, RunnerLoads PROVE DeriveInv'
  <1> DEFINE c == Head(runner.left)
             b == [owner |-> c, rows |-> RunOne(Snapshot(rows, c))]
  <1>1. runner.on /\ runner.left # <<>> /\ UNCHANGED <<rows, tier0, quiet, torn>> /\ runner' = Load(runner, b)
    BY DEF RunnerLoads
  <1>2. b.owner = c /\ b.rows = RunOne(Snapshot(rows, c)) /\ DOMAIN b.rows = Derived
        /\ SignalFollowsMode(b.rows)
    BY RunHas, RunSignal
  <1>3. StoreInv /\ Job(runner) /\ runner.at = 0
    BY <1>1 DEF DeriveInv, StoreInv
  <1> HIDE DEF b
  <1>4. /\ Job(runner') /\ runner'.on /\ runner'.clean = runner.clean /\ runner'.at = 0
        /\ runner'.left = Tail(runner.left) /\ In(runner'.batch) = In(runner.batch) \cup {b}
    BY <1>1, <1>3, LoadedJob
  <1>5. c \in CodeSet /\ Tail(runner.left) \in Seq(CodeSet) /\ In(runner.left) = {c} \cup In(runner'.left)
    <2>1. runner.left \in Seq(CodeSet) /\ runner.left # <<>>
      BY <1>1, <1>3 DEF StoreInv
    <2> QED
      BY <1>4, <2>1, QueueIs
  <1> HIDE DEF c
  <1>6. BatchesInv' /\ HeadInv'
    <2>1. Shown(0) = {}
      BY DEF Shown
    <2> QED
      BY <1>1, <1>2, <1>3, <1>4, <1>5, <2>1 DEF StoreInv, BatchesInv, HeadInv
  <1>7. StoreInv'
    BY <1>1, <1>3, <1>4, <1>5, <1>6 DEF StoreInv
  <1>8. Sound(rows, rows', runner', quiet')
    <2>1. PICK base : Sound(base, rows, runner, quiet)
      BY DEF DeriveInv
    <2>2. base = rows
      BY <1>1, <2>1 DEF Sound
    <2>3. Undisturbed(runner') => RunOver(rows, rows', runner')
      <3> SUFFICES ASSUME Undisturbed(runner') PROVE RunOver(rows, rows', runner')
        OBVIOUS
      <3>1. RunOver(rows, rows, runner)
        BY <1>1, <1>4, <2>1, <2>2 DEF Sound, Undisturbed
      <3>2. \A x \in In(runner'.batch) : x.rows = RunOne(Snapshot(rows, x.owner))
        BY <1>2, <1>4, <3>1 DEF RunOver
      <3>3. ASSUME NEW d \in CodeSet, NEW dp \in Derived, Awaited(runner, d, dp)
            PROVE  Awaited(runner', d, dp)
        <4>1. dp \notin Done(0)
          BY DEF Done
        <4>2. CASE d \in In(runner.left)
          BY <1>2, <1>4, <1>5, <4>1, <4>2 DEF Awaited
        <4>3. CASE \E x \in In(runner.batch) : x.owner = d
          BY <1>4, <4>1, <4>3 DEF Awaited
        <4> QED
          BY <3>3, <4>2, <4>3 DEF Awaited
      <3> QED
        BY <1>1, <3>1, <3>2, <3>3 DEF RunOver
    <2> QED
      BY <1>1, <2>1, <2>2, <2>3 DEF Sound
  <1> QED
    BY <1>7, <1>8 DEF DeriveInv

\* What a step of an upsert leaves of the job.
LEMMA WrittenJob ==
    ASSUME NEW job, Job(job), job.batch # <<>>, NEW order, NEW n
    PROVE  LET next == Written(job, order, n)
           IN  /\ Job(next) /\ next.on = job.on /\ next.clean = job.clean /\ next.left = job.left
               /\ n = Len(order) => next.batch = Tail(job.batch) /\ next.at = 0
               /\ n # Len(order) => next.batch = job.batch /\ next.at = n
               /\ In(next.batch) \subseteq In(job.batch)
  <1>1. IsQueue(Tail(job.batch)) /\ In(job.batch) = {Head(job.batch)} \cup In(Tail(job.batch))
    BY QueueHas DEF Job
  <1> DEFINE rest == Tail(job.batch)
  <1>2. CASE n = Len(order)
    <2>1. Written(job, order, n) = [job EXCEPT !.batch = rest, !.at = 0]
      BY <1>2 DEF Written
    <2> HIDE DEF rest
    <2> DEFINE next == [job EXCEPT !.batch = rest, !.at = 0]
    <2>2. /\ DOMAIN next = DOMAIN job /\ next.left = job.left /\ next.batch = rest
          /\ next.on = job.on /\ next.clean = job.clean /\ next.at = 0
      BY DEF Job
    <2> HIDE DEF next
    <2> QED
      BY <1>1, <1>2, <2>1, <2>2 DEF Job, rest, next
  <1>3. CASE n # Len(order)
    <2> DEFINE next == [job EXCEPT !.at = n]
    <2>1. Written(job, order, n) = next
      BY <1>3 DEF Written
    <2>2. /\ DOMAIN next = DOMAIN job /\ next.left = job.left /\ next.batch = job.batch
          /\ next.on = job.on /\ next.clean = job.clean /\ next.at = n
      BY DEF Job
    <2> HIDE DEF next
    <2> QED
      BY <1>3, <2>1, <2>2 DEF Job
  <1> QED
    BY <1>2, <1>3

\* derive-snapshot commits some rows of a stock.
LEMMA RunnerWritesKeepsDerive ==
    ASSUME DeriveInv, NEW n \in DOMAIN RunOrder, RunnerWrites(n) PROVE DeriveInv'
  <1> DEFINE entry == Head(runner.batch)
             own == entry.owner
             now == Now(runner, RunOrder, n)
  <1>1. /\ runner.on /\ runner.left = <<>> /\ runner.batch # <<>> /\ n > runner.at
        /\ rows' = Upsert(runner, RunOrder, n) /\ runner' = Written(runner, RunOrder, n)
        /\ torn' = (IF Shown(n) = {} THEN torn
                    ELSE IF Shown(n) = SignalPoints THEN torn \ {own} ELSE torn \cup {own})
        /\ tier0' = tier0 /\ quiet' = quiet
    BY DEF RunnerWrites, WritesTo
  <1>2. StoreInv /\ n \in 1..28 /\ runner.at \in 0..27 /\ DOMAIN rows = DOMAIN Initial
    BY OrderIs DEF DeriveInv, StoreInv
  <1>3. /\ Job(runner') /\ runner'.on /\ runner'.clean = runner.clean /\ runner'.left = <<>>
        /\ n = 28 => runner'.batch = Tail(runner.batch) /\ runner'.at = 0
        /\ n # 28 => runner'.batch = runner.batch /\ runner'.at = n
        /\ In(runner'.batch) \subseteq In(runner.batch)
    <2> DEFINE next == Written(runner, RunOrder, n)
    <2>1. Job(runner) /\ runner.batch # <<>> /\ Len(RunOrder) = 28
      BY <1>1, <1>2, OrderIs DEF StoreInv
    <2>2. /\ Job(next) /\ next.on = runner.on /\ next.clean = runner.clean /\ next.left = runner.left
          /\ n = Len(RunOrder) => next.batch = Tail(runner.batch) /\ next.at = 0
          /\ n # Len(RunOrder) => next.batch = runner.batch /\ next.at = n
          /\ In(next.batch) \subseteq In(runner.batch)
      BY ONLY <2>1, WrittenJob
    <2> HIDE DEF next
    <2> QED
      BY <1>1, <2>1, <2>2 DEF next
  <1>4. entry \in In(runner.batch) /\ In(runner.batch) = {entry} \cup In(Tail(runner.batch))
    BY <1>1, <1>2, QueueHas DEF StoreInv, Job
  <1>5. own \in CodeSet /\ DOMAIN entry.rows = Derived /\ SignalFollowsMode(entry.rows)
        /\ own \in DOMAIN rows
    BY <1>2, <1>4, LookupIs DEF StoreInv, BatchesInv
  <1>6. /\ DOMAIN rows' = DOMAIN rows
        /\ \A o \in DOMAIN rows : \A dp : o # own \/ dp \notin now => AgreeAt(rows[o], rows'[o], dp)
        /\ \A o \in DOMAIN rows : \A dp \in now : o = own => AgreeAt(entry.rows, rows'[o], dp)
    BY <1>1, UpsertIs
  <1>7. now \subseteq Derived /\ \A i \in 1..n : i <= runner.at \/ RunOrder[i] \in now
    <2>1. \A i \in 1..n : i <= runner.at \/ i \in (runner.at + 1)..n
      BY <1>2
    <2>2. \A i \in 1..n : RunOrder[i] \in Derived
      <3>1. \A i \in 1..n : i \in 1..28
        BY <1>2
      <3> QED
        BY <3>1, OrderIs DEF Done
    <2>3. now = {RunOrder[i] : i \in (runner.at + 1)..n} \cap DOMAIN entry.rows
      BY DEF Now
    <2> HIDE DEF now, entry, own
    <2> QED
      BY <1>5, <2>1, <2>2, <2>3
  <1> HIDE DEF now, entry, own
  <1>8. Done(n) \subseteq Done(runner.at) \cup now /\ Shown(n) \subseteq Shown(runner.at) \cup now
    <2>1. \A i \in 1..n : i \in 1..runner.at \/ RunOrder[i] \in now
      BY <1>2, <1>7
    <2> QED
      BY <2>1 DEF Done, Shown
  <1>9. \A dp \in Shown(n) : AgreeAt(entry.rows, rows'[own], dp)
    <2>1. \A dp \in Shown(runner.at) : AgreeAt(entry.rows, rows[own], dp)
      BY <1>2 DEF StoreInv, HeadInv, entry, own
    <2> QED
      BY <1>5, <1>6, <1>8, <2>1 DEF AgreeAt
  <1>10. Shown(28) = SignalPoints /\ Shown(0) = {}
    <2>1. Shown(28) = SignalPoints \cap Done(28)
      BY DEF Shown, Done
    <2>2. Shown(28) = SignalPoints
      BY <2>1, OrderIs, SignalPointsAre
    <2> QED
      BY <2>2 DEF Shown
  <1>11. HeadInv'
    <2>1. CASE n = 28
      BY <1>3, <1>10, <2>1 DEF HeadInv
    <2>2. CASE n # 28
      BY <1>3, <1>9, <2>2 DEF HeadInv, entry, own
    <2> QED
      BY <2>1, <2>2
  <1>12. ASSUME NEW c \in CodeSet \ torn' PROVE Whole(rows'[c])
    <2>1. c \in DOMAIN rows
      BY <1>2, LookupIs
    <2>2. CASE c # own \/ Shown(n) = {}
      <3>1. c \notin torn
        BY <1>1, <1>12, <2>2
      <3>2. Whole(rows[c])
        BY <1>2, <1>12, <3>1 DEF StoreInv
      <3>3. ASSUME NEW dp \in SignalPoints PROVE AgreeAt(rows[c], rows'[c], dp)
        <4>1. CASE c # own
          BY <1>6, <2>1, <4>1
        <4>2. CASE Shown(n) = {}
          <5>1. dp \notin now
            <6>1. now \subseteq {RunOrder[i] : i \in 1..n}
              <7>1. \A i \in (runner.at + 1)..n : i \in 1..n
                BY <1>2
              <7> QED
                BY <7>1 DEF now, Now
            <6> QED
              BY <4>2, <6>1 DEF Shown
          <5> QED
            BY <1>6, <2>1, <5>1
        <4> QED
          BY <2>2, <4>1, <4>2
      <3> QED
        BY <3>2, <3>3, WholeCarries
    <2>3. CASE c = own /\ Shown(n) # {}
      <3>1. Shown(n) = SignalPoints
        BY <1>1, <1>12, <2>3
      <3>2. \A dp \in SignalPoints : AgreeAt(entry.rows, rows'[c], dp)
        BY <1>9, <2>3, <3>1
      <3>3. Whole(entry.rows)
        BY <1>5, SignalPointsAre DEF Whole
      <3> QED
        BY <3>2, <3>3, WholeCarries
    <2> QED
      BY <2>2, <2>3
  <1>13. BatchesInv'
    BY <1>1, <1>2, <1>3 DEF StoreInv, BatchesInv
  <1>14. StoreInv'
    <2>1. runner'.at \in 0..27
      BY <1>2, <1>3
    <2>2. runner'.left # <<>> \/ runner'.batch = <<>> => runner'.at = 0
      BY <1>1, <1>3
    <2>3. runner'.left \in Seq(CodeSet)
      BY <1>3
    <2> QED
      BY <1>1, <1>2, <1>3, <1>6, <1>11, <1>12, <1>13, <2>1, <2>2, <2>3 DEF StoreInv
  <1>15. PICK base : Sound(base, rows, runner, quiet)
    BY DEF DeriveInv
  <1>16. CASE ~runner.clean
    <2>1. quiet' = 0 /\ ~runner'.clean
      BY <1>1, <1>2, <1>3, <1>16 DEF StoreInv
    <2>2. Sound(rows', rows', runner', quiet')
      BY <2>1, UnsettledSound
    <2> QED
      BY <1>14, <2>2 DEF DeriveInv
  <1>17. CASE runner.clean
    <2>1. RunOver(base, rows, runner) /\ OffBase(base, rows) /\ SettledBase(base, quiet)
          /\ FromBase(base, rows)
      BY <1>1, <1>15, <1>17 DEF Sound, Undisturbed
    <2>2. entry.rows = RunOne(Snapshot(base, own))
      BY <1>4, <2>1 DEF RunOver, own
    <2>3. OffBase(base, rows')
      <3> SUFFICES ASSUME NEW o \in DOMAIN Initial, NEW dp, dp \notin (IF o \in CodeSet THEN Derived ELSE {})
                   PROVE  AgreeAt(base[o], rows'[o], dp)
        BY DEF OffBase, AgreeOff
      <3>1. AgreeAt(base[o], rows[o], dp)
        BY <2>1 DEF OffBase, AgreeOff
      <3>2. o # own \/ dp \notin now
        BY <1>5, <1>7
      <3>3. AgreeAt(rows[o], rows'[o], dp)
        BY <1>2, <1>6, <3>2
      <3> QED
        BY <3>1, <3>3 DEF AgreeAt
    <2>4. ASSUME NEW c \in CodeSet, NEW dp \in Derived
          PROVE  \/ AgreeAt(rows[c], rows'[c], dp) /\ ~(c = own /\ dp \in now)
                 \/ c = own /\ AgreeAt(rows'[c], RunOne(Snapshot(base, c)), dp)
      <3>1. c \in DOMAIN rows
        BY <1>2, LookupIs
      <3>2. CASE c = own /\ dp \in now
        BY <1>6, <2>2, <3>1, <3>2 DEF AgreeAt
      <3>3. CASE ~(c = own /\ dp \in now)
        BY <1>6, <3>1, <3>3
      <3> QED
        BY <3>2, <3>3
    <2>5. FromBase(base, rows')
      BY <2>1, <2>4 DEF FromBase, AgreeAt
    <2>6. RunOver(base, rows', runner')
      <3>1. \A b \in In(runner'.batch) : b.rows = RunOne(Snapshot(base, b.owner))
        BY <1>3, <2>1 DEF RunOver
      <3>2. ASSUME NEW c \in CodeSet, NEW dp \in Derived
            PROVE  AgreeAt(rows'[c], RunOne(Snapshot(base, c)), dp) \/ Awaited(runner', c, dp)
        <4>1. CASE c = own /\ AgreeAt(rows'[c], RunOne(Snapshot(base, c)), dp)
          BY <4>1
        <4>2. CASE AgreeAt(rows[c], rows'[c], dp) /\ ~(c = own /\ dp \in now)
          <5>1. CASE AgreeAt(rows[c], RunOne(Snapshot(base, c)), dp)
            BY <4>2, <5>1 DEF AgreeAt
          <5>2. CASE Awaited(runner, c, dp)
            <6>1. \E b \in In(runner.batch) : b.owner = c
              BY <1>1, <5>2, QueueEmpty DEF Awaited
            <6>2. c = own => dp \notin Done(runner.at)
              BY <1>1, <5>2, QueueEmpty DEF Awaited, own, entry
            <6>3. c = own => dp \notin Done(n)
              BY <1>8, <4>2, <6>2
            <6>4. CASE n = 28
              <7>1. c # own
                BY <6>3, <6>4, OrderIs
              <7>2. \E b \in In(runner'.batch) : b.owner = c
                BY <1>3, <1>4, <6>1, <6>4, <7>1 DEF own
              <7>3. dp \notin Done(runner'.at)
                BY <1>3, <6>4 DEF Done
              <7> QED
                BY <7>2, <7>3 DEF Awaited
            <6>5. CASE n # 28
              BY <1>3, <6>1, <6>3, <6>5 DEF Awaited, own, entry
            <6> QED
              BY <6>4, <6>5
          <5> QED
            BY <2>1, <5>1, <5>2 DEF RunOver
        <4> QED
          BY <2>4, <4>1, <4>2
      <3> QED
        BY <3>1, <3>2 DEF RunOver
    <2>7. Sound(base, rows', runner', quiet')
      BY <1>1, <1>3, <1>17, <2>1, <2>3, <2>5, <2>6 DEF Sound, Undisturbed
    <2> QED
      BY <1>14, <2>7 DEF DeriveInv
  <1> QED
    BY <1>16, <1>17

\* What a step keeps after which derive-snapshot is not running.
LEMMA RunnerGone ==
    ASSUME DeriveInv, runner' = NoCommand, UNCHANGED <<rows, tier0, torn>>, quiet' \in 0..2,
           SettledBase(rows, quiet')
    PROVE  DeriveInv'
  <1>1. /\ Job(runner') /\ ~runner'.on /\ runner'.at = 0 /\ runner'.left = <<>>
        /\ runner'.batch = <<>> /\ In(runner'.batch) = {}
    BY QueueEmpty DEF NoCommand, Job
  <1>2. BatchesInv' /\ HeadInv'
    <2>1. Shown(0) = {}
      BY DEF Shown
    <2> QED
      BY <1>1, <2>1 DEF DeriveInv, StoreInv, BatchesInv, HeadInv
  <1>3. StoreInv'
    BY <1>1, <1>2 DEF DeriveInv, StoreInv
  <1>4. Sound(rows, rows', runner', quiet')
    BY <1>1, OwnBase DEF Sound, Undisturbed
  <1> QED
    BY <1>3, <1>4 DEF DeriveInv

\* The store is settled whatever run is under way.
LEMMA StoreSettled == ASSUME DeriveInv PROVE SettledBase(rows, quiet)
  <1>1. PICK base : Sound(base, rows, runner, quiet)
    BY DEF DeriveInv
  <1> QED
    BY <1>1, StaysSettled DEF Sound, DeriveInv, StoreInv

\* A run of derive-snapshot has written all it computed.
LEMMA RunnerEndsKeepsDerive == ASSUME DeriveInv, RunnerEnds PROVE DeriveInv'
  <1>1. /\ runner.on /\ runner.left = <<>> /\ runner.batch = <<>> /\ runner' = NoCommand
        /\ quiet' = (IF ~runner.clean THEN 0 ELSE IF quiet = 2 THEN 2 ELSE quiet + 1)
        /\ UNCHANGED <<rows, tier0, torn>> /\ quiet \in 0..2
    BY DEF RunnerEnds, DeriveInv, StoreInv
  <1>2. CASE ~runner.clean
    <2>1. quiet' = 0 /\ SettledBase(rows, 0)
      BY <1>1, <1>2 DEF SettledBase
    <2> QED
      BY <1>1, <2>1, RunnerGone
  <1>3. CASE runner.clean
    <2>1. PICK base : Sound(base, rows, runner, quiet)
      BY DEF DeriveInv
    <2>2. OffBase(base, rows) /\ SettledBase(base, quiet) /\ RunOver(base, rows, runner)
      BY <1>1, <1>3, <2>1 DEF Sound, Undisturbed
    <2>3. \A c \in CodeSet : \A dp \in Derived : AgreeAt(rows[c], RunOne(Snapshot(base, c)), dp)
      BY <1>1, <2>2, QueueEmpty DEF RunOver, Awaited
    <2>4. SettledBase(rows, IF quiet = 2 THEN 2 ELSE quiet + 1)
      BY <1>1, <2>2, <2>3, RunSettles
    <2>5. quiet' = (IF quiet = 2 THEN 2 ELSE quiet + 1) /\ quiet' \in 0..2
      BY <1>1, <1>3
    <2> QED
      BY <1>1, <2>4, <2>5, RunnerGone
  <1> QED
    BY <1>2, <1>3

\* A run of derive-snapshot is killed: what it has written is settled already, or nothing is.
LEMMA RunnerDiesKeepsDerive == ASSUME DeriveInv, RunnerDies PROVE DeriveInv'
  <1>1. runner' = NoCommand /\ UNCHANGED <<rows, tier0, torn>> /\ quiet' = quiet /\ quiet \in 0..2
    BY DEF RunnerDies, DeriveInv, StoreInv
  <1>2. SettledBase(rows, quiet')
    BY <1>1, StoreSettled
  <1> QED
    BY <1>1, <1>2, RunnerGone

\* A run of derive starts.
LEMMA StartTierZeroKeepsDerive == ASSUME DeriveInv, StartTierZero PROVE DeriveInv'
  <1>1. tier0' = [NoCommand EXCEPT !.on = TRUE, !.left = Codes] /\ UNCHANGED <<rows, runner, quiet, torn>>
    BY DEF StartTierZero
  <1>2. Job(tier0') /\ In(tier0'.batch) = {}
    BY <1>1, NewJob
  <1> QED
    BY <1>1, <1>2, RunStays

\* A run of derive computes one stock more: nothing that derive-snapshot writes.
LEMMA TierZeroLoadsKeepsDerive == ASSUME DeriveInv, NEW h \in Histories, TierZeroLoads(h) PROVE DeriveInv'
  <1> DEFINE c == Head(tier0.left)
             b == [owner |-> c, rows |-> TierZero(c, h)]
  <1>1. UNCHANGED <<rows, runner, quiet, torn>> /\ tier0' = Load(tier0, b)
    BY DEF TierZeroLoads
  <1>2. DOMAIN b.rows \cap Derived = {}
    <2> DEFINE Four == {"L6.priced.run_up", "L6.priced.crowdedness", "L10.val.historical_quantile",
                        "L8.val.overvalued"}
    <2>1. DOMAIN TierZero(c, h) \subseteq Four
      BY DEF TierZero
    <2>2. Four \cap Derived = {}
      BY DerivedIs, OutSetIs, SubsAre
    <2> QED
      BY <2>1, <2>2
  <1> HIDE DEF b
  <1>3. Job(tier0) /\ \A x \in In(tier0.batch) : DOMAIN x.rows \cap Derived = {}
    BY DEF DeriveInv, StoreInv, BatchesInv
  <1>4. Job(tier0') /\ In(tier0'.batch) = In(tier0.batch) \cup {b}
    BY <1>1, <1>3, LoadedJob
  <1>5. \A x \in In(tier0.batch') : DOMAIN x.rows \cap Derived = {}
    BY <1>2, <1>3, <1>4
  <1> QED
    BY <1>1, <1>4, <1>5, RunStays

\* derive commits some of its points: they are sources of derive-snapshot.
LEMMA TierZeroWritesKeepsDerive ==
    ASSUME DeriveInv, NEW n, TierZeroWrites(n) PROVE DeriveInv'
  <1>1. /\ tier0.batch # <<>> /\ rows' = Upsert(tier0, TierZeroOrder, n)
        /\ tier0' = Written(tier0, TierZeroOrder, n)
        /\ runner' = Dirty(runner) /\ quiet' = 0 /\ torn' = torn
    BY DEF TierZeroWrites, WritesTo
  <1>2. StoreInv /\ Job(tier0) /\ \A b \in In(tier0.batch) : DOMAIN b.rows \cap Derived = {}
    BY DEF DeriveInv, StoreInv, BatchesInv
  <1>3. Job(tier0') /\ In(tier0'.batch) \subseteq In(tier0.batch)
    BY <1>1, <1>2, WrittenJob
  <1>4. Now(tier0, TierZeroOrder, n) \cap Derived = {}
    <2>1. Head(tier0.batch) \in In(tier0.batch)
      BY <1>1, <1>2, QueueHas DEF Job
    <2> QED
      BY <1>2, <2>1 DEF Now
  <1>5. DOMAIN rows' = DOMAIN rows
        /\ \A o \in DOMAIN rows : \A dp \in SignalPoints : AgreeAt(rows[o], rows'[o], dp)
    <2>1. \A dp \in SignalPoints : dp \notin Now(tier0, TierZeroOrder, n)
      BY <1>4, SignalPointsAre
    <2> QED
      BY <1>1, <2>1, UpsertIs
  <1>6. \A b \in In(tier0.batch') : DOMAIN b.rows \cap Derived = {}
    BY <1>2, <1>3
  <1> QED
    BY <1>1, <1>2, <1>3, <1>5, <1>6, InputChanges

\* A run of derive is over.
LEMMA TierZeroEndsKeepsDerive == ASSUME DeriveInv, TierZeroEnds PROVE DeriveInv'
  <1>1. tier0' = NoCommand /\ UNCHANGED <<rows, runner, quiet, torn>>
    BY DEF TierZeroEnds
  <1>2. Job(tier0') /\ In(tier0'.batch) = {}
    BY <1>1, QueueEmpty DEF NoCommand, Job
  <1> QED
    BY <1>1, <1>2, RunStays

\* Every step keeps the invariant.
LEMMA DeriveInvKeeps == DeriveInv /\ [DeriveNext]_dvars => DeriveInv'
  <1> SUFFICES ASSUME DeriveInv, [DeriveNext]_dvars PROVE DeriveInv'
    OBVIOUS
  <1>1. CASE UNCHANGED dvars
    <2>1. UNCHANGED <<rows, runner, quiet, torn>> /\ tier0' = tier0
      BY <1>1 DEF dvars
    <2>2. Job(tier0') /\ \A b \in In(tier0.batch') : DOMAIN b.rows \cap Derived = {}
      BY <2>1 DEF DeriveInv, StoreInv, BatchesInv
    <2> QED
      BY <2>1, <2>2, RunStays
  <1>2. CASE \E w \in Feed : Collect(w)
    BY <1>2, CollectKeepsDerive
  <1>3. CASE StartRunner
    BY <1>3, StartRunnerKeepsDerive
  <1>4. CASE RunnerLoads
    BY <1>4, RunnerLoadsKeepsDerive
  <1>5. CASE \E n \in DOMAIN RunOrder : RunnerWrites(n)
    BY <1>5, RunnerWritesKeepsDerive
  <1>6. CASE RunnerEnds
    BY <1>6, RunnerEndsKeepsDerive
  <1>7. CASE RunnerDies
    BY <1>7, RunnerDiesKeepsDerive
  <1>8. CASE StartTierZero
    BY <1>8, StartTierZeroKeepsDerive
  <1>9. CASE \E h \in Histories : TierZeroLoads(h)
    BY <1>9, TierZeroLoadsKeepsDerive
  <1>10. CASE \E n \in DOMAIN TierZeroOrder : TierZeroWrites(n)
    BY <1>10, TierZeroWritesKeepsDerive
  <1>11. CASE TierZeroEnds
    BY <1>11, TierZeroEndsKeepsDerive
  <1> QED
    BY <1>1, <1>2, <1>3, <1>4, <1>5, <1>6, <1>7, <1>8, <1>9, <1>10, <1>11 DEF DeriveNext

\* The invariant holds in every state of the two commands.
LEMMA DeriveInvHolds == DeriveSpec => []DeriveInv
  <1>1. DeriveInit => DeriveInv
    BY DeriveStarts
  <1> QED
    BY <1>1, DeriveInvKeeps, PTL DEF DeriveSpec

(* After two complete runs of derive-snapshot over unchanged inputs a third *)
(* run of any stock would write exactly what the store holds, for any       *)
(* stocks, lookups, governance file and feed, whatever run is under way or  *)
(* was killed since: the only formula that reads a later one's point        *)
(* (derive.py's registry has the price before the short score) is caught up *)
(* by the second run.                                                       *)
THEOREM RunsSettle == DeriveSpec => []TwoRunsSettle
  <1>1. DeriveInv => TwoRunsSettle
    <2> SUFFICES ASSUME DeriveInv, quiet = 2, NEW i \in DOMAIN Codes,
                        NEW dp \in DOMAIN RunOne(Snapshot(rows, Codes[i]))
                 PROVE  /\ dp \in DOMAIN rows[Codes[i]]
                        /\ rows[Codes[i]][dp] = RunOne(Snapshot(rows, Codes[i]))[dp]
      BY DEF TwoRunsSettle
    <2>1. Codes[i] \in CodeSet /\ dp \in Derived
      BY RunHas DEF CodeSet
    <2>2. Settled(rows, Codes[i], {})
      BY <2>1, StoreSettled DEF SettledBase
    <2> QED
      BY <2>1, <2>2 DEF Settled, AgreeAt
  <1> QED
    BY <1>1, DeriveInvHolds, PTL

(* The mode and the trade signal in the store are of one run and follow     *)
(* from the scores beside them (run_all, upsert_realtime), whatever the     *)
(* collector and derive write in between and wherever a run is killed,      *)
(* except in a stock between the first of these points and the signal.      *)
THEOREM StoredSignalsFollow == DeriveSpec => []StoredSignalFollowsStoredMode
  <1>1. DeriveInv => StoredSignalFollowsStoredMode
    <2> SUFFICES ASSUME DeriveInv, NEW i \in DOMAIN Codes, Codes[i] \notin torn
                 PROVE  SignalFollowsMode(rows[Codes[i]])
      BY DEF StoredSignalFollowsStoredMode
    <2>1. Codes[i] \in CodeSet \ torn
      BY DEF CodeSet
    <2>2. Whole(rows[Codes[i]])
      BY <2>1 DEF DeriveInv, StoreInv
    <2> QED
      BY <2>2 DEF Whole
  <1> QED
    BY <1>1, DeriveInvHolds, PTL
=============================================================================
