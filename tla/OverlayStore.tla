---------------------------- MODULE OverlayStore ----------------------------
(***************************************************************************)
(* The overlay files and what is made of them: generate-overlays, the      *)
(* patch script and the closed-loop verifier with --auto-demote rewrite    *)
(* the files in place, compile-overlays reads them                         *)
(* twice and replaces the compiled tables in one transaction, the HTTP     *)
(* server answers a request for a stock overlay from several reads of the  *)
(* tables.  None of them takes a lock on the files.                        *)
(*                                                                         *)
(* The files are the industry views of one company, 1 the primary one.     *)
(***************************************************************************)
EXTENDS Overlays

CONSTANTS
    NFiles,         \* industry views
    Writers,        \* processes that generate, patch or demote
    MaxRuns,        \* bound on the generator and verifier runs
    MaxCompiles     \* bound on the compilations

ASSUME StoreAssumption == NFiles \in Nat \ {0} /\ MaxRuns \in Nat /\ MaxCompiles \in Nat

VARIABLES
    file,           \* view -> content of the file
    writer,         \* process -> what it is doing
    compiler,       \* the compile-overlays process
    tables,         \* the compiled tables: number of the compilation, contents
    request,        \* a request handled by the server
    runs, fills,    \* generator and verifier runs, and patches so far
    meant,          \* history: view -> slot -> node the last patch or demotion left there
    unchecked,      \* history: views that took an entry with schema errors, or a value
                    \* whose entry has no status
    regenerated,    \* history: views that are as a generator run left them
    disturbed       \* history: views written from a stale or torn read, by force, or torn

vars == <<file, writer, compiler, tables, request, runs, fills, meant, unchecked, regenerated, disturbed>>

Views == 1..NFiles
Generating == {"generate", "force"}   \* without and with --force
NoNode == [status |-> "Unknown", fill |-> 0]

Idle == [pc |-> "idle", op |-> "generate", view |-> 1, base |-> Missing, out |-> Missing]
Resting == [pc |-> "idle", view |-> 1, ok |-> TRUE, loaded |-> [v \in Views |-> Missing]]
NoRequest == [pc |-> "idle", view |-> 1, graph |-> Missing, version |-> 0,
              alerts |-> NoAlerts, raced |-> FALSE]

Contents == [state : {"missing", "empty", "there"}, nodes : [Slots -> Nodes]]

WriterStates == [pc : {"idle", "read", "write", "flush"}, op : {"generate", "force", "patch", "demote"},
                 view : Views, base : Contents, out : Contents]
CompilerStates == [pc : {"idle", "validate", "load", "commit"}, view : Views, ok : BOOLEAN,
                   loaded : [Views -> Contents]]

Requests == [pc : {"idle", "alerts", "answered", "not_found"}, view : Views, graph : Contents, version : Nat,
             alerts : [unknown : SUBSET Slots, weighted : SUBSET Slots], raced : BOOLEAN]

TypeOK ==
    /\ file \in [Views -> Contents]
    /\ writer \in [Writers -> WriterStates]
    /\ compiler \in CompilerStates
    /\ tables \in [version : Nat, content : [Views -> Contents]]
    /\ request \in Requests
    /\ runs \in 0..MaxRuns
    /\ fills \in 0..MaxFills
    /\ disturbed \subseteq Views /\ unchecked \subseteq Views /\ regenerated \subseteq Views

Init ==
    /\ file = [v \in Views |-> Missing]
    /\ writer = [w \in Writers |-> Idle]
    /\ compiler = Resting
    /\ tables = [version |-> 0, content |-> [v \in Views |-> Missing]]
    /\ request = NoRequest
    /\ runs = 0
    /\ fills = 0
    /\ meant = [v \in Views |-> [s \in Slots |-> NoNode]]
    /\ regenerated = {}
    /\ disturbed = {}
    /\ unchecked = {}

-----------------------------------------------------------------------------
(* generate_overlay_files                                                  *)

StartGenerate(w, op) ==
    /\ writer[w].pc = "idle"
    /\ runs < MaxRuns
    /\ runs' = runs + 1
    /\ writer' = [writer EXCEPT ![w] = [Idle EXCEPT !.pc = "read", !.op = op]]
    /\ UNCHANGED <<file, compiler, tables, request, fills, meant, unchecked, regenerated, disturbed>>

\* The existing file is loaded and merged into the generated one.
ReadExisting(w) ==
    LET v == writer[w].view
    IN  /\ writer[w].pc = "read" /\ writer[w].op # "demote"
        /\ writer' = [writer EXCEPT ![w].pc = "write", ![w].base = file[v],
                                    ![w].out = Merge(file[v], writer[w].op = "force")]
        /\ UNCHANGED <<file, compiler, tables, request, runs, fills, meant, unchecked, regenerated, disturbed>>

\* The generator goes on to the next membership, the patch script ends.
Onward(w) ==
    IF writer[w].op = "patch" \/ writer[w].view = NFiles
    THEN Idle
    ELSE [Idle EXCEPT !.pc = "read", !.op = writer[w].op, !.view = writer[w].view + 1]

\* _write_yaml_if_changed leaves a file alone that is already what it renders.
SkipUnchanged(w) ==
    /\ writer[w].pc = "write"
    /\ writer[w].op \in Generating
    /\ file[writer[w].view] = writer[w].out
    /\ regenerated' = regenerated \cup {writer[w].view}
    /\ writer' = [writer EXCEPT ![w] = Onward(w)]
    /\ UNCHANGED <<file, compiler, tables, request, runs, fills, meant, unchecked, disturbed>>

\* write_text opens the file, which empties it ...
Truncate(w) ==
    LET v == writer[w].view
    IN  /\ writer[w].pc = "write"
        /\ writer[w].op \in Generating => file[v] # writer[w].out
        /\ file' = [file EXCEPT ![v] = Empty]
        /\ writer' = [writer EXCEPT ![w].pc = "flush"]
        /\ disturbed' = IF writer[w].op = "force" \/ file[v] # writer[w].base \/ file[v] = Empty
                        THEN disturbed \cup {v} ELSE disturbed
        /\ regenerated' = regenerated \ {v}
        /\ UNCHANGED <<compiler, tables, request, runs, fills, meant, unchecked>>

\* ... and writes the text.
Flush(w) ==
    LET v == writer[w].view
    IN  /\ writer[w].pc = "flush"
        /\ file' = [file EXCEPT ![v] = writer[w].out]
        /\ disturbed' = IF file[v] = Empty THEN disturbed ELSE disturbed \cup {v}
        /\ regenerated' = IF writer[w].op \in Generating THEN regenerated \cup {v} ELSE regenerated \ {v}
        /\ writer' = [writer EXCEPT ![w] = Onward(w)]
        /\ meant' = IF writer[w].op \in Generating THEN meant
                    ELSE [meant EXCEPT ![v] = [s \in Slots |->
                            IF writer[w].out.nodes[s] = writer[w].base.nodes[s] THEN @[s]
                            ELSE [status |-> writer[w].out.nodes[s].status,
                                  fill |-> writer[w].out.nodes[s].value.fill]]]
        /\ UNCHANGED <<compiler, tables, request, runs, fills, unchecked>>

-----------------------------------------------------------------------------
(* apply_patch                                                             *)

\* What strict mode rejects, and what it does not look at.
Overlooked(s, entry) ==
    SchemaErrors(s, entry) \/ ("value" \in entry.keys /\ "data_status" \notin entry.keys)

\* The file is read and the entry applied to it, unless strict mode rejects it,
\* which writes nothing.  An empty file makes the script fail.
ApplyPatch(w, v, s, entry, strict) ==
    /\ writer[w].pc = "idle"
    /\ fills < MaxFills
    /\ file[v].state = "there"
    /\ strict => ~SchemaErrors(s, entry)
    /\ fills' = fills + 1
    /\ writer' = [writer EXCEPT ![w] =
            [pc |-> "write", op |-> "patch", view |-> v, base |-> file[v],
             out |-> There(Patched(file[v].nodes, s, entry, fills + 1))]]
    /\ unchecked' = IF Overlooked(s, entry) THEN unchecked \cup {v} ELSE unchecked
    /\ UNCHANGED <<file, compiler, tables, request, runs, meant, regenerated, disturbed>>

\* _salvage_apply: a patch that does not parse is split into its entries; this
\* one is applied or dropped, the file is written, and no schema is looked at.
SalvagePatch(w, v, s, entry) ==
    /\ writer[w].pc = "idle"
    /\ fills < MaxFills
    /\ file[v].state = "there"
    /\ fills' = fills + 1
    /\ \E applied \in BOOLEAN :
          /\ writer' = [writer EXCEPT ![w] =
               [pc |-> "write", op |-> "patch", view |-> v, base |-> file[v],
                out |-> IF applied THEN There(Patched(file[v].nodes, s, entry, fills + 1)) ELSE file[v]]]
          /\ unchecked' = IF applied /\ Overlooked(s, entry) THEN unchecked \cup {v} ELSE unchecked
    /\ UNCHANGED <<file, compiler, tables, request, runs, meant, regenerated, disturbed>>

-----------------------------------------------------------------------------
(* verify_overlay_closed_loop.py --auto-demote                             *)

StartVerify(w) ==
    /\ writer[w].pc = "idle"
    /\ runs < MaxRuns
    /\ runs' = runs + 1
    /\ writer' = [writer EXCEPT ![w] = [Idle EXCEPT !.pc = "read", !.op = "demote"]]
    /\ UNCHANGED <<file, compiler, tables, request, fills, meant, unchecked, regenerated, disturbed>>

\* audit_overlays, one file: it is written again only when a node was demoted.
AuditFile(w) ==
    LET v == writer[w].view
    IN  /\ writer[w].pc = "read" /\ writer[w].op = "demote"
        /\ writer' = [writer EXCEPT ![w] =
              IF Audited(file[v]) = file[v] THEN Onward(w)
              ELSE [@ EXCEPT !.pc = "write", !.base = file[v], !.out = Audited(file[v])]]
        /\ UNCHANGED <<file, compiler, tables, request, runs, fills, meant, unchecked, regenerated, disturbed>>

\* A killed writer leaves the file it had opened empty.
WriterDies(w) ==
    /\ writer[w].pc # "idle"
    /\ writer' = [writer EXCEPT ![w] = Idle]
    /\ disturbed' = IF writer[w].pc = "flush" THEN disturbed \cup {writer[w].view} ELSE disturbed
    /\ UNCHANGED <<file, compiler, tables, request, runs, fills, meant, unchecked, regenerated>>

-----------------------------------------------------------------------------
(* compile_overlays_to_sqlite                                              *)

StartCompile ==
    /\ compiler.pc = "idle"
    /\ tables.version < MaxCompiles
    /\ compiler' = [Resting EXCEPT !.pc = "validate"]
    /\ UNCHANGED <<file, writer, tables, request, runs, fills, meant, unchecked, regenerated, disturbed>>

\* The next file of the pass, or the next phase when all were good.
Advance(good, phase) ==
    IF compiler.view < NFiles
    THEN [compiler EXCEPT !.view = @ + 1, !.ok = @ /\ good]
    ELSE IF compiler.ok /\ good THEN [compiler EXCEPT !.pc = phase, !.view = 1] ELSE Resting

\* validate_overlay_set
ValidateFile ==
    /\ compiler.pc = "validate"
    /\ compiler' = Advance(Valid(file[compiler.view]), "load")
    /\ UNCHANGED <<file, writer, tables, request, runs, fills, meant, unchecked, regenerated, disturbed>>

\* Mutant: the second read trusts the first pass.
Accepted_Trusting(content) == TRUE

\* The file is loaded again, and validated again.
Accepted(content) == Valid(content)

LoadFile ==
    LET content == file[compiler.view]
    IN  /\ compiler.pc = "load"
        /\ compiler' = [Advance(Accepted(content), "commit") EXCEPT
                            !.loaded = IF Accepted(content) THEN [@ EXCEPT ![compiler.view] = content]
                                                            ELSE @]
        /\ UNCHANGED <<file, writer, tables, request, runs, fills, meant, unchecked, regenerated, disturbed>>

\* replace_compiled_overlays: one transaction over the five tables.
ReplaceTables ==
    /\ compiler.pc = "commit"
    /\ tables' = [version |-> tables.version + 1, content |-> compiler.loaded]
    /\ compiler' = Resting
    /\ UNCHANGED <<file, writer, request, runs, fills, meant, unchecked, regenerated, disturbed>>

CompilerDies ==
    /\ compiler.pc # "idle"
    /\ compiler' = Resting
    /\ UNCHANGED <<file, writer, tables, request, runs, fills, meant, unchecked, regenerated, disturbed>>

-----------------------------------------------------------------------------
(* handle_stock_overlay                                                    *)

\* read_compiled_graph_snapshot; without one, the file itself is the answer,
\* and an emptied file an empty graph.
ReadSnapshot(v) ==
    /\ request.pc = "idle"
    /\ request' =
          IF tables.version > 0
          THEN [NoRequest EXCEPT !.pc = "alerts", !.view = v, !.graph = tables.content[v],
                                 !.version = tables.version]
          ELSE IF file[v].state = "missing"
          THEN [NoRequest EXCEPT !.pc = "not_found", !.view = v]
          ELSE [NoRequest EXCEPT !.pc = "answered", !.view = v, !.graph = file[v]]
    /\ UNCHANGED <<file, writer, compiler, tables, runs, fills, meant, unchecked, regenerated, disturbed>>

\* Mutant: the alerts of all industry views of the company.
AlertsOf_AnyIndustry(v) ==
    [unknown |-> UNION {Alerts(tables.content[u]).unknown : u \in Views},
     weighted |-> UNION {Alerts(tables.content[u]).weighted : u \in Views}]

AlertsOf(v) == Alerts(tables.content[v])

\* read_overlay_alerts; when there are none, the ones stored in the snapshot.
ReadAlerts ==
    /\ request.pc = "alerts"
    /\ request' = [request EXCEPT
          !.pc = "answered",
          !.alerts = IF AlertsOf(request.view) = NoAlerts THEN Alerts(request.graph)
                                                          ELSE AlertsOf(request.view),
          !.raced = tables.version # request.version]
    /\ UNCHANGED <<file, writer, compiler, tables, runs, fills, meant, unchecked, regenerated, disturbed>>

NextRequest ==
    /\ request.pc \in {"answered", "not_found"}
    /\ request' = NoRequest
    /\ UNCHANGED <<file, writer, compiler, tables, runs, fills, meant, unchecked, regenerated, disturbed>>

-----------------------------------------------------------------------------
Rewrite(w) ==
    \/ \E op \in Generating : StartGenerate(w, op)
    \/ ReadExisting(w)
    \/ SkipUnchanged(w)
    \/ Truncate(w)
    \/ Flush(w)
    \/ StartVerify(w)
    \/ AuditFile(w)
    \/ WriterDies(w)

Patch(w, v, s, entry) ==
    SalvagePatch(w, v, s, entry) \/ \E strict \in BOOLEAN : ApplyPatch(w, v, s, entry, strict)

Write(w) == Rewrite(w) \/ \E v \in Views, s \in Slots, e \in Entries : Patch(w, v, s, e)

Compile == StartCompile \/ ValidateFile \/ LoadFile \/ ReplaceTables \/ CompilerDies

Serve == (\E v \in Views : ReadSnapshot(v)) \/ ReadAlerts \/ NextRequest

Next == (\E w \in Writers : Write(w)) \/ Compile \/ Serve

Spec == Init /\ [][Next]_vars

-----------------------------------------------------------------------------
(* Properties                                                              *)

\* A fact or an N/A judgement that a patch wrote survives every regeneration:
\* it is in the file as long as no later patch replaced it or a demotion took it
\* back, unless the file was regenerated with --force, written by two processes
\* at once, or left empty by a killed one (tests/test_merge_preserve.py:3).
FactsSurvive ==
    \A v \in Views \ disturbed, s \in Slots :
        meant[v][s].status \in {"Known", "N/A"} /\ meant[v][s] # NoNode /\ file[v].state = "there" =>
            /\ file[v].nodes[s].status = meant[v][s].status
            /\ file[v].nodes[s].value.fill = meant[v][s].fill

\* A fill that was demoted for its evidence does not become a fact again by a
\* regeneration, although its value is left in the file.
DemotionsHold ==
    \A v \in Views \ disturbed, s \in Slots :
        meant[v][s].status = "Unknown" /\ meant[v][s] # NoNode /\ file[v].state = "there" =>
            ~(file[v].nodes[s].status = "Known" /\ file[v].nodes[s].value.fill = meant[v][s].fill)

\* With --strict-schema a known value has the shape of its schema, also when it
\* was written first and called Known later or regenerated in between: only a
\* patch that was not strict or did not parse lets another one in, or an entry
\* that brings a value and does not repeat the status.
StrictUnlessOverlooked ==
    \A v \in Views \ unchecked, s \in Schemas :
        file[v].state = "there" /\ file[v].nodes[s].status = "Known" =>
            file[v].nodes[s].value.shape # "odd"

\* What patches and demotions decided stays decided.
FillsSurvive == FactsSurvive /\ DemotionsHold /\ StrictUnlessOverlooked

\* A filled half of an optionality, next to a key that is not there.
HalfSplit(n) == n.status = "Optionality" /\ {n.value.current, n.value.future} = {"set", "absent"}

\* A patch can make a file invalid (it sets the status and not the policy that
\* goes with it); a regeneration makes it valid again, except for an optionality
\* of which one half was filled and the other key left out: that is kept.
Repaired(content) ==
    /\ content.state = "there"
    /\ \A s \in Slots : NodeErrors(s, content.nodes[s]) =
          IF HalfSplit(content.nodes[s]) THEN {"unsplit"} ELSE {}

RegenerationRepairs == \A v \in regenerated : Repaired(file[v])

\* Regenerating once more changes nothing.
MergeIsIdempotent ==
    \A v \in Views : LET once == Merge(file[v], FALSE) IN Merge(once, FALSE) = once

\* generate-overlays can be run at any time: it repairs what a patch broke, but
\* for a half optionality, and changes nothing when run twice.
RegenerationSafe == RegenerationRepairs /\ MergeIsIdempotent

\* Whatever is written while the compiler reads, only valid overlays get into
\* the tables, each of them whole.
CompiledIsValid == tables.version > 0 => \A v \in Views : Valid(tables.content[v])

\* The alerts of a response are those of the graph it shows, unless a compilation
\* was committed between the two reads.
AlertsMatchGraph ==
    request.pc = "answered" /\ request.version > 0 /\ ~request.raced =>
        request.alerts = Alerts(request.graph)

=============================================================================
