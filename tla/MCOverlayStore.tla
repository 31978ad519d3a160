--------------------------- MODULE MCOverlayStore ---------------------------
(* One company with two industry views; a slot that is unknown until it is *)
(* filled, and an event-driven one that the template marks inactive.       *)
EXTENDS OverlayStore, TLC

CONSTANTS Plain, Event, W1, W2

MCSlots == {Plain, Event}
MCDefault == (Plain :> "Unknown") @@ (Event :> "Inactive")
MCLevel == (Plain :> "conditional_required") @@ (Event :> "conditional_required")
MCEventDriven == {Event}
MCWriters == {W1, W2}

Entry(keys, status, shape) ==
    [keys |-> keys, status |-> status, current |-> "absent", future |-> "absent", shape |-> shape,
     web |-> FALSE, reason |-> FALSE]
Filled == {"data_status", "value", "evidence_sources"}
Option(current, future) ==
    [Entry(Filled, "Optionality", "fits") EXCEPT !.current = current, !.future = future]

\* A fact, statuses alone, whole and half optionalities, a value of another shape
\* with web evidence, under a status that is not checked or none at all.
MCEntries ==
    {Entry(Filled, "Known", "fits"), Entry({"data_status"}, "Known", "none"),
     Entry({"data_status"}, "N/A", "none"), Entry({"data_status"}, "Inactive", "none"),
     Entry({"data_status", "missing_reason"}, "Unknown", "none"),
     Option("set", "blank"), Option("absent", "set"), Option("absent", "blank"),
     [Entry(Filled, "Unknown", "odd") EXCEPT !.web = TRUE], Entry({"value"}, "Known", "odd")}

\* Two sides: on one the files are patched twice and nobody reads them, on the
\* other one of a few patches is compiled and served.
VARIABLE side

overlayVars == <<side, vars>>

Few == {Entry(Filled, "Known", "fits"), Entry({"data_status"}, "N/A", "none")}

OverlaysInit == Init /\ side \in {"files", "tables"}

FilesNext ==
    \E w \in Writers : Rewrite(w) \/ \E s \in Slots, e \in Entries : Patch(w, 1, s, e)

TablesNext ==
    \/ \E w \in Writers : Rewrite(w)
    \/ fills = 0 /\ \E w \in Writers, v \in Views, s \in Slots, e \in Few : Patch(w, v, s, e)
    \/ Compile
    \/ Serve

OverlaysNext ==
    /\ UNCHANGED side
    /\ \/ side = "files" /\ FilesNext
       \/ side = "tables" /\ TablesNext

OverlaysSpec == OverlaysInit /\ [][OverlaysNext]_overlayVars

WriterSymmetry == Permutations(MCWriters)

=============================================================================
