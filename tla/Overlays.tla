------------------------------ MODULE Overlays ------------------------------
(***************************************************************************)
(* mvp20/overlays.py: what an overlay file holds, how a regeneration is    *)
(* merged into it, when it is valid and which alerts it compiles to; the   *)
(* patch of scripts/apply_yaml_patch.py with the check of its values       *)
(* (schema_validator.py), and the evidence rule of                         *)
(* scripts/verify_overlay_closed_loop.py.                                  *)
(*                                                                         *)
(* A file is "missing", "empty" (opened for writing, nothing written yet)  *)
(* or "there" with its nodes.  Of a node the model keeps the fields that   *)
(* the rules read: status, value, missing_policy, active_weight,           *)
(* missing_reason and whether its evidence is from the web.  A value names *)
(* the fill that put it there (0 when it is still the template's), what is *)
(* under its keys current_contribution and future_option_value, and        *)
(* whether it has the keys and types its schema asks for.                  *)
(***************************************************************************)
EXTENDS Naturals, FiniteSets

CONSTANTS
    Slots,          \* dp_ids of the template
    Default,        \* slot -> data_status the template gives it
    Level,          \* slot -> required_level
    EventDriven,    \* slots whose refresh_trigger is event_driven
    Schemas,        \* slots with an entry in DP_SCHEMA
    WebTier,        \* slots whose model_tier is web_analysis
    Entries,        \* what a patch may say of a slot: some of the whitelisted keys
    MaxFills        \* bound on the patches

Statuses == {"Known", "N/A", "Unknown", "Inactive", "Optionality"}
Keys == {"data_status", "value", "evidence_sources", "missing_reason"}
Halves == {"absent", "blank", "set"}   \* a key of a value: not there, null, or with a content
Shapes == {"none", "fits", "odd"}      \* against the schema: no value, conformant, or not

ASSUME OverlayAssumption ==
    /\ Default \in [Slots -> {"Known", "Unknown", "Inactive", "Optionality"}]
    /\ Level \in [Slots -> {"required", "conditional_required", "optional"}]
    /\ \A s \in Slots : Default[s] = "Unknown" => Level[s] # "required"
    /\ EventDriven \subseteq Slots
    /\ Schemas \subseteq Slots /\ WebTier \subseteq Slots
    /\ Entries \subseteq [keys : SUBSET Keys, status : Statuses, current : Halves, future : Halves,
                         shape : Shapes, web : BOOLEAN, reason : BOOLEAN]
    /\ MaxFills \in Nat

Values == [fill : 0..MaxFills, current : Halves, future : Halves, shape : Shapes]
Nodes == [status : Statuses, value : Values, policy : Statuses, weight : {0, 1}, reason : BOOLEAN,
          web : BOOLEAN]

-----------------------------------------------------------------------------
(* The template: SlotDef, _node_from_slot, build_stock_overlay             *)

\* The value of an optionality has both keys, with nothing under them.
BlankValue(s) ==
    LET half == IF Default[s] = "Optionality" THEN "blank" ELSE "absent"
    IN  [fill |-> 0, current |-> half, future |-> half, shape |-> "none"]

\* Policies are named after the status they belong to.  An inactive slot has
\* no weight and only an unknown one has a missing_reason.
Template(s) ==
    [status |-> Default[s],
     value |-> BlankValue(s),
     policy |-> Default[s],
     weight |-> IF Default[s] = "Inactive" THEN 0 ELSE 1,
     reason |-> Default[s] = "Unknown",
     web |-> FALSE]

There(nodes) == [state |-> "there", nodes |-> nodes]
Empty == [state |-> "empty", nodes |-> [s \in Slots |-> Template(s)]]
Missing == [state |-> "missing", nodes |-> [s \in Slots |-> Template(s)]]

Generated == There([s \in Slots |-> Template(s)])

-----------------------------------------------------------------------------
(* _should_preserve_node and merge_preserve_existing_overlay               *)

\* Mutant: an N/A judgement is regenerated like an unknown slot.
ShouldPreserve_KnownOnly(s, n) == n.status = "Known"

ShouldPreserve(s, n) ==
    \/ n.status \in {"Known", "N/A"}
    \/ n.status = "Optionality" /\ "set" \in {n.value.current, n.value.future}
    \/ n.status = "Inactive" /\ s \notin EventDriven

\* Mutant: the template's policy and weight stay next to the kept status.
Induced_Template(s, status) == [policy |-> Template(s).policy, weight |-> Template(s).weight]

\* _apply_status_induced_fields: policy and weight follow the kept status.
Induced(s, status) ==
    CASE status \in {"N/A", "Inactive"} -> [policy |-> status, weight |-> 0]
      [] status = "Optionality"         -> [policy |-> status, weight |-> Template(s).weight]
      [] OTHER                          -> [policy |-> Template(s).policy, weight |-> Template(s).weight]

Kept(s, n) ==
    [status |-> n.status, value |-> n.value, reason |-> n.reason, web |-> n.web,
     policy |-> Induced(s, n.status).policy, weight |-> Induced(s, n.status).weight]

\* With force the existing file is not looked at; an empty one has no nodes.
Merge(existing, force) ==
    IF force \/ existing.state # "there"
    THEN Generated
    ELSE There([s \in Slots |-> IF ShouldPreserve(s, existing.nodes[s])
                                THEN Kept(s, existing.nodes[s])
                                ELSE Template(s)])

-----------------------------------------------------------------------------
(* apply_patch: the whitelisted keys of the entries that name a slot, each *)
(* if it is there.  missing_policy and active_weight are not among them.   *)

FillOf(entry, fill) ==
    [fill |-> fill, current |-> entry.current, future |-> entry.future, shape |-> entry.shape]

PatchedNode(n, entry, fill) ==
    [n EXCEPT !.status = IF "data_status" \in entry.keys THEN entry.status ELSE @,
              !.value  = IF "value" \in entry.keys THEN FillOf(entry, fill) ELSE @,
              !.web    = IF "evidence_sources" \in entry.keys THEN entry.web ELSE @,
              !.reason = IF "missing_reason" \in entry.keys THEN entry.reason ELSE @]

Patched(nodes, s, entry, fill) == [nodes EXCEPT ![s] = PatchedNode(nodes[s], entry, fill)]

Says(entry, status) == "data_status" \in entry.keys /\ entry.status = status

\* The shape of the value an entry brings.
ShapeOf(entry) == IF "value" \in entry.keys THEN entry.shape ELSE "none"

\* validate_overlay_node: of the entries themselves, those that say Known and the
\* filled ones that say Optionality.  validate_value: no schema, no errors; a
\* missing value, a missing or mistyped key and (in strict mode) an unknown one
\* are errors.
SchemaErrors(s, entry) ==
    /\ s \in Schemas
    /\ \/ Says(entry, "Known") /\ ShapeOf(entry) # "fits"
       \/ Says(entry, "Optionality") /\ ShapeOf(entry) = "odd"

-----------------------------------------------------------------------------
(* verify_overlay_closed_loop.py                                           *)

\* get_model_tier: a slot that is not registered is closed-loop.
ClosedLoop(s) == s \notin WebTier

\* scan_node: web evidence is an error outside the web tier.
Violates(s, n) == ClosedLoop(s) /\ n.web

\* _demote_node: the value stays, and so does the weight.
Demoted(n) ==
    [n EXCEPT !.status = "Unknown", !.web = FALSE,
              !.policy = IF n.status = "Unknown" THEN @ ELSE "Unknown",
              !.reason = @ \/ n.status # "Unknown"]

Audited(content) ==
    IF content.state # "there" THEN content
    ELSE There([s \in Slots |-> IF Violates(s, content.nodes[s]) THEN Demoted(content.nodes[s])
                                ELSE content.nodes[s]])

-----------------------------------------------------------------------------
(* validate_stock_overlay                                                  *)

NodeErrors(s, n) ==
    {e \in {"required", "reason", "na_policy", "unsplit"} :
        CASE e = "required"  -> n.status = "Unknown" /\ Level[s] = "required"
          [] e = "reason"    -> n.status = "Unknown" /\ Level[s] = "conditional_required" /\ ~n.reason
          [] e = "na_policy" -> n.status = "N/A" /\ n.policy # "N/A"
          [] e = "unsplit"   -> n.status = "Optionality" /\ "absent" \in {n.value.current, n.value.future}}

Valid(content) ==
    /\ content.state = "there"
    /\ \A s \in Slots : NodeErrors(s, content.nodes[s]) = {}

\* _alerts_for_overlay of a valid overlay: unknown slots, and the warning about
\* an inactive one that still has weight.
Alerts(content) ==
    LET n == content.nodes
    IN  [unknown |-> {s \in Slots : n[s].status = "Unknown" /\ Level[s] = "conditional_required"},
         weighted |-> {s \in Slots : n[s].status = "Inactive" /\ n[s].weight > 0}]

NoAlerts == [unknown |-> {}, weighted |-> {}]

=============================================================================
