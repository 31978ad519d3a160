--------------------------- MODULE MCCycleControl ---------------------------
(***************************************************************************)
(* The control rows of a cycle and the rows audit-eval keeps about it, for *)
(* TLC: two cycles compete for the same candidates; bundles, the daily     *)
(* hook and a backfill write about one published cycle.  The two share no  *)
(* state, so one behaviour moves one of them: side says which.             *)
(***************************************************************************)
EXTENDS CycleControl, AuditRetro, TLC

VARIABLE side

AllOrFirst == {1..MaxSeq, {1}}

SessionSymmetry == Permutations(Sessions)

-----------------------------------------------------------------------------
(* Audit and retro: two objects of a cycle, a bundle that conflicts with the *)
(* first one and one that doubles its replay row under another manifest.     *)

AuditRow(id, o, seed) == [id |-> id, cycle |-> 0, object |-> o, seed |-> seed, marked |-> FALSE]
ReplayRow(id, o, as) ==
    [id |-> id, cycle |-> 0, manifest |-> 0, object |-> o, audits |-> as, refs |-> (o :> o), graph |-> FALSE, marked |-> FALSE]
MCBundles ==
    {[manifest |-> 0, audits |-> {AuditRow(1, 1, 2)}, replays |-> {ReplayRow(1, 1, {1})}],
     [manifest |-> 0, audits |-> {AuditRow(1, 1, 3), AuditRow(2, 2, 1)},
      replays |-> {[ReplayRow(2, 2, {1, 2}) EXCEPT !.graph = TRUE]}],
     [manifest |-> 1, audits |-> {AuditRow(3, 1, 2)}, replays |-> {[ReplayRow(3, 1, {3}) EXCEPT !.manifest = 1]}]}
MCManifestOf == (0 :> <<1, 2>>) @@ (1 :> <<1>>)
MCTargets == {<<0, 1>>, <<0, 2>>}
Ask(ids, os, hs, gs) == [cycle |-> 0, ids |-> ids, objects |-> os, horizons |-> hs, gateways |-> gs]
MCHookRequests ==
    {Ask({}, {}, {1}, Gateways), Ask({1}, {1}, {1, 5}, Gateways \ {"storage"})}
MCBackfillRequests == {[cycle |-> 0, object |-> 1, horizons |-> {1}]}

-----------------------------------------------------------------------------
CycleInit == side \in {"control", "retro"} /\ Init /\ RetroInit

CycleNext ==
    /\ UNCHANGED side
    /\ \/ side = "control" /\ Next /\ UNCHANGED retroVars
       \/ side = "retro" /\ RetroNext /\ UNCHANGED vars

CycleSpec == CycleInit /\ [][CycleNext]_<<side, vars, retroVars>>
=============================================================================
