----------------------------- MODULE SourceRows -----------------------------
(***************************************************************************)
(* What the four data sources of mvp20/sources have in common.             *)
(*                                                                         *)
(* A world w is what the services would say during one collection tick:    *)
(*   w.ans[e]  how endpoint e answers: "rows", "empty", "denied" (no       *)
(*             permission), "fails" (the call fails) or "garbled" (it      *)
(*             answers something that cannot be decoded);                  *)
(*   w.has     the facts its rows carry, pairs <<endpoint, fact>>: a column*)
(*             that is present and not zero, a comparable earlier period,  *)
(*             or a threshold that is passed.                              *)
(* The numbers behind a fact are left out.  Records of an endpoint are the *)
(* set of its facts, with "rows" in it; no usable answer is the empty set. *)
(* A row of the batch has a subject (an A share, a US stock, a market or an*)
(* industry sentinel), a data point, a status, the endpoints its source    *)
(* label names, and those of the others whose records went into its value: *)
(* the value is another one without them.                                  *)
(***************************************************************************)
EXTENDS Naturals, FiniteSets

\* How an endpoint may answer.
Answers == {"rows", "empty", "denied", "fails", "garbled"}

Records(w, e) ==
  IF w.ans[e] = "rows" THEN {"rows"} \cup {f[2] : f \in {g \in w.has : g[1] = e}} ELSE {}

\* The call returned, with rows or without.
Answered(w, e) == w.ans[e] \in {"rows", "empty"}

Row(subject, dp, status, src) ==
  [subject |-> subject, dp |-> dp, status |-> status, src |-> src, aside |-> {}]

\* The value of a row is made with records of e, if there are any of use.
Using(row, e, used) == [row EXCEPT !.aside = IF used THEN {e} ELSE {}]

Key(row) == <<row.subject, row.dp>>

\* A derived row is written in either case: Known when the signal can be
\* computed (or fires), Inactive otherwise.
Signal(subject, dp, fires, src) == Row(subject, dp, IF fires THEN "Known" ELSE "Inactive", src)

\* One Known row per line of the table whose columns the records carry; a line
\* is <<data point, alternatives>>, each alternative a set of columns.
Rows(subject, recs, table, src) ==
  {Row(subject, line[1], "Known", src) :
     line \in {l \in table : "rows" \in recs /\ \E need \in l[2] : need \subseteq recs}}

\* The hot store keeps one row per key, the last one written.
Upsert(rows, batch) ==
  LET keys == {Key(q) : q \in batch} IN {q \in rows : Key(q) \notin keys} \cup batch
=============================================================================
