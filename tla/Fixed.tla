------------------------------- MODULE Fixed -------------------------------
(***************************************************************************)
(* Fixed-point arithmetic for the scoring modules.  The code computes with *)
(* floats; the models carry scores, weights, confidences and fractions in  *)
(* thousandths and round every product and quotient down.  Payloads of     *)
(* the store are functions from field names to values; a field that is     *)
(* absent is one that dict.get would return None for.                      *)
(***************************************************************************)
EXTENDS Integers, Sequences, FiniteSets

One == 1000

Clip(x, lo, hi) == IF x < lo THEN lo ELSE IF x > hi THEN hi ELSE x
Magnitude(x) == IF x < 0 THEN -x ELSE x
Times(a, b) == (a * b) \div One
Least(S) == CHOOSE x \in S : \A y \in S : x <= y
Greatest(S) == CHOOSE x \in S : \A y \in S : y <= x

NoFields == [f \in {} |-> 0]
With(p, f, v) == [g \in DOMAIN p \cup {f} |-> IF g = f THEN v ELSE p[g]]

\* p.get(f), d where it is None.
Get(p, f, d) == IF f \in DOMAIN p THEN p[f] ELSE d

\* p.get(f1) or p.get(f2) or ...: the first field that is neither absent nor
\* zero, else the last one, and d where that is absent.
GetOr(p, fs, d) ==
    LET set == {i \in DOMAIN fs : fs[i] \in DOMAIN p /\ p[fs[i]] # 0}
    IN  IF set # {} THEN p[fs[Least(set)]] ELSE Get(p, fs[Len(fs)], d)

\* The first name whose cut lies below x, the last name where there is none.
Band(x, cuts, names) ==
    LET hit == {i \in DOMAIN cuts : x > cuts[i]}
    IN  IF hit = {} THEN names[Len(names)] ELSE names[Least(hit)]

\* The sum of f[x] over the set S.
SumOver(S, f) ==
    LET sum[T \in SUBSET S] ==
            IF T = {} THEN 0
            ELSE LET x == CHOOSE x \in T : TRUE IN f[x] + sum[T \ {x}]
    IN  sum[S]
=============================================================================
