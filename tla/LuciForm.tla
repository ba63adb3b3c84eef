------------------------------- MODULE LuciForm -------------------------------
(***************************************************************************)
(* What LuCI's form.js does with the options of a section, as the views    *)
(* rely on it.  A table maps every option to its dependencies: a set of    *)
(* alternatives, each a function from options to the values they must      *)
(* have; no alternative at all means that the option is always there.      *)
(***************************************************************************)
EXTENDS Naturals, Sequences, FiniteSets

Always == {}
\* o.depends(k, v) for one of the values V, and o.depends({k: .., l: ..}).
On(k, V) == [x \in {k} |-> V]
On2(k, V, l, W) == [x \in {k, l} |-> IF x = k THEN V ELSE W]
\* Several options with the same dependencies.
Each(options, alternatives) == [o \in options |-> alternatives]
\* Two tables as one; what both have is as in the first.
t ++ u == [o \in DOMAIN t \cup DOMAIN u |-> IF o \in DOMAIN t THEN t[o] ELSE u[o]]

\* What a dependency sees of an option that is hidden, or that the form does not have.
Null == "null"

\* What a look at the options finds active when A were so far: those one alternative of
\* which holds; a hidden option has the value Null there.
Look(table, v, A) ==
  {o \in DOMAIN table :
     \/ table[o] = Always
     \/ \E d \in table[o] : \A k \in DOMAIN d : (IF k \in A THEN v[k] ELSE Null) \in d[k]}

\* The form looks again as long as something changes: six times are enough for the
\* longest chain (type, TLS, ACME, its challenge, the provider, and the provider's key).
Active(table, v) ==
  LET again(A) == Look(table, v, A)
  IN  again(again(again(again(again(again({}))))))

\* Saving a section writes its active options and removes the others; an option
\* without a value is removed too.
Saved(table, v) ==
  LET active == Active(table, v) IN [o \in DOMAIN table |-> IF o \in active THEN v[o] ELSE ""]
===============================================================================
