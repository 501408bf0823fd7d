------------------------------ MODULE Dimensions ------------------------------
(***************************************************************************)
(* The coverage checklist a specification session works against:          *)
(* DIMENSIONS.md as read, decided on and written back by                   *)
(* state/dimensions.ts.  A dimension is what its section says: a state, the*)
(* items that cover it, and the log of decisions taken about it.  Wording  *)
(* and dates are left out.  Who decided, and whether the reason fits on one*)
(* line, are kept: on them it depends whether a decision is read back.     *)
(***************************************************************************)
EXTENDS Naturals, SequencesExt

CONSTANTS
  Names,     \* names a person or an agent may give a dimension
  Folded,    \* Folded[n]: what n is in lower case
  Starter,   \* the ones STARTER_DIMENSIONS lists
  Authors,   \* who decides: `git config user.name` in the session, `human` elsewhere
  Illegible  \* the authors a decision line is not read back with: a comma stands in their
             \* name, and no space after it

ASSUME DimensionsAssumption ==
  Starter \subseteq Names /\ Illegible \subseteq Authors /\ DOMAIN Folded = Names

DimensionStates == {"unlisted", "uncovered", "covered", "out_of_scope"}

\* A name with no section in the document.
Unlisted == [state |-> "unlisted", coveredBy |-> {}, decisions |-> <<>>]

\* `oneLine` says the reason has no line break in it; most are typed or generated as one
\* line.
Decision(state, item, by) == [state |-> state, item |-> item, by |-> by, oneLine |-> TRUE]

\* readDimensions when there is no document yet.
StarterDimensions ==
  [n \in Names |-> [Unlisted EXCEPT !.state = IF n \in Starter THEN "uncovered" ELSE @]]

\* A decision line is recognised when its author and date close it: "Doe, Jo" is split at
\* the first comma and written back as it was, "Doe,Jo" is not recognised, and neither is
\* either half of a line that a reason broke in two.
ReadBack(d) == d.by \notin Illegible /\ d.oneLine

\* The decision lines read back, one after another.
Legible(log) ==
  LET read[k \in 0..Len(log)] ==
        IF k = 0 THEN <<>>
        ELSE IF ReadBack(log[k]) THEN Append(read[k - 1], log[k]) ELSE read[k - 1]
  IN read[Len(log)]

\* What parseDimensionsDocument makes of a document renderDimensionsDocument wrote.
parseDimensionsDocument(ds) == [n \in Names |-> [ds[n] EXCEPT !.decisions = Legible(@)]]

listed(ds) == {n \in Names : ds[n].state # "unlisted"}

uncovered(ds) == {n \in Names : ds[n].state = "uncovered"}

\* Seeded fault: the latest decision replaces the earlier ones.
DecideOverwriting(ds, n, state, by) ==
  [ds EXCEPT ![n] = [@ EXCEPT !.state = state, !.decisions = <<Decision(state, 0, by)>>]]

\* A person's decision about one dimension: appended, and listing a name nobody had listed.
decideDimension(ds, n, state, by) ==
  [ds EXCEPT ![n].state = state, ![n].decisions = Append(@, Decision(state, 0, by))]

\* Additive: a dimension may be covered by several items, and an item that already covers
\* it changes nothing, whatever its state is now.
markCovered(ds, n, i, by) ==
  IF i \in ds[n].coveredBy THEN ds
  ELSE [ds EXCEPT ![n] = [state |-> "covered", coveredBy |-> @.coveredBy \cup {i},
                          decisions |-> Append(@.decisions, Decision("covered", i, by))]]

\* Every name in ns, one write after another; which comes first does not matter.
MarkAllCovered(ds, ns, i, by) ==
  [n \in Names |-> IF n \in ns THEN markCovered(ds, n, i, by)[n] ELSE ds[n]]

\* A dimension the agent noticed and a person accepted joins the list as uncovered, unless
\* the list has its name in some case.  The reason is the agent's, of one line or several.
proposeDimension(ds, n, by, oneLine) ==
  IF \E m \in listed(ds) : Folded[m] = Folded[n] THEN ds
  ELSE [ds EXCEPT ![n] =
         [state |-> "uncovered", coveredBy |-> {},
          decisions |-> <<[Decision("uncovered", 0, by) EXCEPT !.oneLine = oneLine]>>]]
=============================================================================
