----------------------------- MODULE ProjectFacts -----------------------------
(***************************************************************************)
(* What CompassRose knows about a repository and how it knows it:          *)
(* detection from the repository's own files (project/detectProject.ts),   *)
(* and PROJECT_FACTS.md, where facts are merged, guessed and confirmed     *)
(* (project/projectFacts.ts).                                              *)
(***************************************************************************)
EXTENDS Naturals, Sequences

CONSTANTS
  SignalFiles,  \* the files of SIGNAL_ROWS, in order: a sequence of distinct names
  Contents,     \* contents a file may have, positive numbers; 0 is no file
  Declares,     \* Declares[file][contents]: the fields the file settles by itself
  Gathered,     \* fields collected from every file present: languages, scripts, sources
  Layout,       \* fields conventional directories settle when no file does
  Fields,       \* every field of a ProjectFacts, `name` and `purpose` among them
  Unreadable,   \* values with no line to read back: empty, or a line of theirs begins with _
  Broken        \* values read back as another: several lines, a comma inside a list's entry

Files == {SignalFiles[k] : k \in 1..Len(SignalFiles)}

ASSUME FactsAssumption ==
  /\ {"name", "purpose"} \subseteq Fields /\ Gathered \cup Layout \subseteq Fields
  /\ Contents \subseteq Nat \ {0}
  /\ {} \notin Unreadable \cup Broken
  /\ Declares \in [Files -> [Contents -> SUBSET (Fields \ {"purpose"})]]

\* The repository as detection sees it; `layout` says the conventional directories exist.
Trees == [files : [Files -> Contents \cup {0}], layout : BOOLEAN]

\* A fact's provenance, ranked as PROVENANCE_RANK does; `none` is a field not established.
Rank(kind) ==
  CASE kind = "none" -> 0 [] kind = "inferred" -> 1 [] kind = "detected" -> 2 [] OTHER -> 3

\* `whole` says the value is recorded as it was found, not as a reading broke it.
NotEstablished == [kind |-> "none", value |-> {}, whole |-> TRUE]

EMPTY_PROJECT_FACTS == [f \in Fields |-> NotEstablished]

\* What is read back of what renderProjectFactsDocument wrote.  A section whose provenance
\* line is not found is dropped, and the first line of a value stands for it.
parseProjectFactsDocument(recorded) ==
  [f \in Fields |->
     IF recorded[f].value \in Unreadable THEN NotEstablished
     ELSE [recorded[f] EXCEPT !.whole = @ /\ recorded[f].value \notin Broken]]

detectedFact(value) == [kind |-> "detected", value |-> value, whole |-> TRUE]

\* The rows whose file is present and declares field f.
Declaring(tree, f) ==
  {k \in 1..Len(SignalFiles) :
     LET file == SignalFiles[k]
     IN  tree.files[file] # 0 /\ f \in Declares[file][tree.files[file]]}

First(ks) == CHOOSE k \in ks : \A j \in ks : k <= j

Reading(tree, k) == <<SignalFiles[k], tree.files[SignalFiles[k]]>>

\* A gathered field is the union over its files, any other what the first file says; then
\* come the conventional directories; `name` falls back to the repository's own directory;
\* no file states a purpose.
detectProjectFacts(tree) ==
  [f \in Fields |->
     LET ks == Declaring(tree, f)
     IN  CASE ks # {} /\ f \in Gathered    -> detectedFact({Reading(tree, k) : k \in ks})
           [] ks # {} /\ f \notin Gathered -> detectedFact({Reading(tree, First(ks))})
           [] ks = {} /\ (f = "name" \/ (f \in Layout /\ tree.layout))
                                           -> detectedFact({<<"directory", 0>>})
           [] OTHER                        -> NotEstablished]

outranks(kind, other) == Rank(kind) > Rank(other)

\* Seeded fault: what was read last wins, whoever vouched for the earlier value.
MergeLatest(recorded, detected) ==
  [f \in Fields |-> IF detected[f].kind = "none" THEN recorded[f] ELSE detected[f]]

\* What was confirmed stands; what was detected is replaced by what is detected now, and
\* kept when nothing is.
mergeDetectedFacts(recorded, detected) ==
  [f \in Fields |->
     IF \/ detected[f].kind = "none"
        \/ recorded[f].kind = "confirmed"
        \/ ~outranks(detected[f].kind, recorded[f].kind) /\ detected[f].kind # recorded[f].kind
     THEN recorded[f]
     ELSE detected[f]]

\* An inference fills the purpose only where nothing better is recorded.
TakesInference(recorded) == recorded["purpose"].kind \in {"none", "inferred"}

WithInferredPurpose(recorded, guess) ==
  [recorded EXCEPT !["purpose"] = [kind |-> "inferred", value |-> {guess}, whole |-> TRUE]]

unconfirmedProjectFacts(recorded) ==
  {f \in Fields : recorded[f].kind \in {"detected", "inferred"}}

\* What is recorded of f becomes a person's word; where nothing is, it is refused.
confirmFact(recorded, f) ==
  IF recorded[f].kind = "none" THEN recorded ELSE [recorded EXCEPT ![f].kind = "confirmed"]
=============================================================================
