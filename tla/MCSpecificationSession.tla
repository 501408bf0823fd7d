----------------------- MODULE MCSpecificationSession -----------------------
(* One instance of SpecificationSession for TLC. *)
EXTENDS SpecificationSession

MCFeatures == {1, 2}
MCFixes    == {3, 4}
\* A run takes every step with a feature, and plans a fix.
MCTakes    == MCFeatures \X Steps \cup MCFixes \X {"plan"}
AllFronts  == {"session", "brainstorm", "feature-validation"}

\* Two spellings of one dimension, which the starter list does not have.
MCNames     == {"backups", "Backups"}
MCFolded    == [n \in MCNames |-> "backups"]
MCStarter   == {}
MCAuthors   == {"Doe, Jo", "Doe,Jo"}
MCIllegible == {"Doe,Jo"}

MCSignalFiles == <<"package.json", "go.mod">>
MCContents == {1, 2}
MCDeclares ==
  [file \in Files |-> [c \in MCContents |->
     IF file = "go.mod" THEN {"languages"} ELSE {"name", "languages"}]]
MCGathered == {"languages"}
MCLayout   == {"sourceRoots"}
MCFields   == {"name", "languages", "sourceRoots", "purpose"}
MCGuesses  == {<<"guess", 1>>, <<"guess", 2>>}
\* The second package.json names the project "_private"; the first guess takes two lines, the
\* second begins with an underscore.
MCUnreadable == {{<<"package.json", 2>>}, {<<"guess", 2>>}}
MCBroken     == {{<<"guess", 1>>}}

Absent == [i \in Items |-> Blank("absent")]
UnderWay == [Absent EXCEPT ![1] = Validated(Formalized)]
Stuck ==
  [ForBlocked(Validated(Formalized), Profile(Formalized, "other", "human", "plan"), "blocked")
     EXCEPT !.ack = TRUE]

\* An empty repository, a request nobody specified, an invalidated specification beside one
\* awaiting validation, a feature under way, two blocked ones.
MCSituations ==
  {[uses |-> {"talk", "specify", "validate"}, docs |-> d] :
     d \in {Absent, [Absent EXCEPT ![1] = Blank("request_pending")],
           [Absent EXCEPT ![1] = Blank("formalization_pending"), ![2] = Formalized]}}
  \cup {[uses |-> u, docs |-> UnderWay] :
          u \in {{"recover", "report", "loop", "elsewhere"}, {"recover", "report", "loop"},
                 {"recover", "loop", "elsewhere", "specify", "validate"}}}
  \cup {[uses |-> {"recover", "report"}, docs |-> [Absent EXCEPT ![1] = Stuck, ![2] = Stuck]],
        [uses |-> {"checklist", "elsewhere"}, docs |-> Absent],
        [uses |-> {"facts", "elsewhere"}, docs |-> Absent]}
=============================================================================
