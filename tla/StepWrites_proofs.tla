-------------------------- MODULE StepWrites_proofs --------------------------
(***************************************************************************)
(* What every prefix of a step's writes leaves true, for any number of     *)
(* requests, tasks, corrections, edits and mishaps.                        *)
(*                                                                         *)
(* The argument is about one write at a time.  DiskOk says what a disk     *)
(* must be for a run to be started on it; a write keeps it under a         *)
(* condition that the order of the handler's writes provides; a step is a  *)
(* sequence of disks that are all DiskOk, so that a kill anywhere in it    *)
(* leaves one.  While a gate runs on a clean baseline the disk meant is    *)
(* the one that popping the stash will restore.                            *)
(***************************************************************************)
EXTENDS StepWrites, Collections_proofs

(***************************************************************************)
(* The invariant.                                                          *)
(***************************************************************************)
Ids == TaskIds \cup {NoTask}

\* A state document any prefix of any step leaves: pointers go with the lifecycle state, and
\* what is suspended is what was worked on.
IsSound(s) ==
  /\ {s.task, s.corr, s.from.task} \subseteq Ids /\ s.from.corr = NoTask
  /\ s.lc \notin Failed \cup {"blocked"} => s.from = NoTarget
  /\ s.lc # "correction_pending" => s.corr = NoTask
  /\ s.lc = "correction_pending" =>
       s.task < s.corr /\ primaryTaskAnchor(s.corr) = primaryTaskAnchor(s.task)
  /\ s.lc \in Executing \cup Failed \cup {"correction_pending"} => s.task # NoTask
  /\ s.lc \in Planning \cup PendingSpecification \cup {"absent", "completed"} => s.task = NoTask
  /\ s.from.lc \in {"none", "blocked"} \cup Planning \cup Executing
  /\ s.from.task = IF s.from.lc = "none" THEN NoTask ELSE s.task
  /\ s.from.lc \in Planning => s.task = NoTask
  /\ s.from.lc \in Executing => s.task # NoTask

SoundDocuments == {s \in StateDocuments : IsSound(s)}
SoundTrees == [state : [Items -> SoundDocuments], docs : [Items -> SUBSET TaskIds],
               project : [item : Items, lc : Lifecycles], code : SUBSET Edits]
Disks == [tree : SoundTrees, head : SoundTrees, stash : Seq(SoundTrees), arts : Artifacts]

\* The task a document waits for a review of, or suspends such a wait for.
InReview(s) ==
  {t \in TaskIds : \/ s.lc = "review_pending" /\ s.task = t
                   \/ s.from.lc = "review_pending" /\ s.from.task = t}

\* Changes made for one task.
Own(code, i, t) == {e \in code : e.item = i /\ e.task = t}

\* What is committed is in the worktree; a change is in its own item's area or in nobody's.
CodeOk(d) ==
  /\ d.head.code \subseteq d.tree.code
  /\ \A e \in d.tree.code : e.area \in {e.item, "elsewhere"}

\* The tasks a state document names have their documents.
Resolved(d) ==
  d.stash = <<>> => \A i \in Items : Pointers(d.tree.state[i]) \subseteq d.tree.docs[i]

\* The tasks either checkout names are allowed to touch their item.
Scoped(d) ==
  \A i \in Items : \A t \in Pointers(d.tree.state[i]) \cup Pointers(d.head.state[i]) :
    i \in d.arts.allowed[i][t]

\* What the commit names is not ahead of what the worktree has: an id taken next is new to both.
Superseded(d) ==
  \A i \in Items : \A u \in Pointers(d.head.state[i]) :
    \/ \E k \in d.tree.docs[i] : primaryTaskAnchor(k) = primaryTaskAnchor(u) /\ u <= k
    \/ u \in {d.tree.state[i].task, d.tree.state[i].corr}

\* A task to be implemented is not one the commit would have reviewed.
Unreviewed(d, i) ==
  d.tree.state[i].lc \in {"task_ready", "implementation_running", "correction_pending"} =>
    DecidedTask(d.tree.state[i]) \notin InReview(d.head.state[i])

\* A task that waits for its review passed its gates on the whole change, and what they saw
\* besides is archived.
Judged(d, T) ==
  \A i \in Items : \A t \in InReview(T.state[i]) :
    /\ d.arts.gates[i][t].result = "passed"
    /\ Own(T.code, i, t) \subseteq d.arts.gates[i][t].code
    /\ d.arts.gates[i][t].code \ Own(T.code, i, t) \subseteq d.arts.diffs[i][t]

\* A change that is not committed is archived, unless it is of an attempt under way.
Archived(d) ==
  \A e \in DirtyCode(d) :
    \/ e \in d.arts.diffs[e.item][e.task]
    \/ /\ d.tree.state[e.item].lc = "implementation_running"
       /\ d.tree.state[e.item].task = e.task

\* It was made for the task its item is at.
Current(d) ==
  \A e \in DirtyCode(d) :
    e.task = d.tree.state[e.item].task \/ d.tree.state[e.item].lc \in Planning

\* A task of the feature that was approved, for request n.
Serves(d, t, n) ==
  d.arts.source[t] = n /\ \E k \in d.arts.reviews[Feature] : primaryTaskAnchor(k) = t

\* Requests that are closed were served, and a completed feature has no other.
Served(d) ==
  d.stash = <<>> =>
    /\ \A t \in d.tree.docs[Feature] : primaryTaskAnchor(t) \in d.tree.docs[Feature]
    /\ \A n \in 1..Requests :
         /\ d.arts.outline[n] = "complete" => \E t \in d.tree.docs[Feature] : Serves(d, t, n)
         /\ d.tree.state[Feature].lc = "completed" => d.arts.outline[n] = "complete"

Consistent(d) ==
  /\ CodeOk(d) /\ Resolved(d) /\ Scoped(d) /\ Superseded(d)
  /\ Judged(d, d.tree) /\ Judged(d, d.head) /\ Archived(d) /\ Current(d) /\ Served(d)

DiskOk(d) == Consistent(d) /\ \A i \in Items : Unreviewed(d, i)

\* The disk a process works on: while a gate runs on the baseline, what a pop restores.
Live(d, p) ==
  IF p.at = "baseline"
  THEN [tree |-> Last(d.stash), head |-> d.head, stash |-> Front(d.stash), arts |-> d.arts]
  ELSE d

Processes == [at : Places, item : Items, attempt : {1, 2}, aside : SUBSET Items,
              authored : SUBSET ({"doc"} \X Items \X TaskIds)]

\* The items a process works on, and what it may find in the worktree.
WorkedOn(d, p) == IF p.at = "idle" THEN Next1(d, p.aside) ELSE {p.item}

Working == {"implementing", "gating", "baseline"}

\* What a run that works on W and set aside has made sure of: changed code is that of W's own
\* tasks, of an item set aside, or where W's task is allowed; and unless an item was set aside,
\* the documents of the others are committed.
Familiar(d, W, aside) ==
  /\ \A e \in DirtyCode(d), i \in W :
       \/ e.item = i \/ e.item \in aside
       \/ e.area \in d.arts.allowed[i][DecidedTask(d.tree.state[i])]
  /\ aside = {} => \A j \in Items \ W :
       d.tree.state[j] = d.head.state[j] /\ d.tree.docs[j] = d.head.docs[j]

ProcOk(d, p) ==
  /\ p.at \in Working =>
       /\ p.item \in Next1(d, p.aside)
       /\ d.tree.state[p.item].lc = "implementation_running"
       /\ d.tree.state[p.item].task \in d.tree.docs[p.item]
  /\ p.at \in {"gating", "baseline"} =>
       \A e \in DirtyCode(d) : e.item = p.item => e \in d.arts.diffs[e.item][e.task]
  /\ p.at # "down" => Familiar(d, WorkedOn(d, p), p.aside)

IInv ==
  /\ disk \in Disks /\ proc \in Processes
  /\ edits \in 0..MaxEdits /\ mishaps \in 0..MaxMishaps
  /\ proc.at = "baseline" => disk.stash # <<>> /\ disk.tree = disk.head
  /\ DiskOk(Live(disk, proc)) /\ ProcOk(Live(disk, proc), proc)

(***************************************************************************)
(* Task ids: an arc is a primary task and its corrections.                 *)
(***************************************************************************)

LEMMA QuotientAndRemainder ==
  ASSUME NEW m \in Nat, NEW A \in Nat \ {0}
  PROVE  m \div A \in Nat /\ m % A \in 0 .. A - 1 /\ m = A * (m \div A) + (m % A)
OBVIOUS

LEMMA RemainderUnique ==
  ASSUME NEW A \in Nat \ {0}, NEW q \in Nat, NEW r \in 0 .. A - 1
  PROVE  (A * q + r) % A = r
<1> DEFINE p == (A * q + r) \div A
           s == (A * q + r) % A
<1>0. A * q + r \in Nat BY SMT
<1>1. p \in Nat /\ s \in 0 .. A - 1 /\ A * q + r = A * p + s BY <1>0, QuotientAndRemainder
<1> SUFFICES r = s OBVIOUS
<1> HIDE DEF p, s
<1>2. CASE q = p
  <2>1. A * q = A * p /\ A * q \in Nat BY <1>2
  <2> QED BY <2>1, <1>1
<1>3. CASE q < p
  <2>1. p = q + (p - q) /\ p - q \in Nat /\ p - q >= 1 BY <1>1, <1>3
  <2>2. A * p = A * q + A * (p - q) BY <2>1
  <2>3. A * (p - q) >= A /\ A * q \in Nat /\ A * (p - q) \in Nat BY <2>1
  <2> QED BY <2>2, <2>3, <1>1
<1>4. CASE p < q
  <2>1. q = p + (q - p) /\ q - p \in Nat /\ q - p >= 1 BY <1>1, <1>4
  <2>2. A * q = A * p + A * (q - p) BY <2>1, <1>1
  <2>3. A * (q - p) >= A /\ A * p \in Nat /\ A * (q - p) \in Nat BY <2>1, <1>1
  <2> QED BY <2>2, <2>3, <1>1
<1> QED BY <1>1, <1>2, <1>3, <1>4

LEMMA TaskIdsAreNumbers ==
  /\ ArcSize \in Nat \ {0} /\ MaxTasks \in Nat /\ MaxTasks * ArcSize \in Nat
  /\ TaskIds \subseteq Nat \ {0}
BY StepWritesAssumption DEF TaskIds

\* Arcs
LEMMA AnchorOfArc ==
  ASSUME NEW t \in TaskIds
  PROVE  LET a == primaryTaskAnchor(t)
         IN  a \in TaskIds /\ a <= t /\ t <= a + ArcSize - 1 /\ primaryTaskAnchor(a) = a
<1> DEFINE A == ArcSize
           q == (t - 1) \div A
           r == (t - 1) % A
<1>0. A \in Nat \ {0} /\ t \in Nat /\ t >= 1 /\ t <= MaxTasks * A /\ MaxTasks * A \in Nat
  BY TaskIdsAreNumbers DEF TaskIds
<1>a. t - 1 \in Nat BY <1>0
<1>1. q \in Nat /\ r \in 0 .. A - 1 /\ t - 1 = A * q + r
  BY <1>0, <1>a, QuotientAndRemainder, Zenon
<1>2. A * q \in Nat BY <1>0, <1>1
<1>3. primaryTaskAnchor(t) = t - r BY DEF primaryTaskAnchor
<1> HIDE DEF q, r, A
<1>4. t - r = A * q + 1 BY <1>0, <1>1, <1>2
<1>5. A * q + 1 \in 1 .. MaxTasks * A /\ A * q + 1 <= t /\ t <= A * q + A BY <1>0, <1>1, <1>2
<1>6. (A * q + 0) % A = 0 BY <1>0, <1>1, RemainderUnique
<1>7. primaryTaskAnchor(A * q + 1) = A * q + 1
  <2>1. (A * q + 1) - 1 = A * q + 0 BY <1>2
  <2> QED BY <2>1, <1>6, <1>2 DEF primaryTaskAnchor, A
<1> QED BY <1>3, <1>4, <1>5, <1>7, <1>2, <1>0 DEF TaskIds, A

LEMMA NextInArc ==
  ASSUME NEW t \in TaskIds, t # primaryTaskAnchor(t) + ArcSize - 1
  PROVE  t + 1 \in TaskIds /\ primaryTaskAnchor(t + 1) = primaryTaskAnchor(t)
<1> DEFINE A == ArcSize
           q == (t - 1) \div A
           r == (t - 1) % A
<1>0. A \in Nat \ {0} /\ t \in Nat /\ t >= 1 /\ t <= MaxTasks * A /\ MaxTasks \in Nat
  BY TaskIdsAreNumbers DEF TaskIds
<1>a. t - 1 \in Nat BY <1>0
<1>1. q \in Nat /\ r \in 0 .. A - 1 /\ t - 1 = A * q + r
  BY <1>0, <1>a, QuotientAndRemainder, Zenon
<1>2. A * q \in Nat BY <1>0, <1>1
<1>3. primaryTaskAnchor(t) = t - r BY DEF primaryTaskAnchor
<1>4. t # t - r + A - 1 BY <1>3 DEF A
<1>5. primaryTaskAnchor(t + 1) = (t + 1) - (((t + 1) - 1) % A) BY DEF primaryTaskAnchor
<1> HIDE DEF q, r, A
<1>6. r + 1 \in 0 .. A - 1 BY <1>0, <1>1, <1>4
<1>7. (t + 1) - 1 = A * q + (r + 1) BY <1>0, <1>1, <1>2
<1>8. ((t + 1) - 1) % A = r + 1 BY <1>7, <1>6, <1>0, <1>1, RemainderUnique
<1>9. primaryTaskAnchor(t + 1) = primaryTaskAnchor(t) BY <1>5, <1>8, <1>3, <1>0, <1>1
<1>10. q < MaxTasks
  <2>1. SUFFICES ASSUME q >= MaxTasks PROVE FALSE BY <1>0, <1>1
  <2>2. q = MaxTasks + (q - MaxTasks) /\ q - MaxTasks \in Nat BY <1>0, <1>1, <2>1
  <2>3. A * q = A * MaxTasks + A * (q - MaxTasks) BY <2>2, <1>0
  <2>4. A * (q - MaxTasks) \in Nat /\ A * MaxTasks \in Nat /\ A * MaxTasks = MaxTasks * A
    BY <2>2, <1>0
  <2> QED BY <2>3, <2>4, <1>0, <1>1
<1>11. A * q + A <= MaxTasks * A
  <2>1. MaxTasks = (q + 1) + (MaxTasks - q - 1) /\ MaxTasks - q - 1 \in Nat BY <1>10, <1>0, <1>1
  <2>2. MaxTasks * A = (q + 1) * A + (MaxTasks - q - 1) * A BY <2>1, <1>0, <1>1
  <2>3. (q + 1) * A = A * q + A /\ (MaxTasks - q - 1) * A \in Nat BY <2>1, <1>0, <1>1
  <2> QED BY <2>2, <2>3, <1>2, <1>0
<1>12. t + 1 \in 1 .. MaxTasks * ArcSize BY <1>11, <1>7, <1>6, <1>2, <1>0 DEF A
<1> QED BY <1>9, <1>12 DEF TaskIds

\* The correction chosen next is new to the item, and the last of its arc.
LEMMA NextCorrectionIsNew ==
  ASSUME NEW d \in Disks, NEW i \in Items, NEW t \in TaskIds,
         NextCorrection(d, i, t) # NoTask
  PROVE  LET c == NextCorrection(d, i, t)
         IN  /\ c \in TaskIds /\ t < c /\ c \notin d.tree.docs[i]
             /\ primaryTaskAnchor(c) = primaryTaskAnchor(t)
             /\ \A k \in d.tree.docs[i] : primaryTaskAnchor(k) = primaryTaskAnchor(t) => k < c
<1> DEFINE a == primaryTaskAnchor(t)
           S == {k \in d.tree.docs[i] \cup {t} : primaryTaskAnchor(k) = a}
           m == Max(S)
<1>1. d.tree.docs[i] \subseteq TaskIds BY DEF Disks, SoundTrees
<1>2. S \subseteq TaskIds BY <1>1
<1>3. IsFiniteSet(TaskIds) BY TaskIdsAreNumbers, FS_Interval DEF TaskIds
<1>4. IsFiniteSet(S) BY <1>2, <1>3, FS_Subset
<1>5. m \in S /\ \A k \in S : k <= m BY <1>2, <1>4, MinAndMax, TaskIdsAreNumbers
<1>6. /\ a + ArcSize - 1 \notin d.tree.docs[i] \cup {t}
      /\ NextCorrection(d, i, t) = m + 1
  BY DEF NextCorrection
<1> HIDE DEF m
<1>7. m \in TaskIds /\ primaryTaskAnchor(m) = a /\ m # primaryTaskAnchor(m) + ArcSize - 1
  BY <1>2, <1>5, <1>6
<1>8. m + 1 \in TaskIds /\ primaryTaskAnchor(m + 1) = a BY <1>7, NextInArc
<1>9. ASSUME NEW k \in S PROVE k < m + 1
  <2>1. k <= m /\ k \in TaskIds BY <1>2, <1>5
  <2> QED BY <2>1, <1>7, TaskIdsAreNumbers
<1>10. m + 1 \notin d.tree.docs[i]
  <2>1. SUFFICES ASSUME m + 1 \in d.tree.docs[i] PROVE FALSE OBVIOUS
  <2>2. m + 1 \in S BY <2>1, <1>8
  <2> QED BY <2>2, <1>9, <1>7, TaskIdsAreNumbers
<1> QED BY <1>6, <1>8, <1>9, <1>10

\* A task planned next is a primary one, of an arc of which no document is there.
LEMMA UnusedIsNew ==
  ASSUME NEW d \in Disks, NEW i \in Items, Unused(d, i) # {}
  PROVE  LET t == Min(Unused(d, i))
         IN  /\ t \in TaskIds /\ primaryTaskAnchor(t) = t
             /\ \A k \in d.tree.docs[i] : primaryTaskAnchor(k) # t
             /\ t \notin d.tree.docs[i]
<1>1. Unused(d, i) \subseteq TaskIds BY DEF Unused, Primaries
<1>2. IsFiniteSet(TaskIds) BY TaskIdsAreNumbers, FS_Interval DEF TaskIds
<1>3. Min(Unused(d, i)) \in Unused(d, i)
  BY <1>1, <1>2, FS_Subset, MinAndMax, TaskIdsAreNumbers
<1> DEFINE t == Min(Unused(d, i))
<1> HIDE DEF t
<1>4. t \in Unused(d, i) BY <1>3 DEF t
<1>5. t \in TaskIds /\ primaryTaskAnchor(t) = t BY <1>4 DEF Unused, Primaries
<1>6. \A k \in d.tree.docs[i] : primaryTaskAnchor(k) # t BY <1>4 DEF Unused
<1> QED BY <1>5, <1>6 DEF t

\* The request offered next is one that is not closed, and none is offered only when all are.
LEMMA NextRequestIsOpen ==
  ASSUME NEW d \in Disks
  PROVE  LET n == selectNextTaskRequest(d)
         IN  /\ n \in 0..Requests
             /\ n # 0 => d.arts.outline[n] # "complete"
             /\ n = 0 => \A m \in 1..Requests : d.arts.outline[m] = "complete"
<1> DEFINE open == {n \in 1..Requests : d.arts.outline[n] # "complete"}
<1>0. Requests \in Nat \ {0} BY StepWritesAssumption
<1>a. IsFiniteSet(1..Requests) /\ open \subseteq 1..Requests BY <1>0, FS_Interval
<1>1. IsFiniteSet(open) /\ open \in SUBSET Nat
  <2> HIDE DEF open
  <2>1. IsFiniteSet(open) BY <1>a, FS_Subset
  <2>2. open \in SUBSET Nat BY <1>a, <1>0
  <2> QED BY <2>1, <2>2
<1>2. open # {} => Min(open) \in open
  <2> HIDE DEF open
  <2> QED BY <1>1, MinAndMax
<1>3. selectNextTaskRequest(d) = IF open = {} THEN 0 ELSE Min(open)
  BY DEF selectNextTaskRequest
<1>4. CASE open = {} BY <1>0, <1>3, <1>4
<1>5. CASE open # {}
  <2> DEFINE n == Min(open)
  <2>1. n \in open /\ selectNextTaskRequest(d) = n BY <1>2, <1>3, <1>5
  <2> HIDE DEF n
  <2>2. n \in 1..Requests /\ d.arts.outline[n] # "complete" /\ n # 0 BY <2>1
  <2> QED BY <2>1, <2>2, <1>0
<1> QED BY <1>4, <1>5

(***************************************************************************)
(* State documents: each writer leaves a sound one.                        *)
(***************************************************************************)

\* The documents an item starts with.
LEMMA FreshSound ==
  {Blank("absent"), Blank("request_pending"), Filed, Validated(Formalized)} \subseteq SoundDocuments
<1>1. ASSUME NEW lc \in {"absent", "request_pending", "task_planning_pending", "formalized"}
      PROVE  Blank(lc) \in SoundDocuments
  <2> DEFINE s == Blank(lc)
  <2>1. s \in StateDocuments
    BY <1>1 DEF Blank, StateDocuments, RestorationTargets, Lifecycles, PendingSpecification,
      Planning, Executing, Failed, NoTask, NoFix, NoTarget
  <2>2. s.lc = lc /\ s.task = NoTask /\ s.corr = NoTask /\ s.from = NoTarget
    BY DEF Blank
  <2> HIDE DEF s
  <2>3. IsSound(s)
    BY <1>1, <2>2 DEF IsSound, Ids, NoTarget, NoTask, PendingSpecification, Planning,
        Executing, Failed
  <2> QED BY <2>1, <2>3 DEF SoundDocuments, s
<1>2. ASSUME NEW s \in SoundDocuments PROVE [s EXCEPT !.val = "confirmed"] \in SoundDocuments
  BY DEF SoundDocuments, IsSound, StateDocuments
<1> QED BY <1>1, <1>2 DEF Filed, Validated, Formalized

\* A planned task is a pointer its state needs.
LEMMA PlannedSound ==
  ASSUME NEW s \in SoundDocuments, NEW t \in TaskIds
  PROVE  ForTaskPlan(s, t) \in SoundDocuments
<1> DEFINE r == ForTaskPlan(s, t)
<1>1. s \in StateDocuments /\ IsSound(s)
  BY DEF SoundDocuments
<1>2. r \in StateDocuments
  BY <1>1, TaskIdsAreNumbers
  DEF ForTaskPlan, StateDocuments, RestorationTargets, Lifecycles, PendingSpecification,
      Planning, Executing, Failed,
      NoTask, NoTarget
<1>3. /\ r.lc = "task_ready" /\ r.task = t /\ r.corr = NoTask /\ r.from = NoTarget
  BY <1>1 DEF ForTaskPlan, StateDocuments
<1> HIDE DEF r
<1>4. IsSound(r)
  BY <1>1, <1>3, TaskIdsAreNumbers
  DEF IsSound, Ids, NoTarget, NoTask, PendingSpecification, Planning, Executing, Failed
<1> QED
  BY <1>2, <1>4 DEF SoundDocuments, r

\* So is the one handed to an implementer.
LEMMA ImplementedSound ==
  ASSUME NEW s \in SoundDocuments, NEW t \in TaskIds
  PROVE  DuringImplementation(s, t) \in SoundDocuments
<1> DEFINE r == DuringImplementation(s, t)
<1>1. s \in StateDocuments /\ IsSound(s)
  BY DEF SoundDocuments
<1>2. r \in StateDocuments
  BY <1>1, TaskIdsAreNumbers
  DEF DuringImplementation, StateDocuments, RestorationTargets, Lifecycles,
      PendingSpecification, Planning, Executing, Failed,
      NoTask, NoTarget
<1>3. /\ r.lc = "implementation_running" /\ r.task = t /\ r.corr = NoTask /\ r.from = NoTarget
  BY <1>1 DEF DuringImplementation, StateDocuments
<1> HIDE DEF r
<1>4. IsSound(r)
  BY <1>1, <1>3, TaskIdsAreNumbers
  DEF IsSound, Ids, NoTarget, NoTask, PendingSpecification, Planning, Executing, Failed
<1> QED
  BY <1>2, <1>4 DEF SoundDocuments, r

\* A failed implementation suspends the task it failed at.
LEMMA FailedImplementationSound ==
  ASSUME NEW s \in SoundDocuments, s.task # NoTask
  PROVE  AfterImplementationFailure(s) \in SoundDocuments
<1> DEFINE r == AfterImplementationFailure(s)
<1>1. s \in StateDocuments /\ IsSound(s)
  BY DEF SoundDocuments
<1> DEFINE b == [kind |-> "other", recov |-> "agent", seen |-> "implementation_failed",
                 why |-> "implementation", task |-> s.task]
           target == [lc |-> "task_ready", task |-> s.task, corr |-> NoTask]
<1>b. b \in Blockers /\ target \in RestorationTargets
  BY <1>1 DEF StateDocuments, Blockers, BlockerKinds, Recoverabilities, Reasons, Lifecycles,
              Executing, Failed, RestorationTargets, NoTask
<1> HIDE DEF b, target
<1>2. r \in StateDocuments
  BY <1>1, <1>b DEF AfterImplementationFailure, StateDocuments, Lifecycles, Failed, Executing,
      NoTask, b, target
<1>3. /\ r.lc = "implementation_failed" /\ r.task = s.task /\ r.corr = NoTask
      /\ r.from = [lc |-> "task_ready", task |-> s.task, corr |-> NoTask]
  BY <1>1 DEF AfterImplementationFailure, StateDocuments
<1> HIDE DEF r
<1>4. IsSound(r)
  BY <1>1, <1>3, TaskIdsAreNumbers
  DEF IsSound, Ids, NoTarget, NoTask, PendingSpecification, Planning, Executing, Failed
<1> QED
  BY <1>2, <1>4 DEF SoundDocuments, r

\* Gates that pass leave the task for its review.
LEMMA PassedGatesSound ==
  ASSUME NEW s \in SoundDocuments, s.task # NoTask
  PROVE  AfterGatesPassed(s) \in SoundDocuments
<1> DEFINE r == AfterGatesPassed(s)
<1>1. s \in StateDocuments /\ IsSound(s)
  BY DEF SoundDocuments
<1>2. r \in StateDocuments
  BY <1>1, TaskIdsAreNumbers
  DEF AfterGatesPassed, StateDocuments, RestorationTargets, Lifecycles, PendingSpecification,
      Planning, Executing, Failed,
      NoTask, NoTarget
<1>3. /\ r.lc = "review_pending" /\ r.task = s.task /\ r.corr = NoTask /\ r.from = NoTarget
  BY <1>1 DEF AfterGatesPassed, StateDocuments
<1> HIDE DEF r
<1>4. IsSound(r)
  BY <1>1, <1>3, TaskIdsAreNumbers
  DEF IsSound, Ids, NoTarget, NoTask, PendingSpecification, Planning, Executing, Failed
<1> QED
  BY <1>2, <1>4 DEF SoundDocuments, r

\* Gates that fail suspend the implementation they judged.
LEMMA FailedGatesSound ==
  ASSUME NEW s \in SoundDocuments, s.task # NoTask
  PROVE  AfterGatesFailed(s, "agent") \in SoundDocuments
<1> DEFINE r == AfterGatesFailed(s, "agent")
<1>1. s \in StateDocuments /\ IsSound(s)
  BY DEF SoundDocuments
<1> DEFINE b == [kind |-> "other", recov |-> "agent", seen |-> "implementation_running",
                 why |-> "gates", task |-> s.task]
           target == [lc |-> "implementation_running", task |-> s.task, corr |-> NoTask]
<1>b. b \in Blockers /\ target \in RestorationTargets
  BY <1>1 DEF StateDocuments, Blockers, BlockerKinds, Recoverabilities, Reasons, Lifecycles,
              Executing, Failed, RestorationTargets, NoTask
<1> HIDE DEF b, target
<1>2. r \in StateDocuments
  BY <1>1, <1>b DEF AfterGatesFailed, StateDocuments, Lifecycles, Failed, Executing, NoTask, b,
      target
<1>3. /\ r.lc = "quality_failed" /\ r.task = s.task /\ r.corr = NoTask
      /\ r.from = [lc |-> "implementation_running", task |-> s.task, corr |-> NoTask]
  BY <1>1 DEF AfterGatesFailed, StateDocuments
<1> HIDE DEF r
<1>4. IsSound(r)
  BY <1>1, <1>3, TaskIdsAreNumbers
  DEF IsSound, Ids, NoTarget, NoTask, PendingSpecification, Planning, Executing, Failed
<1> QED
  BY <1>2, <1>4 DEF SoundDocuments, r

\* An approved review leaves no pointer.
LEMMA ApprovedSound ==
  ASSUME NEW s \in SoundDocuments
  PROVE  AfterApprovedReview(s) \in SoundDocuments
<1> DEFINE r == AfterApprovedReview(s)
<1>1. s \in StateDocuments /\ IsSound(s)
  BY DEF SoundDocuments
<1>2. r \in StateDocuments
  BY <1>1, TaskIdsAreNumbers
  DEF AfterApprovedReview, StateDocuments, RestorationTargets, Lifecycles,
      PendingSpecification, Planning, Executing, Failed,
      NoTask, NoTarget
<1>3. /\ r.lc = "formalized" /\ r.task = NoTask /\ r.corr = NoTask /\ r.from = NoTarget
  BY <1>1 DEF AfterApprovedReview, StateDocuments
<1> HIDE DEF r
<1>4. IsSound(r)
  BY <1>1, <1>3, TaskIdsAreNumbers
  DEF IsSound, Ids, NoTarget, NoTask, PendingSpecification, Planning, Executing, Failed
<1> QED
  BY <1>2, <1>4 DEF SoundDocuments, r

\* Neither does the completion of an item between two tasks.
LEMMA CompletedSound ==
  ASSUME NEW s \in SoundDocuments, s.lc \in Planning
  PROVE  AfterCompletion(s) \in SoundDocuments
<1> DEFINE r == AfterCompletion(s)
<1>1. s \in StateDocuments /\ IsSound(s)
  BY DEF SoundDocuments
<1>2. r \in StateDocuments
  BY <1>1, TaskIdsAreNumbers
  DEF AfterCompletion, StateDocuments, RestorationTargets, Lifecycles, PendingSpecification,
      Planning, Executing, Failed,
      NoTask, NoTarget, NoBlocker
<1>3. /\ r.lc = "completed" /\ r.task = NoTask /\ r.corr = NoTask /\ r.from = s.from
  BY <1>1 DEF AfterCompletion, StateDocuments
<1> HIDE DEF r
<1>4. IsSound(r)
  BY <1>1, <1>3, TaskIdsAreNumbers
  DEF IsSound, Ids, NoTarget, NoTask, PendingSpecification, Planning, Executing, Failed
<1> QED
  BY <1>2, <1>4 DEF SoundDocuments, r

\* A correction follows the task it corrects in the task's arc.
LEMMA CorrectionSound ==
  ASSUME NEW s \in SoundDocuments,
         NEW c \in TaskIds, s.task # NoTask, s.task < c,
         primaryTaskAnchor(c) = primaryTaskAnchor(s.task)
  PROVE  ForCorrection(s, c) \in SoundDocuments
<1> DEFINE r == ForCorrection(s, c)
<1>1. s \in StateDocuments /\ IsSound(s)
  BY DEF SoundDocuments
<1>2. r \in StateDocuments
  BY <1>1, TaskIdsAreNumbers
  DEF ForCorrection, StateDocuments, RestorationTargets, Lifecycles, PendingSpecification,
      Planning, Executing, Failed,
      NoTask, NoTarget
<1>3. /\ r.lc = "correction_pending" /\ r.task = s.task /\ r.corr = c /\ r.from = NoTarget
  BY <1>1 DEF ForCorrection, StateDocuments
<1> HIDE DEF r
<1>4. IsSound(r)
  BY <1>1, <1>3, TaskIdsAreNumbers
  DEF IsSound, Ids, NoTarget, NoTask, PendingSpecification, Planning, Executing, Failed
<1> QED
  BY <1>2, <1>4 DEF SoundDocuments, r

\* A repair of the state keeps the task that failed.
LEMMA CorrectedStateSound ==
  ASSUME NEW s \in SoundDocuments,
         s.lc \in Failed \cup {"blocked"}, s.task # NoTask
  PROVE  AfterStateCorrection(s, s.task) \in SoundDocuments
<1> DEFINE r == AfterStateCorrection(s, s.task)
<1>1. s \in StateDocuments /\ IsSound(s)
  BY DEF SoundDocuments
<1>2. r \in StateDocuments
  BY <1>1, TaskIdsAreNumbers
  DEF AfterStateCorrection, StateDocuments, RestorationTargets, Lifecycles,
      PendingSpecification, Planning, Executing, Failed,
      NoTask, NoTarget
<1>3. /\ r.lc = s.lc /\ r.task = s.task /\ r.corr = NoTask /\ r.from = NoTarget
  BY <1>1 DEF AfterStateCorrection, StateDocuments
<1> HIDE DEF r
<1>4. IsSound(r)
  BY <1>1, <1>3, TaskIdsAreNumbers
  DEF IsSound, Ids, NoTarget, NoTask, PendingSpecification, Planning, Executing, Failed
<1> QED
  BY <1>2, <1>4 DEF SoundDocuments, r

\* The lifecycle states a block is recorded at.
Blockable == Planning \cup Executing \cup Failed \cup {"blocked"}

\* A block keeps the task, and suspends what was worked on or already suspended.
LEMMA BlockedSound ==
  ASSUME NEW s \in SoundDocuments, NEW lc \in {"blocked", "review_failed"}, NEW why \in Reasons,
         s.lc \in Blockable, lc = "review_failed" => s.task # NoTask
  PROVE  LET b == Block(s, why, lc)
         IN  /\ {b, [b EXCEPT !.ack = TRUE], [b EXCEPT !.onFix = 1]} \subseteq SoundDocuments
             /\ b.lc = lc /\ b.task = s.task /\ b.corr = NoTask
             /\ b.from.lc = IF s.from.lc # "none" THEN s.from.lc
                            ELSE forwardRestorationLifecycleState(s.lc)
<1> DEFINE r == Block(s, why, lc)
           target == preferredRestorationTarget(s)
           by == [kind |-> "other", recov |-> "agent", seen |-> s.lc, why |-> why, task |-> NoTask]
<1>1. s \in StateDocuments /\ IsSound(s)
  BY DEF SoundDocuments
<1>2. s.corr = NoTask /\ s.from.corr = NoTask /\ s.from \in RestorationTargets
  BY <1>1 DEF IsSound, Blockable, Planning, Executing, Failed, StateDocuments
<1>3. /\ target \in RestorationTargets
      /\ target.lc = IF s.from.lc # "none" THEN s.from.lc ELSE forwardRestorationLifecycleState(s.lc)
      /\ target.task = s.task /\ target.corr = NoTask
  BY <1>1, <1>2 DEF preferredRestorationTarget, forwardRestorationLifecycleState, IsSound,
    StateDocuments, RestorationTargets, Lifecycles, Executing, Failed
<1>4. by \in Blockers
  BY <1>1 DEF Blockers, BlockerKinds, Recoverabilities, StateDocuments, NoTask
<1>5. r = [s EXCEPT !.lc = lc, !.task = target.task, !.corr = target.corr,
                    !.review = IF lc = "review_failed" THEN "failed" ELSE "blocked",
                    !.by = by, !.from = target]
  BY DEF Block, ForBlocked
<1> HIDE DEF target, by
<1>6. r \in StateDocuments
  <2> HIDE DEF r
  <2>1. lc \in Lifecycles BY DEF Lifecycles, Failed
  <2>2. target.task \in Nat /\ target.corr \in Nat BY <1>3 DEF RestorationTargets
  <2> QED BY <1>1, <1>3, <1>4, <1>5, <2>1, <2>2 DEF StateDocuments
<1>7. /\ r.lc = lc /\ r.task = s.task /\ r.corr = NoTask /\ r.from = target
  <2> HIDE DEF r
  <2> QED BY <1>1, <1>3, <1>5 DEF StateDocuments
<1> HIDE DEF r
<1>8. IsSound(r)
  BY <1>1, <1>3, <1>7, TaskIdsAreNumbers
  DEF IsSound, Ids, NoTarget, NoTask, PendingSpecification, Planning, Executing, Failed,
      Blockable,
      forwardRestorationLifecycleState
<1>9. [r EXCEPT !.ack = TRUE] \in SoundDocuments
  BY <1>6, <1>8 DEF SoundDocuments, IsSound, StateDocuments
<1>10. [r EXCEPT !.onFix = 1] \in SoundDocuments
  BY <1>6, <1>8 DEF SoundDocuments, IsSound, StateDocuments
<1> QED
  BY <1>3, <1>6, <1>7, <1>8, <1>9, <1>10 DEF SoundDocuments, r

\* An acknowledged block resumes what it suspended, at the task it kept.
LEMMA AcknowledgedSound ==
  ASSUME NEW s \in SoundDocuments, s.lc = "blocked"
  PROVE  LET r == AfterHumanAcknowledged(s)
         IN  /\ r \in SoundDocuments /\ r.task = s.task /\ r.corr = NoTask /\ r.from = NoTarget
             /\ r.lc = IF s.from.lc # "none" THEN s.from.lc ELSE "blocked"
<1> DEFINE r == AfterHumanAcknowledged(s)
           target == preferredRestorationTarget(s)
<1>1. s \in StateDocuments /\ IsSound(s)
  BY DEF SoundDocuments
<1>2. /\ target \in RestorationTargets /\ target.lc \in Lifecycles
      /\ target.lc = IF s.from.lc # "none" THEN s.from.lc ELSE "blocked"
      /\ target.task = s.task /\ target.corr = NoTask
  BY <1>1 DEF preferredRestorationTarget, forwardRestorationLifecycleState, IsSound,
      StateDocuments,
    RestorationTargets, Lifecycles, PendingSpecification, Planning, Executing, Failed
<1>3. r = [[s EXCEPT !.lc = target.lc, !.task = target.task, !.corr = target.corr,
                     !.by = NoBlocker, !.from = NoTarget] EXCEPT !.ack = FALSE]
  BY DEF AfterHumanAcknowledged, Restored
<1> HIDE DEF target, r
<1>4. NoTarget \in RestorationTargets /\ NoTarget.lc = "none"
        /\ NoTarget.task = NoTask /\ NoTarget.corr = NoTask
  BY DEF NoTarget, RestorationTargets, NoTask
<1>5. r \in StateDocuments
  <2>1. target.task \in Nat /\ target.corr \in Nat BY <1>2 DEF RestorationTargets
  <2> QED BY <1>1, <1>2, <1>3, <1>4, <2>1 DEF StateDocuments
<1>6. /\ r.lc = target.lc /\ r.task = s.task /\ r.corr = NoTask /\ r.from = NoTarget
  BY <1>1, <1>2, <1>3 DEF StateDocuments
<1>7. IsSound(r)
  BY <1>1, <1>2, <1>4, <1>6, TaskIdsAreNumbers
  DEF IsSound, Ids, NoTask, PendingSpecification, Planning, Executing, Failed
<1> QED
  BY <1>2, <1>5, <1>6, <1>7 DEF SoundDocuments, r

(***************************************************************************)
(* One write each: what it changes, and when it keeps a disk as it must be.*)
(***************************************************************************)

\* e is d with another state document, and perhaps another project document.
Redocumented(d, e, i, s) ==
  /\ e \in Disks
  /\ e.head = d.head /\ e.stash = d.stash /\ e.arts = d.arts
  /\ e.tree.docs = d.tree.docs /\ e.tree.code = d.tree.code
  /\ e.tree.state[i] = s /\ \A j \in Items \ {i} : e.tree.state[j] = d.tree.state[j]

\* e is d with other artifacts.
SameCheckouts(d, e) ==
  e \in Disks /\ e.tree = d.tree /\ e.head = d.head /\ e.stash = d.stash

\* What a request's status is set to, and a gate's result.
Statuses == {"in_progress", "complete"}
Results  == {"passed", "failed", "waived"}

LEMMA StateWrite ==
  ASSUME NEW d \in Disks, NEW i \in Items, NEW s \in SoundDocuments
  PROVE  Redocumented(d, WithState(d, i, s), i, s)
BY DEF Redocumented, WithState, Disks, SoundTrees

LEMMA ProjectWrite ==
  ASSUME NEW d \in Disks, NEW i \in Items
  PROVE  Redocumented(d, WithProject(d, i), i, d.tree.state[i])
<1>1. d.tree.state[i].lc \in Lifecycles BY DEF Disks, SoundTrees, SoundDocuments, StateDocuments
<1> QED BY <1>1 DEF Redocumented, WithProject, Disks, SoundTrees

LEMMA DocumentWrite ==
  ASSUME NEW d \in Disks, NEW i \in Items, NEW t \in TaskIds
  PROVE  LET e == WithDocument(d, i, t)
         IN  /\ e \in Disks
             /\ e.head = d.head /\ e.stash = d.stash /\ e.arts = d.arts
             /\ e.tree.state = d.tree.state /\ e.tree.code = d.tree.code
             /\ e.tree.docs[i] = d.tree.docs[i] \cup {t}
             /\ \A j \in Items \ {i} : e.tree.docs[j] = d.tree.docs[j]
BY DEF WithDocument, Disks, SoundTrees

LEMMA TaskWrite ==
  ASSUME NEW d \in Disks, NEW i \in Items, NEW t \in TaskIds, NEW areas \in SUBSET Areas
  PROVE  LET e == WithTask(d, i, t, areas)
         IN  /\ SameCheckouts(d, e)
             /\ e.arts = [d.arts EXCEPT !.allowed = e.arts.allowed]
             /\ \A j \in Items, u \in TaskIds :
                  e.arts.allowed[j][u] = IF j = i /\ u = t THEN areas ELSE d.arts.allowed[j][u]
BY DEF SameCheckouts, WithTask, Disks, Artifacts

LEMMA RequestWrite ==
  ASSUME NEW d \in Disks, NEW n \in 0..Requests, NEW status \in Statuses
  PROVE  LET e == WithRequest(d, n, status)
         IN  /\ SameCheckouts(d, e)
             /\ e.arts = [d.arts EXCEPT !.outline = e.arts.outline]
             /\ \A m \in 1..Requests :
                  e.arts.outline[m] = IF m = n THEN status ELSE d.arts.outline[m]
<1>1. CASE n = 0
  <2>1. WithRequest(d, n, status) = d BY <1>1 DEF WithRequest
  <2> QED BY <2>1, <1>1 DEF SameCheckouts, Statuses, Disks, Artifacts
<1>2. CASE n # 0
  <2>1. n \in 1..Requests BY <1>2, StepWritesAssumption
  <2> DEFINE arts == [d.arts EXCEPT !.outline = [d.arts.outline EXCEPT ![n] = status]]
  <2>2. WithRequest(d, n, status) = [d EXCEPT !.arts = arts]
    BY <1>2 DEF WithRequest, Disks, Artifacts
  <2>3. /\ arts \in Artifacts /\ arts = [d.arts EXCEPT !.outline = arts.outline]
        /\ \A m \in 1..Requests : arts.outline[m] = IF m = n THEN status ELSE d.arts.outline[m]
    BY <2>1 DEF Statuses, Disks, Artifacts
  <2> HIDE DEF arts
  <2> QED BY <2>2, <2>3 DEF SameCheckouts, Statuses, Disks
<1> QED BY <1>1, <1>2

LEMMA SourceWrite ==
  ASSUME NEW d \in Disks, NEW t \in TaskIds, NEW n \in 0..Requests
  PROVE  LET e == WithSource(d, t, n)
         IN  /\ SameCheckouts(d, e)
             /\ e.arts = [d.arts EXCEPT !.source = e.arts.source]
             /\ \A u \in TaskIds \ {t} : e.arts.source[u] = d.arts.source[u]
BY DEF SameCheckouts, WithSource, Disks, Artifacts

LEMMA GatesWrite ==
  ASSUME NEW d \in Disks, NEW i \in Items, NEW t \in TaskIds,
         NEW r \in Results
  PROVE  LET e == WithGates(d, i, t, r)
         IN  /\ SameCheckouts(d, e)
             /\ e.arts = [d.arts EXCEPT !.gates = e.arts.gates]
             /\ \A j \in Items, u \in TaskIds :
                  e.arts.gates[j][u] =
                    IF j = i /\ u = t THEN [result |-> r, code |-> Own(d.tree.code, i, t)]
                    ELSE d.arts.gates[j][u]
BY DEF SameCheckouts, Results, WithGates, Disks, Artifacts, SoundTrees, Own

LEMMA ReviewWrite ==
  ASSUME NEW d \in Disks, NEW i \in Items, NEW t \in TaskIds
  PROVE  LET e == WithReview(d, i, t)
         IN  /\ SameCheckouts(d, e)
             /\ e.arts = [d.arts EXCEPT !.reviews = e.arts.reviews]
             /\ e.arts.reviews[i] = d.arts.reviews[i] \cup {t}
             /\ \A j \in Items : d.arts.reviews[j] \subseteq e.arts.reviews[j]
BY DEF SameCheckouts, WithReview, Disks, Artifacts

LEMMA AttemptWrite ==
  ASSUME NEW d \in Disks, NEW i \in Items
  PROVE  LET e == WithAttempt(d, i)
         IN  /\ SameCheckouts(d, e)
             /\ e.arts = [d.arts EXCEPT !.diagnosed = e.arts.diagnosed]
<1> DEFINE s == d.tree.state[i]
           g == Signature(BlockerOf(s))
<1>1. s.by \in Blockers \cup {NoBlocker} /\ s.lc \in Lifecycles
  BY DEF Disks, SoundTrees, SoundDocuments, StateDocuments
<1>2. g \in Signatures
  BY <1>1 DEF Signature, BlockerOf, Signatures, Blockers, BlockerKinds, Reasons, NoTask
<1> DEFINE arts == [d.arts EXCEPT !.diagnosed = [d.arts.diagnosed EXCEPT ![i] = g]]
<1>3. WithAttempt(d, i) = [d EXCEPT !.arts = arts] BY DEF WithAttempt, Disks, Artifacts
<1> HIDE DEF g
<1>4. arts \in Artifacts /\ arts = [d.arts EXCEPT !.diagnosed = arts.diagnosed]
  BY <1>2 DEF Disks, Artifacts
<1> HIDE DEF arts
<1> QED BY <1>3, <1>4 DEF SameCheckouts, Disks

LEMMA DiffWrite ==
  ASSUME NEW d \in Disks, NEW i \in Items, NEW t \in TaskIds
  PROVE  LET e == WithDiff(d, i, t)
         IN  /\ SameCheckouts(d, e)
             /\ e.arts = [d.arts EXCEPT !.diffs = e.arts.diffs]
             /\ \A j \in Items, u \in TaskIds :
                  e.arts.diffs[j][u] = IF j = i /\ u = t /\ DirtyCode(d) # {} THEN DirtyCode(d)
                                       ELSE d.arts.diffs[j][u]
<1>1. CASE DirtyCode(d) = {}
  <2>1. WithDiff(d, i, t) = d BY <1>1 DEF WithDiff
  <2> QED BY <2>1, <1>1 DEF SameCheckouts, Disks, Artifacts
<1>2. CASE DirtyCode(d) # {}
  <2> DEFINE new == DirtyCode(d)
  <2>1. new \subseteq Edits BY DEF DirtyCode, Disks, SoundTrees
  <2> DEFINE arts == [d.arts EXCEPT !.diffs =
                        [d.arts.diffs EXCEPT ![i] = [d.arts.diffs[i] EXCEPT ![t] = new]]]
  <2>2. WithDiff(d, i, t) = [d EXCEPT !.arts = arts] BY <1>2 DEF WithDiff, Disks, Artifacts
  <2> HIDE DEF new
  <2>3. /\ arts \in Artifacts /\ arts = [d.arts EXCEPT !.diffs = arts.diffs]
        /\ \A j \in Items, u \in TaskIds :
             arts.diffs[j][u] = IF j = i /\ u = t THEN new ELSE d.arts.diffs[j][u]
    BY <2>1 DEF Disks, Artifacts
  <2> HIDE DEF arts
  <2> QED BY <1>2, <2>2, <2>3 DEF SameCheckouts, Disks, new
<1> QED BY <1>1, <1>2

LEMMA DiscardWrite ==
  ASSUME NEW d \in Disks, NEW i, NEW t
  PROVE  LET e == Discard(d, i, t)
         IN  /\ e \in Disks
             /\ e.head = d.head /\ e.stash = d.stash /\ e.arts = d.arts
             /\ e.tree.docs = d.tree.docs /\ e.tree.state = d.tree.state
             /\ e.tree.code \subseteq d.tree.code
             /\ d.tree.code \cap d.head.code \subseteq e.tree.code
BY DEF Discard, Disks, SoundTrees

LEMMA CommitAllWrite ==
  ASSUME NEW d \in Disks
  PROVE  LET e == CommitAll(d)
         IN  /\ e \in Disks
             /\ e.tree = d.tree /\ e.head = d.tree /\ e.stash = d.stash /\ e.arts = d.arts
BY DEF CommitAll, Disks

LEMMA CommitOnlyWrite ==
  ASSUME NEW d \in Disks, NEW paths
  PROVE  LET e == CommitOnly(d, paths)
         IN  /\ e \in Disks
             /\ e.tree = d.tree /\ e.stash = d.stash /\ e.arts = d.arts
             /\ e.head.code = d.head.code
             /\ \A j \in Items : e.head.state[j] =
                  IF <<"state", j>> \in paths THEN d.tree.state[j] ELSE d.head.state[j]
BY DEF CommitOnly, Disks, SoundTrees

(***************************************************************************)
(* The disks a step on item w may leave, which began with the code c.      *)
(***************************************************************************)

\* Changes of item w that are gone since are archived.
Kept(c, w, d) == \A e \in c \ d.tree.code : e.item = w => e \in d.arts.diffs[e.item][e.task]

Good(c, w) == {d \in Disks : DiskOk(d) /\ Kept(c, w, d)}

\* What a sound document points at, and whose review it can be about.
LEMMA PointersOfSound ==
  ASSUME NEW s \in SoundDocuments
  PROVE  /\ Pointers(s) = {s.task, s.corr} \ {NoTask} /\ Pointers(s) \subseteq TaskIds
         /\ InReview(s) \subseteq {s.task} \ {NoTask}
         /\ s.lc \notin {"review_pending", "blocked"} \cup Failed => InReview(s) = {}
         /\ s.corr # NoTask => s.lc = "correction_pending"
<1>1. s \in StateDocuments /\ IsSound(s) BY DEF SoundDocuments
<1>2. s.from.task \in {s.task, NoTask} /\ s.from.corr = NoTask BY <1>1 DEF IsSound
<1>3. Pointers(s) = {s.task, s.corr} \ {NoTask} BY <1>2 DEF Pointers
<1>4. {s.task, s.corr} \ {NoTask} \subseteq TaskIds BY <1>1 DEF IsSound, Ids
<1>5. InReview(s) \subseteq {s.task} \ {NoTask}
  BY <1>2, TaskIdsAreNumbers DEF InReview, NoTask
<1>6. s.lc \notin {"blocked"} \cup Failed => s.from.lc # "review_pending"
  BY <1>1 DEF IsSound, NoTarget
<1>7. s.lc \notin {"review_pending", "blocked"} \cup Failed => InReview(s) = {}
  BY <1>6 DEF InReview
<1>8. s.corr # NoTask => s.lc = "correction_pending" BY <1>1 DEF IsSound
<1> QED BY <1>3, <1>4, <1>5, <1>7, <1>8

LEMMA DocumentsOfDisk ==
  ASSUME NEW d \in Disks, NEW i \in Items
  PROVE  d.tree.state[i] \in SoundDocuments /\ d.head.state[i] \in SoundDocuments
BY DEF Disks, SoundTrees

LEMMA DirtyEdits ==
  ASSUME NEW d \in Disks
  PROVE  \A e \in DirtyCode(d) :
           e \in d.tree.code /\ e \notin d.head.code /\ e.item \in Items /\ e.task \in TaskIds
BY DEF DirtyCode, Disks, SoundTrees, Edits

\* A state document is written when it may only name what is there, and leaves no change
\* behind that is not archived.
StateFits(d, i, s) ==
  /\ d.stash = <<>> => Pointers(s) \subseteq d.tree.docs[i]
  /\ \A t \in Pointers(s) : i \in d.arts.allowed[i][t]
  /\ \A u \in Pointers(d.head.state[i]) :
       \/ \E k \in d.tree.docs[i] : primaryTaskAnchor(k) = primaryTaskAnchor(u) /\ u <= k
       \/ u \in {s.task, s.corr}
  /\ \A t \in InReview(s) :
       /\ d.arts.gates[i][t].result = "passed"
       /\ Own(d.tree.code, i, t) \subseteq d.arts.gates[i][t].code
       /\ d.arts.gates[i][t].code \ Own(d.tree.code, i, t) \subseteq d.arts.diffs[i][t]
  /\ \A e \in DirtyCode(d) : e.item = i =>
       /\ \/ e \in d.arts.diffs[e.item][e.task]
          \/ s.lc = "implementation_running" /\ s.task = e.task
       /\ e.task = s.task \/ s.lc \in Planning
  /\ d.stash = <<>> /\ i = Feature /\ s.lc = "completed" =>
       \A n \in 1..Requests : d.arts.outline[n] = "complete"

\* What else it takes when the task is to be implemented.
StateNew(d, i, s) ==
  s.lc \in {"task_ready", "implementation_running", "correction_pending"} =>
    DecidedTask(s) \notin InReview(d.head.state[i])

LEMMA StateConsistent ==
  ASSUME NEW d \in Disks, Consistent(d), NEW i \in Items, NEW s \in SoundDocuments,
         StateFits(d, i, s), NEW e, Redocumented(d, e, i, s)
  PROVE  Consistent(e)
<1>1. CodeOk(e) BY DEF Redocumented, Consistent, CodeOk
<1>2. Resolved(e) BY DEF Redocumented, Consistent, Resolved, StateFits
<1>3. Scoped(e) BY DEF Redocumented, Consistent, Scoped, StateFits
<1>4. Superseded(e) BY DEF Redocumented, Consistent, Superseded, StateFits
<1>5. Judged(e, e.tree) BY DEF Redocumented, Consistent, Judged, StateFits
<1>6. Judged(e, e.head) BY DEF Redocumented, Consistent, Judged
<1>7. DirtyCode(e) = DirtyCode(d) BY DEF Redocumented, DirtyCode
<1>8. Archived(e) BY <1>7, DirtyEdits DEF Redocumented, Consistent, Archived, StateFits
<1>9. Current(e) BY <1>7, DirtyEdits DEF Redocumented, Consistent, Current, StateFits
<1>10. Served(e) BY DEF Redocumented, Consistent, Served, StateFits, Serves, Items
<1> QED BY <1>1, <1>2, <1>3, <1>4, <1>5, <1>6, <1>8, <1>9, <1>10 DEF Consistent

LEMMA StateGood ==
  ASSUME NEW c, NEW w, NEW d \in Good(c, w), NEW i \in Items, NEW s \in SoundDocuments,
         StateFits(d, i, s), StateNew(d, i, s), NEW e, Redocumented(d, e, i, s)
  PROVE  e \in Good(c, w)
<1>1. Consistent(e) BY StateConsistent DEF Good, DiskOk
<1>2. \A j \in Items : Unreviewed(e, j)
  BY DEF Redocumented, Good, DiskOk, Unreviewed, StateNew
<1>3. Kept(c, w, e) BY DEF Redocumented, Good, Kept
<1> QED BY <1>1, <1>2, <1>3 DEF Good, DiskOk, Redocumented

LEMMA ProjectGood ==
  ASSUME NEW c, NEW w, NEW d \in Good(c, w), NEW i \in Items
  PROVE  WithProject(d, i) \in Good(c, w)
<1> DEFINE e == WithProject(d, i)
<1>1. d \in Disks /\ DiskOk(d) BY DEF Good
<1>2. Redocumented(d, e, i, d.tree.state[i]) BY <1>1, ProjectWrite
<1> HIDE DEF e
<1>3. e.tree.state = d.tree.state /\ e.tree.docs = d.tree.docs /\ e.tree.code = d.tree.code
        /\ e.head = d.head /\ e.stash = d.stash /\ e.arts = d.arts
  <2>1. e.tree.state \in [Items -> SoundDocuments] /\ d.tree.state \in [Items -> SoundDocuments]
    BY <1>1, <1>2 DEF Redocumented, Disks, SoundTrees
  <2> QED BY <2>1, <1>2 DEF Redocumented
<1>4. Consistent(e)
  BY <1>1, <1>3 DEF DiskOk, Consistent, CodeOk, Resolved, Scoped, Superseded, Judged, Archived,
      Current,
    Served, Serves, DirtyCode
<1>5. \A j \in Items : Unreviewed(e, j) BY <1>1, <1>3 DEF DiskOk, Unreviewed
<1>6. Kept(c, w, e) BY <1>3 DEF Good, Kept
<1> QED BY <1>2, <1>4, <1>5, <1>6 DEF Good, DiskOk, Redocumented, e

\* The state document, then the project's.
LEMMA RecordedGood ==
  ASSUME NEW c, NEW w, NEW d \in Good(c, w), NEW i \in Items, NEW s \in SoundDocuments,
         StateFits(d, i, s), StateNew(d, i, s)
  PROVE  LET ds == Recorded(d, i, s)
         IN  /\ ds \in Seq(Good(c, w)) /\ ds # <<>>
             /\ Last(ds) \in Good(c, w) /\ Redocumented(d, Last(ds), i, s)
<1> DEFINE a == WithState(d, i, s)
           b == WithProject(a, i)
<1>1. d \in Disks BY DEF Good
<1>2. Redocumented(d, a, i, s) BY <1>1, StateWrite
<1> HIDE DEF a
<1>3. a \in Good(c, w) BY <1>2, StateGood
<1>4. a \in Disks BY <1>3 DEF Good
<1>5. b \in Good(c, w) /\ Redocumented(a, b, i, s)
  BY <1>2, <1>3, <1>4, ProjectGood, ProjectWrite DEF Redocumented
<1> HIDE DEF b
<1>6. Redocumented(d, b, i, s) BY <1>2, <1>5 DEF Redocumented
<1>7. Recorded(d, i, s) = <<a, b>> BY DEF Recorded, a, b
<1> QED BY <1>3, <1>5, <1>6, <1>7, LastOfTwo

\* A document of the feature is of an arc whose primary task has one.
LEMMA DocumentGood ==
  ASSUME NEW c, NEW w, NEW d \in Good(c, w), NEW i \in Items, NEW t \in TaskIds,
         d.stash = <<>> /\ i = Feature => primaryTaskAnchor(t) \in d.tree.docs[i] \cup {t}
  PROVE  WithDocument(d, i, t) \in Good(c, w)
<1> DEFINE e == WithDocument(d, i, t)
<1>1. d \in Disks /\ DiskOk(d) /\ Consistent(d) BY DEF Good, DiskOk
<1>2. /\ e \in Disks
      /\ e.head = d.head /\ e.stash = d.stash /\ e.arts = d.arts
      /\ e.tree.state = d.tree.state /\ e.tree.code = d.tree.code
      /\ e.tree.docs[i] = d.tree.docs[i] \cup {t}
      /\ \A j \in Items \ {i} : e.tree.docs[j] = d.tree.docs[j]
  BY <1>1, DocumentWrite
<1> HIDE DEF e
<1>3. \A j \in Items : d.tree.docs[j] \subseteq e.tree.docs[j] BY <1>2
<1>4. CodeOk(e) BY <1>1, <1>2 DEF Consistent, CodeOk
<1>5. Resolved(e) BY <1>1, <1>2, <1>3 DEF Consistent, Resolved
<1>6. Scoped(e) BY <1>1, <1>2 DEF Consistent, Scoped
<1>7. Superseded(e) BY <1>1, <1>2, <1>3 DEF Consistent, Superseded
<1>8. Judged(e, e.tree) /\ Judged(e, e.head) BY <1>1, <1>2 DEF Consistent, Judged
<1>9. Archived(e) /\ Current(e) BY <1>1, <1>2 DEF Consistent, Archived, Current, DirtyCode
<1>10. Served(e)
  <2>1. SUFFICES ASSUME d.stash = <<>> PROVE Served(e) BY <1>2 DEF Served
  <2>2. \A u \in e.tree.docs[Feature] : primaryTaskAnchor(u) \in e.tree.docs[Feature]
    BY <1>1, <1>2, <1>3, <2>1 DEF Consistent, Served, Items
  <2> QED BY <1>1, <1>2, <1>3, <2>1, <2>2 DEF Consistent, Served, Serves, Items
<1>11. \A j \in Items : Unreviewed(e, j) BY <1>1, <1>2 DEF DiskOk, Unreviewed
<1>12. Kept(c, w, e) BY <1>2 DEF Good, Kept
<1> QED
  BY <1>2, <1>4, <1>5, <1>6, <1>7, <1>8, <1>9, <1>10, <1>11, <1>12
  DEF Good, DiskOk, Consistent, e

\* An artifact of a task no state document names may allow anything.
LEMMA TaskGood ==
  ASSUME NEW c, NEW w, NEW d \in Good(c, w), NEW i \in Items, NEW t \in TaskIds,
         NEW areas \in SUBSET Areas,
         \/ i \in areas
         \/ t \notin Pointers(d.tree.state[i]) \cup Pointers(d.head.state[i])
  PROVE  WithTask(d, i, t, areas) \in Good(c, w)
<1> DEFINE e == WithTask(d, i, t, areas)
<1>1. d \in Disks /\ DiskOk(d) /\ Consistent(d) BY DEF Good, DiskOk
<1>2. /\ SameCheckouts(d, e)
      /\ e.arts = [d.arts EXCEPT !.allowed = e.arts.allowed]
      /\ \A j \in Items, u \in TaskIds :
           e.arts.allowed[j][u] = IF j = i /\ u = t THEN areas ELSE d.arts.allowed[j][u]
  BY <1>1, TaskWrite
<1> HIDE DEF e
<1>3. /\ e.arts.source = d.arts.source /\ e.arts.outline = d.arts.outline
      /\ e.arts.diffs = d.arts.diffs /\ e.arts.gates = d.arts.gates
      /\ e.arts.reviews = d.arts.reviews
  BY <1>1, <1>2 DEF Disks, Artifacts
<1>4. Scoped(e)
  <2> SUFFICES ASSUME NEW j \in Items,
                      NEW u \in Pointers(d.tree.state[j]) \cup Pointers(d.head.state[j])
               PROVE  j \in e.arts.allowed[j][u]
    BY <1>2 DEF Scoped, SameCheckouts
  <2>1. u \in TaskIds BY <1>1, DocumentsOfDisk, PointersOfSound
  <2> QED BY <1>1, <1>2, <2>1 DEF Consistent, Scoped
<1>5. Consistent(e)
  BY <1>1, <1>2, <1>3, <1>4
  DEF SameCheckouts, Consistent, CodeOk, Resolved, Superseded, Judged, Archived, Current, Served,
      Serves, DirtyCode
<1>6. \A j \in Items : Unreviewed(e, j) BY <1>1, <1>2 DEF DiskOk, Unreviewed, SameCheckouts
<1>7. Kept(c, w, e) BY <1>2, <1>3 DEF Good, Kept, SameCheckouts
<1> QED BY <1>2, <1>5, <1>6, <1>7 DEF Good, DiskOk, SameCheckouts, e

\* A request is closed when a task was approved for it, and opened while the feature is open.
LEMMA RequestGood ==
  ASSUME NEW c, NEW w, NEW d \in Good(c, w), NEW n \in 0..Requests,
         NEW status \in Statuses,
         d.stash = <<>> /\ n # 0 =>
           IF status = "complete" THEN \E t \in d.tree.docs[Feature] : Serves(d, t, n)
           ELSE d.tree.state[Feature].lc # "completed"
  PROVE  WithRequest(d, n, status) \in Good(c, w)
<1> DEFINE e == WithRequest(d, n, status)
<1>1. d \in Disks /\ DiskOk(d) /\ Consistent(d) BY DEF Good, DiskOk
<1>2. /\ SameCheckouts(d, e)
      /\ e.arts = [d.arts EXCEPT !.outline = e.arts.outline]
      /\ \A m \in 1..Requests :
           e.arts.outline[m] = IF m = n THEN status ELSE d.arts.outline[m]
  BY <1>1, RequestWrite
<1> HIDE DEF e
<1>3. /\ e.arts.source = d.arts.source /\ e.arts.allowed = d.arts.allowed
      /\ e.arts.diffs = d.arts.diffs /\ e.arts.gates = d.arts.gates
      /\ e.arts.reviews = d.arts.reviews
  BY <1>1, <1>2 DEF Disks, Artifacts
<1>4. Served(e)
  <2>1. SUFFICES ASSUME d.stash = <<>> PROVE Served(e) BY <1>2 DEF Served, SameCheckouts
  <2>2. \A t, m : Serves(e, t, m) <=> Serves(d, t, m) BY <1>3 DEF Serves
  <2>3. ASSUME NEW m \in 1..Requests
        PROVE  /\ e.arts.outline[m] = "complete" => \E t \in e.tree.docs[Feature] : Serves(e, t, m)
               /\ e.tree.state[Feature].lc = "completed" => e.arts.outline[m] = "complete"
    <3>1. CASE m = n
      BY <1>1, <1>2, <2>1, <2>2, <3>1, StepWritesAssumption DEF SameCheckouts, Consistent, Served
    <3>2. CASE m # n BY <1>1, <1>2, <2>1, <2>2, <3>2 DEF SameCheckouts, Consistent, Served
    <3> QED BY <3>1, <3>2
  <2> QED BY <1>1, <1>2, <2>1, <2>3 DEF SameCheckouts, Consistent, Served
<1>5. Consistent(e)
  BY <1>1, <1>2, <1>3, <1>4
  DEF SameCheckouts, Consistent, CodeOk, Resolved, Scoped, Superseded, Judged, Archived, Current,
      DirtyCode
<1>6. \A j \in Items : Unreviewed(e, j) BY <1>1, <1>2 DEF DiskOk, Unreviewed, SameCheckouts
<1>7. Kept(c, w, e) BY <1>2, <1>3 DEF Good, Kept, SameCheckouts
<1> QED BY <1>2, <1>5, <1>6, <1>7 DEF Good, DiskOk, SameCheckouts, e

\* A task is given its request while no closed request was served by it.
LEMMA SourceGood ==
  ASSUME NEW c, NEW w, NEW d \in Good(c, w), NEW t \in TaskIds, NEW n \in 0..Requests,
         d.stash = <<>> => \A m \in 1..Requests : d.arts.outline[m] = "complete" =>
           \E u \in d.tree.docs[Feature] \ {t} : Serves(d, u, m)
  PROVE  WithSource(d, t, n) \in Good(c, w)
<1> DEFINE e == WithSource(d, t, n)
<1>1. d \in Disks /\ DiskOk(d) /\ Consistent(d) BY DEF Good, DiskOk
<1>2. /\ SameCheckouts(d, e)
      /\ e.arts = [d.arts EXCEPT !.source = e.arts.source]
      /\ \A u \in TaskIds \ {t} : e.arts.source[u] = d.arts.source[u]
  BY <1>1, SourceWrite
<1> HIDE DEF e
<1>3. /\ e.arts.outline = d.arts.outline /\ e.arts.allowed = d.arts.allowed
      /\ e.arts.diffs = d.arts.diffs /\ e.arts.gates = d.arts.gates
      /\ e.arts.reviews = d.arts.reviews
  BY <1>1, <1>2 DEF Disks, Artifacts
<1>4. Served(e)
  <2>1. SUFFICES ASSUME d.stash = <<>> PROVE Served(e) BY <1>2 DEF Served, SameCheckouts
  <2>2. d.tree.docs[Feature] \subseteq TaskIds BY <1>1 DEF Disks, SoundTrees, Items
  <2>3. \A u \in d.tree.docs[Feature] \ {t} : \A m : Serves(d, u, m) => Serves(e, u, m)
    BY <1>2, <1>3, <2>2 DEF Serves
  <2> QED BY <1>1, <1>2, <1>3, <2>1, <2>3 DEF SameCheckouts, Consistent, Served
<1>5. Consistent(e)
  BY <1>1, <1>2, <1>3, <1>4
  DEF SameCheckouts, Consistent, CodeOk, Resolved, Scoped, Superseded, Judged, Archived, Current,
      DirtyCode
<1>6. \A j \in Items : Unreviewed(e, j) BY <1>1, <1>2 DEF DiskOk, Unreviewed, SameCheckouts
<1>7. Kept(c, w, e) BY <1>2, <1>3 DEF Good, Kept, SameCheckouts
<1> QED BY <1>2, <1>5, <1>6, <1>7 DEF Good, DiskOk, SameCheckouts, e

\* Gates are judged anew for a task neither checkout has under review.
LEMMA GatesGood ==
  ASSUME NEW c, NEW w, NEW d \in Good(c, w), NEW i \in Items, NEW t \in TaskIds,
         NEW r \in Results,
         t \notin InReview(d.tree.state[i]) \cup InReview(d.head.state[i])
  PROVE  LET e == WithGates(d, i, t, r)
         IN  /\ e \in Good(c, w) /\ SameCheckouts(d, e)
             /\ e.arts.allowed = d.arts.allowed /\ e.arts.diffs = d.arts.diffs
             /\ e.arts.gates[i][t] = [result |-> r, code |-> Own(d.tree.code, i, t)]
<1> DEFINE e == WithGates(d, i, t, r)
<1>1. d \in Disks /\ DiskOk(d) /\ Consistent(d) BY DEF Good, DiskOk
<1>2. /\ SameCheckouts(d, e)
      /\ e.arts = [d.arts EXCEPT !.gates = e.arts.gates]
      /\ \A j \in Items, u \in TaskIds :
           e.arts.gates[j][u] = IF j = i /\ u = t
                                THEN [result |-> r, code |-> Own(d.tree.code, i, t)]
                                ELSE d.arts.gates[j][u]
  BY <1>1, GatesWrite
<1> HIDE DEF e
<1>3. /\ e.arts.outline = d.arts.outline /\ e.arts.allowed = d.arts.allowed
      /\ e.arts.diffs = d.arts.diffs /\ e.arts.source = d.arts.source
      /\ e.arts.reviews = d.arts.reviews
  BY <1>1, <1>2 DEF Disks, Artifacts
<1>4. ASSUME NEW T \in {d.tree, d.head} PROVE Judged(e, T)
  <2> SUFFICES ASSUME NEW j \in Items, NEW u \in InReview(T.state[j])
               PROVE  e.arts.gates[j][u] = d.arts.gates[j][u]
    BY <1>1, <1>3 DEF Judged, Consistent
  <2>1. u \in TaskIds BY DEF InReview
  <2> QED BY <1>2, <2>1
<1>5. Consistent(e)
  BY <1>1, <1>2, <1>3, <1>4
  DEF SameCheckouts, Consistent, CodeOk, Resolved, Scoped, Superseded, Archived, Current, Served,
      Serves, DirtyCode
<1>6. \A j \in Items : Unreviewed(e, j) BY <1>1, <1>2 DEF DiskOk, Unreviewed, SameCheckouts
<1>7. Kept(c, w, e) BY <1>2, <1>3 DEF Good, Kept, SameCheckouts
<1> QED BY <1>2, <1>3, <1>5, <1>6, <1>7 DEF Good, DiskOk, SameCheckouts, e

LEMMA ReviewGood ==
  ASSUME NEW c, NEW w, NEW d \in Good(c, w), NEW i \in Items, NEW t \in TaskIds
  PROVE  LET e == WithReview(d, i, t)
         IN  /\ e \in Good(c, w) /\ SameCheckouts(d, e)
             /\ e.arts = [d.arts EXCEPT !.reviews = e.arts.reviews] /\ t \in e.arts.reviews[i]
<1> DEFINE e == WithReview(d, i, t)
<1>1. d \in Disks /\ DiskOk(d) /\ Consistent(d) BY DEF Good, DiskOk
<1>2. /\ SameCheckouts(d, e)
      /\ e.arts = [d.arts EXCEPT !.reviews = e.arts.reviews]
      /\ e.arts.reviews[i] = d.arts.reviews[i] \cup {t}
      /\ \A j \in Items : d.arts.reviews[j] \subseteq e.arts.reviews[j]
  BY <1>1, ReviewWrite
<1> HIDE DEF e
<1>3. /\ e.arts.outline = d.arts.outline /\ e.arts.allowed = d.arts.allowed
      /\ e.arts.diffs = d.arts.diffs /\ e.arts.source = d.arts.source
      /\ e.arts.gates = d.arts.gates
  BY <1>1, <1>2 DEF Disks, Artifacts
<1>4. Served(e)
  <2>1. \A u, m : Serves(d, u, m) => Serves(e, u, m) BY <1>2, <1>3 DEF Serves, Items
  <2> QED BY <1>1, <1>2, <1>3, <2>1 DEF SameCheckouts, Consistent, Served
<1>5. Consistent(e)
  BY <1>1, <1>2, <1>3, <1>4
  DEF SameCheckouts, Consistent, CodeOk, Resolved, Scoped, Superseded, Judged, Archived, Current,
      DirtyCode
<1>6. \A j \in Items : Unreviewed(e, j) BY <1>1, <1>2 DEF DiskOk, Unreviewed, SameCheckouts
<1>7. Kept(c, w, e) BY <1>2, <1>3 DEF Good, Kept, SameCheckouts
<1> QED BY <1>2, <1>5, <1>6, <1>7 DEF Good, DiskOk, SameCheckouts, e

LEMMA AttemptGood ==
  ASSUME NEW c, NEW w, NEW d \in Good(c, w), NEW i \in Items
  PROVE  LET e == WithAttempt(d, i)
         IN  /\ e \in Good(c, w) /\ SameCheckouts(d, e)
             /\ e.arts = [d.arts EXCEPT !.diagnosed = e.arts.diagnosed]
<1> DEFINE e == WithAttempt(d, i)
<1>1. d \in Disks /\ DiskOk(d) /\ Consistent(d) BY DEF Good, DiskOk
<1>2. SameCheckouts(d, e) /\ e.arts = [d.arts EXCEPT !.diagnosed = e.arts.diagnosed]
  BY <1>1, AttemptWrite
<1> HIDE DEF e
<1>3. /\ e.arts.outline = d.arts.outline /\ e.arts.allowed = d.arts.allowed
      /\ e.arts.diffs = d.arts.diffs /\ e.arts.source = d.arts.source
      /\ e.arts.gates = d.arts.gates /\ e.arts.reviews = d.arts.reviews
  BY <1>1, <1>2 DEF Disks, Artifacts
<1>4. Consistent(e)
  BY <1>1, <1>2, <1>3
  DEF SameCheckouts, Consistent, CodeOk, Resolved, Scoped, Superseded, Judged, Archived, Current,
      Served, Serves, DirtyCode
<1>5. \A j \in Items : Unreviewed(e, j) BY <1>1, <1>2 DEF DiskOk, Unreviewed, SameCheckouts
<1>6. Kept(c, w, e) BY <1>2, <1>3 DEF Good, Kept, SameCheckouts
<1> QED BY <1>2, <1>4, <1>5, <1>6 DEF Good, DiskOk, SameCheckouts, e

\* A patch replaces the one of the same task, which holds nothing that is gone since.
LEMMA DiffGood ==
  ASSUME NEW c, NEW w, NEW d \in Good(c, w), NEW i \in Items, NEW t \in TaskIds,
         c \subseteq d.tree.code,
         t \notin InReview(d.tree.state[i]) \cup InReview(d.head.state[i])
  PROVE  LET e == WithDiff(d, i, t)
         IN  /\ e \in Good(c, w) /\ SameCheckouts(d, e)
             /\ e.arts = [d.arts EXCEPT !.diffs = e.arts.diffs]
             /\ DirtyCode(d) # {} => e.arts.diffs[i][t] = DirtyCode(d)
<1> DEFINE e == WithDiff(d, i, t)
<1>1. d \in Disks /\ DiskOk(d) /\ Consistent(d) BY DEF Good, DiskOk
<1>2. /\ SameCheckouts(d, e)
      /\ e.arts = [d.arts EXCEPT !.diffs = e.arts.diffs]
      /\ \A j \in Items, u \in TaskIds :
           e.arts.diffs[j][u] = IF j = i /\ u = t /\ DirtyCode(d) # {} THEN DirtyCode(d)
                                ELSE d.arts.diffs[j][u]
  BY <1>1, DiffWrite
<1> HIDE DEF e
<1>3. /\ e.arts.outline = d.arts.outline /\ e.arts.allowed = d.arts.allowed
      /\ e.arts.gates = d.arts.gates /\ e.arts.source = d.arts.source
      /\ e.arts.reviews = d.arts.reviews
  BY <1>1, <1>2 DEF Disks, Artifacts
<1>4. ASSUME NEW T \in {d.tree, d.head} PROVE Judged(e, T)
  <2> SUFFICES ASSUME NEW j \in Items, NEW u \in InReview(T.state[j])
               PROVE  e.arts.diffs[j][u] = d.arts.diffs[j][u]
    BY <1>1, <1>3 DEF Judged, Consistent
  <2>1. u \in TaskIds BY DEF InReview
  <2> QED BY <1>2, <2>1
<1>5. DirtyCode(e) = DirtyCode(d) BY <1>2 DEF SameCheckouts, DirtyCode
<1>6. Archived(e)
  <2> SUFFICES ASSUME NEW x \in DirtyCode(d), x \in d.arts.diffs[x.item][x.task]
               PROVE  x \in e.arts.diffs[x.item][x.task]
    BY <1>1, <1>2, <1>5 DEF Archived, Consistent, SameCheckouts
  <2> QED BY <1>1, <1>2, DirtyEdits
<1>7. Consistent(e)
  BY <1>1, <1>2, <1>3, <1>4, <1>5, <1>6
  DEF SameCheckouts, Consistent, CodeOk, Resolved, Scoped, Superseded, Current, Served, Serves
<1>8. \A j \in Items : Unreviewed(e, j) BY <1>1, <1>2 DEF DiskOk, Unreviewed, SameCheckouts
<1>9. Kept(c, w, e) BY <1>2 DEF Kept, SameCheckouts
<1>10. DirtyCode(d) # {} => e.arts.diffs[i][t] = DirtyCode(d) BY <1>2
<1> QED BY <1>2, <1>7, <1>8, <1>9, <1>10 DEF Good, DiskOk, SameCheckouts, e

\* Changes are discarded once they are archived.
LEMMA DiscardGood ==
  ASSUME NEW c, NEW w, NEW d \in Good(c, w), NEW t,
         \A e \in DirtyCode(d) : e.item = w => e \in d.arts.diffs[e.item][e.task]
  PROVE  Discard(d, w, t) \in Good(c, w)
<1> DEFINE e == Discard(d, w, t)
<1>1. d \in Disks /\ DiskOk(d) /\ Consistent(d) BY DEF Good, DiskOk
<1>2. /\ e \in Disks
      /\ e.head = d.head /\ e.stash = d.stash /\ e.arts = d.arts
      /\ e.tree.docs = d.tree.docs /\ e.tree.state = d.tree.state
      /\ e.tree.code \subseteq d.tree.code
      /\ d.tree.code \cap d.head.code \subseteq e.tree.code
  BY <1>1, DiscardWrite
<1> HIDE DEF e
<1>3. CodeOk(e) BY <1>1, <1>2 DEF Consistent, CodeOk
<1>4. DirtyCode(e) \subseteq DirtyCode(d) BY <1>2 DEF DirtyCode
<1>5. d.tree.code \ e.tree.code \subseteq DirtyCode(d) BY <1>2 DEF DirtyCode
<1>6. Judged(e, e.tree)
  <2> SUFFICES ASSUME NEW j \in Items, NEW u \in InReview(d.tree.state[j]),
                      NEW x \in Own(d.tree.code, j, u), x \notin e.tree.code
               PROVE  x \in d.arts.diffs[j][u]
    BY <1>1, <1>2 DEF Consistent, Judged, Own
  <2>1. x \in DirtyCode(d) /\ x.item = j /\ x.task = u BY <1>5 DEF Own
  <2>2. d.tree.state[j].lc # "implementation_running"
    BY <1>1, DocumentsOfDisk, PointersOfSound DEF Failed
  <2> QED BY <1>1, <2>1, <2>2 DEF Consistent, Archived
<1>7. Judged(e, e.head) BY <1>1, <1>2 DEF Consistent, Judged
<1>8. Archived(e) /\ Current(e) BY <1>1, <1>2, <1>4 DEF Consistent, Archived, Current
<1>9. Consistent(e)
  BY <1>1, <1>2, <1>3, <1>6, <1>7, <1>8
  DEF Consistent, Resolved, Scoped, Superseded, Served, Serves
<1>10. \A j \in Items : Unreviewed(e, j) BY <1>1, <1>2 DEF DiskOk, Unreviewed
<1>11. Kept(c, w, e) BY <1>2, <1>5 DEF Good, Kept
<1> QED BY <1>2, <1>9, <1>10, <1>11 DEF Good, DiskOk, e

\* Everything in the worktree is committed: then nothing is dirty.
LEMMA CommitAllGood ==
  ASSUME NEW c, NEW w, NEW d \in Good(c, w)
  PROVE  LET e == CommitAll(d)
         IN  /\ e \in Good(c, w) /\ e.tree = d.tree /\ e.head = d.tree /\ e.arts = d.arts
             /\ dirtyPaths(e) = {} /\ DirtyCode(e) = {}
<1> DEFINE e == CommitAll(d)
<1>1. d \in Disks /\ DiskOk(d) /\ Consistent(d) BY DEF Good, DiskOk
<1>2. /\ e \in Disks
      /\ e.tree = d.tree /\ e.head = d.tree /\ e.stash = d.stash /\ e.arts = d.arts
  BY <1>1, CommitAllWrite
<1> HIDE DEF e
<1>3. DirtyCode(e) = {} BY <1>2 DEF DirtyCode
<1>4. dirtyPaths(e) = {} BY <1>2 DEF dirtyPaths, SymDiff
<1>5. CodeOk(e) BY <1>1, <1>2 DEF Consistent, CodeOk
<1>6. Scoped(e) BY <1>1, <1>2 DEF Consistent, Scoped
<1>7. Superseded(e) BY <1>1, <1>2, DocumentsOfDisk, PointersOfSound DEF Superseded
<1>8. Judged(e, e.tree) /\ Judged(e, e.head) BY <1>1, <1>2 DEF Consistent, Judged
<1>9. Archived(e) /\ Current(e) BY <1>3 DEF Archived, Current
<1>10. Consistent(e)
  BY <1>1, <1>2, <1>5, <1>6, <1>7, <1>8, <1>9 DEF Consistent, Resolved, Served, Serves
<1>11. \A j \in Items : Unreviewed(e, j)
  BY <1>1, <1>2, DocumentsOfDisk, PointersOfSound DEF Unreviewed, Failed
<1>12. Kept(c, w, e) BY <1>2 DEF Good, Kept
<1> QED BY <1>2, <1>3, <1>4, <1>10, <1>11, <1>12 DEF Good, DiskOk, e

\* The documents of some items are committed, and the code is not.
LEMMA CommitOnlyGood ==
  ASSUME NEW c, NEW w, NEW d \in Disks, Consistent(d), Kept(c, w, d), NEW paths,
         \A j \in Items : <<"state", j>> \notin paths => Unreviewed(d, j)
  PROVE  LET e == CommitOnly(d, paths)
         IN  e \in Good(c, w) /\ e.tree = d.tree /\ e.arts = d.arts /\ e.head.code = d.head.code
<1> DEFINE e == CommitOnly(d, paths)
<1>2. /\ e \in Disks
      /\ e.tree = d.tree /\ e.stash = d.stash /\ e.arts = d.arts
      /\ e.head.code = d.head.code
      /\ \A j \in Items : e.head.state[j] =
           IF <<"state", j>> \in paths THEN d.tree.state[j] ELSE d.head.state[j]
  BY CommitOnlyWrite
<1> HIDE DEF e
<1>3. DirtyCode(e) = DirtyCode(d) BY <1>2 DEF DirtyCode
<1>4. CodeOk(e) BY <1>2 DEF Consistent, CodeOk
<1>5. Scoped(e) BY <1>2 DEF Consistent, Scoped
<1>6. Superseded(e)
  <2> SUFFICES ASSUME NEW j \in Items, NEW u \in Pointers(e.head.state[j])
               PROVE  \/ \E k \in d.tree.docs[j] :
                           primaryTaskAnchor(k) = primaryTaskAnchor(u) /\ u <= k
                      \/ u \in {d.tree.state[j].task, d.tree.state[j].corr}
    BY <1>2 DEF Superseded
  <2>1. CASE <<"state", j>> \in paths BY <1>2, <2>1, DocumentsOfDisk, PointersOfSound
  <2>2. CASE <<"state", j>> \notin paths BY <1>2, <2>2 DEF Superseded, Consistent
  <2> QED BY <2>1, <2>2
<1>7. Judged(e, e.tree) BY <1>2 DEF Consistent, Judged
<1>8. Judged(e, e.head)
  <2> SUFFICES ASSUME NEW j \in Items, NEW t \in InReview(e.head.state[j]),
                      <<"state", j>> \in paths
               PROVE  /\ d.arts.gates[j][t].result = "passed"
                      /\ Own(d.head.code, j, t) \subseteq d.arts.gates[j][t].code
                      /\ d.arts.gates[j][t].code \ Own(d.head.code, j, t)
                           \subseteq d.arts.diffs[j][t]
    <3>1. ASSUME NEW j \in Items, NEW t \in InReview(e.head.state[j]), <<"state", j>> \notin paths
          PROVE  /\ d.arts.gates[j][t].result = "passed"
                 /\ Own(d.head.code, j, t) \subseteq d.arts.gates[j][t].code
                 /\ d.arts.gates[j][t].code \ Own(d.head.code, j, t) \subseteq d.arts.diffs[j][t]
      <4>1. t \in InReview(d.head.state[j]) BY <1>2, <3>1
      <4> QED BY <4>1 DEF Consistent, Judged
    <3>2. \A j \in Items : \A t \in InReview(e.head.state[j]) :
            /\ d.arts.gates[j][t].result = "passed"
            /\ Own(d.head.code, j, t) \subseteq d.arts.gates[j][t].code
            /\ d.arts.gates[j][t].code \ Own(d.head.code, j, t) \subseteq d.arts.diffs[j][t]
      BY <3>1
    <3> QED BY <1>2, <3>2 DEF Judged
  <2>0. t \in InReview(d.tree.state[j]) BY <1>2
  <2>1. /\ d.arts.gates[j][t].result = "passed"
        /\ Own(d.tree.code, j, t) \subseteq d.arts.gates[j][t].code
        /\ d.arts.gates[j][t].code \ Own(d.tree.code, j, t) \subseteq d.arts.diffs[j][t]
    BY <2>0 DEF Consistent, Judged
  <2>2. Own(d.head.code, j, t) \subseteq Own(d.tree.code, j, t) BY DEF Consistent, CodeOk, Own
  <2>3. ASSUME NEW x \in Own(d.tree.code, j, t), x \notin Own(d.head.code, j, t)
        PROVE  x \in d.arts.diffs[j][t]
    <3>1. x \in DirtyCode(d) /\ x.item = j /\ x.task = t BY <2>3 DEF Own, DirtyCode
    <3>2. d.tree.state[j].lc # "implementation_running"
      BY <2>0, DocumentsOfDisk, PointersOfSound DEF Failed
    <3> QED BY <3>1, <3>2 DEF Consistent, Archived
  <2> QED BY <2>1, <2>2, <2>3
<1>9. Archived(e) /\ Current(e) BY <1>2, <1>3 DEF Consistent, Archived, Current
<1>10. Consistent(e)
  BY <1>2, <1>4, <1>5, <1>6, <1>7, <1>8, <1>9 DEF Consistent, Resolved, Served, Serves
<1>11. ASSUME NEW j \in Items PROVE Unreviewed(e, j)
  <2>1. CASE <<"state", j>> \in paths
    BY <1>2, <2>1, DocumentsOfDisk, PointersOfSound DEF Unreviewed, Failed
  <2>2. CASE <<"state", j>> \notin paths BY <1>2, <2>2 DEF Unreviewed
  <2> QED BY <2>1, <2>2
<1>12. Kept(c, w, e) BY <1>2 DEF Kept
<1> QED BY <1>2, <1>10, <1>11, <1>12 DEF Good, DiskOk, e

(***************************************************************************)
(* What is selected, and what a process may rely on after its step.        *)
(***************************************************************************)

\* A document is inspected by its lifecycle state wherever a step is taken on it.
LEMMA KindOfSound ==
  ASSUME NEW s \in SoundDocuments
  PROVE  /\ \A k \in Planning \cup Executing \cup Failed \cup {"correction_pending", "blocked"} :
              WorkItemInspectionKind(s) = k => s.lc = k
         /\ s.lc \in Executing \cup Failed \cup {"correction_pending"} =>
              WorkItemInspectionKind(s) = s.lc /\ isContinuing(s) /\ ~isStartable(s)
         /\ WorkItemInspectionKind(s) \in Failed \cup {"blocked"} => isContinuing(s)
<1>1. s \in StateDocuments /\ IsSound(s) BY DEF SoundDocuments
<1>2. \A k \in Planning \cup Executing \cup Failed \cup {"correction_pending", "blocked"} :
        WorkItemInspectionKind(s) = k => s.lc = k
  BY DEF WorkItemInspectionKind, Planning, Executing, Failed
<1>3. s.lc \in Executing \cup Failed \cup {"correction_pending"} => WorkItemInspectionKind(s) = s.lc
  <2>1. s.lc = "correction_pending" => s.corr # NoTask
    BY <1>1 DEF IsSound, NoTask, StateDocuments
  <2>2. s.lc \in Executing => s.task # NoTask BY <1>1 DEF IsSound
  <2> QED BY <2>1, <2>2 DEF WorkItemInspectionKind, MissingPointer, Planning, Executing, Failed
<1>4. s.lc \in Executing \cup Failed \cup {"correction_pending"} => isContinuing(s) /\ ~isStartable(s)
  BY <1>3 DEF isContinuing, isStartable, PendingSpecification, Planning, Executing, Failed
<1>5. WorkItemInspectionKind(s) \in Failed \cup {"blocked"} => isContinuing(s)
  BY DEF isContinuing, PendingSpecification, Planning, Failed
<1> QED BY <1>2, <1>3, <1>4, <1>5

\* At most one item is next.
LEMMA NextIsOne ==
  ASSUME NEW d, NEW aside, NEW i \in Next1(d, aside)
  PROVE  Next1(d, aside) = {i} /\ i \in Items \ aside
<1>1. i \in Items \ aside /\ Tier(d, i) < 4 BY DEF Next1
<1>2. \A j \in Next1(d, aside) : j \in Items \ aside /\ Tier(d, j) = Tier(d, i)
  <2>1. \A j \in Items : Tier(d, j) \in 0..4 BY DEF Tier
  <2> QED BY <2>1 DEF Next1
<1>3. \A j \in Items : Tier(d, j) = Tier(d, i) => j = i
  <2>1. Feature # Fix /\ Items = {Feature, Fix} BY DEF Items, Feature, Fix
  <2>2. Tier(d, Feature) \in {0, 3, 4} BY <2>1 DEF Tier
  <2>3. Tier(d, Fix) \in {1, 2, 4} BY <2>1 DEF Tier
  <2> QED BY <1>1, <2>1, <2>2, <2>3
<1> QED BY <1>1, <1>2, <1>3

\* An item that was next and can be continued stays next while the other's document stands.
LEMMA StillNext ==
  ASSUME NEW d, NEW e, NEW aside, NEW i \in Next1(d, aside), isContinuing(e.tree.state[i]),
         \A j \in Items \ {i} : e.tree.state[j] = d.tree.state[j]
  PROVE  i \in Next1(e, aside)
<1>1. i \in Items \ aside /\ Tier(d, i) < 4 /\ \A j \in Items \ aside : Tier(d, i) <= Tier(d, j)
  BY DEF Next1
<1>2. Tier(e, i) = IF i = Feature THEN 0 ELSE 1
  <2>1. ~isStartable(e.tree.state[i]) BY DEF isContinuing, isStartable
  <2> QED BY <1>1, <2>1 DEF Tier, Items, Feature, Fix
<1>3. ASSUME NEW j \in Items \ aside, j # i PROVE Tier(e, i) <= Tier(e, j)
  <2>1. Tier(e, j) = Tier(d, j) BY <1>3 DEF Tier
  <2>2. Tier(d, i) <= Tier(d, j) BY <1>1, <1>3
  <2>3. i = Feature => Tier(e, j) >= 0 BY DEF Tier
  <2>4. i = Fix => Tier(d, i) >= 1 /\ Tier(d, j) \in 0..4 BY DEF Tier, Feature, Fix
  <2>5. i \in {Feature, Fix} BY <1>1 DEF Items
  <2>6. CASE i = Feature BY <2>3, <2>6, <1>2
  <2>7. CASE i = Fix
    <3>1. Tier(d, i) \in 0..4 /\ Feature # Fix BY DEF Tier, Feature, Fix
    <3> QED BY <2>1, <2>2, <2>4, <2>7, <1>2, <3>1
  <2> QED BY <2>5, <2>6, <2>7
<1>4. Tier(e, i) < 4 /\ Tier(e, i) <= Tier(e, i) BY <1>2
<1> QED BY <1>1, <1>3, <1>4 DEF Next1

\* Each kind of dirty path.
LEMMA DirtyPathsAre ==
  ASSUME NEW d
  PROVE  /\ \A x \in dirtyPaths(d) :
              \/ x = <<"project">>
              \/ \E i \in Items : x = <<"state", i>> /\ d.tree.state[i] # d.head.state[i]
              \/ \E i \in Items : \E t \in SymDiff(d.tree.docs[i], d.head.docs[i]) :
                   x = <<"doc", i, t>>
              \/ \E e \in SymDiff(d.tree.code, d.head.code) : x = <<"code", e.area>>
         /\ \A i \in Items : d.tree.state[i] # d.head.state[i] => <<"state", i>> \in dirtyPaths(d)
         /\ \A i \in Items : \A t \in SymDiff(d.tree.docs[i], d.head.docs[i]) :
              <<"doc", i, t>> \in dirtyPaths(d)
         /\ \A e \in SymDiff(d.tree.code, d.head.code) : <<"code", e.area>> \in dirtyPaths(d)
<1> DEFINE P == IF d.tree.project # d.head.project THEN {<<"project">>} ELSE {}
           S == {<<"state", i>> : i \in {j \in Items : d.tree.state[j] # d.head.state[j]}}
           F(i) == {<<"doc", i, t>> : t \in SymDiff(d.tree.docs[i], d.head.docs[i])}
           D == UNION {{<<"doc", i, t>> : t \in SymDiff(d.tree.docs[i], d.head.docs[i])} : i \in Items}
           C == {<<"code", e.area>> : e \in SymDiff(d.tree.code, d.head.code)}
<1>1. dirtyPaths(d) = P \cup S \cup D \cup C BY Zenon DEF dirtyPaths
<1>2. \A x \in P : x = <<"project">> OBVIOUS
<1>3. /\ \A x \in S : \E i \in Items : x = <<"state", i>> /\ d.tree.state[i] # d.head.state[i]
      /\ \A i \in Items : d.tree.state[i] # d.head.state[i] => <<"state", i>> \in S
  OBVIOUS
<1>4. /\ \A x \in D : \E i \in Items : x \in F(i)
      /\ \A i \in Items : F(i) \subseteq D
  <2>1. D = UNION {F(i) : i \in Items} BY Zenon
  <2> HIDE DEF F, D
  <2> QED BY <2>1
<1>5. \A i \in Items :
        /\ \A x \in F(i) : \E t \in SymDiff(d.tree.docs[i], d.head.docs[i]) : x = <<"doc", i, t>>
        /\ \A t \in SymDiff(d.tree.docs[i], d.head.docs[i]) : <<"doc", i, t>> \in F(i)
  OBVIOUS
<1>6. /\ \A x \in C : \E e \in SymDiff(d.tree.code, d.head.code) : x = <<"code", e.area>>
      /\ \A e \in SymDiff(d.tree.code, d.head.code) : <<"code", e.area>> \in C
  OBVIOUS
<1> HIDE DEF P, S, F, D, C
<1>7. ASSUME NEW x \in dirtyPaths(d)
      PROVE  \/ x = <<"project">>
             \/ \E i \in Items : x = <<"state", i>> /\ d.tree.state[i] # d.head.state[i]
             \/ \E i \in Items : \E t \in SymDiff(d.tree.docs[i], d.head.docs[i]) :
                  x = <<"doc", i, t>>
             \/ \E e \in SymDiff(d.tree.code, d.head.code) : x = <<"code", e.area>>
  <2>1. x \in P \/ x \in S \/ x \in D \/ x \in C BY <1>1
  <2>2. CASE x \in P BY <2>2, <1>2
  <2>3. CASE x \in S BY <2>3, <1>3
  <2>4. CASE x \in D BY <2>4, <1>4, <1>5
  <2>5. CASE x \in C BY <2>5, <1>6
  <2> QED BY <2>1, <2>2, <2>3, <2>4, <2>5
<1>8. S \subseteq dirtyPaths(d) /\ D \subseteq dirtyPaths(d) /\ C \subseteq dirtyPaths(d) BY <1>1
<1>9. \A i \in Items : d.tree.state[i] # d.head.state[i] => <<"state", i>> \in dirtyPaths(d)
  BY <1>3, <1>8
<1>10. \A i \in Items : \A t \in SymDiff(d.tree.docs[i], d.head.docs[i]) :
         <<"doc", i, t>> \in dirtyPaths(d)
  BY <1>4, <1>5, <1>8, Zenon
<1>11. \A e \in SymDiff(d.tree.code, d.head.code) : <<"code", e.area>> \in dirtyPaths(d)
  BY <1>6, <1>8, Zenon
<1> QED BY <1>7, <1>9, <1>10, <1>11, Zenon

\* A clean worktree is one without changed code.
LEMMA CleanHasNoCode ==
  ASSUME NEW d, NEW i, dirtyPaths(d) \subseteq Project \cup Directory(i)
  PROVE  DirtyCode(d) = {}
<1> SUFFICES ASSUME NEW e \in DirtyCode(d) PROVE FALSE OBVIOUS
<1>1. e \in SymDiff(d.tree.code, d.head.code) BY DEF DirtyCode, SymDiff
<1>3. <<"code", e.area>> \in dirtyPaths(d) BY <1>1, DirtyPathsAre
<1>4. <<"code", e.area>> \notin Project \cup Directory(i) BY DEF Project, Directory
<1> QED BY <1>3, <1>4

\* After a commit of everything there is nothing a run does not know.
LEMMA CleanIdle ==
  ASSUME NEW e, NEW p, p.at = "idle", e.head = e.tree
  PROVE  ProcOk(e, p)
BY DEF ProcOk, Working, Familiar, DirtyCode

\* With an item set aside: what is dirty is that item's, or of the one that is next.
LEMMA AsideIdle ==
  ASSUME NEW e \in Disks, NEW p, p.at = "idle", NEW i \in Items, i \in p.aside
  PROVE  ProcOk(e, p)
<1>1. \A j \in Next1(e, p.aside) : j \in Items \ p.aside BY DEF Next1
<1>2. \A x \in DirtyCode(e), j \in Next1(e, p.aside) : x.item = j \/ x.item \in p.aside
  BY <1>1, DirtyEdits DEF Items
<1> QED BY <1>2 DEF ProcOk, Working, WorkedOn, Familiar

\* e is d after writes about item i only, none of which made code dirty.
OnlyOf(d, e, i) ==
  /\ DirtyCode(e) \subseteq DirtyCode(d)
  /\ \A j \in Items \ {i} :
       /\ e.tree.state[j] = d.tree.state[j] /\ e.tree.docs[j] = d.tree.docs[j]
       /\ e.head.state[j] = d.head.state[j] /\ e.head.docs[j] = d.head.docs[j]

\* For the same task, or with no code dirty, what was known still is.
LEMMA StillFamiliar ==
  ASSUME NEW d, NEW e, NEW i \in Items, NEW aside, Familiar(d, {i}, aside), OnlyOf(d, e, i),
         \/ DirtyCode(e) = {}
         \/ e.arts.allowed[i][DecidedTask(e.tree.state[i])] =
              d.arts.allowed[i][DecidedTask(d.tree.state[i])]
  PROVE  Familiar(e, {i}, aside)
BY DEF Familiar, OnlyOf

\* So a step may end: idle, with its item next.
LEMMA SameIdle ==
  ASSUME NEW d, NEW e, NEW i \in Items, NEW p, p.at = "idle", i \in Next1(d, p.aside),
         Familiar(d, {i}, p.aside), OnlyOf(d, e, i), isContinuing(e.tree.state[i]),
         \/ DirtyCode(e) = {}
         \/ e.arts.allowed[i][DecidedTask(e.tree.state[i])] =
              d.arts.allowed[i][DecidedTask(d.tree.state[i])]
  PROVE  ProcOk(e, p)
<1>1. i \in Next1(e, p.aside) BY StillNext DEF OnlyOf
<1>2. WorkedOn(e, p) = {i} BY <1>1, NextIsOne DEF WorkedOn
<1>3. Familiar(e, {i}, p.aside) BY StillFamiliar
<1> QED BY <1>2, <1>3 DEF ProcOk, Working

(***************************************************************************)
(* Leaving a step, between two writes or after the last.                   *)
(***************************************************************************)
LEMMA MishapsCount ==
  ASSUME NEW d, NEW e
  PROVE  Cardinality({i \in Items : d.arts.diagnosed[i] # e.arts.diagnosed[i]}) \in Nat
<1> DEFINE S == {i \in Items : d.arts.diagnosed[i] # e.arts.diagnosed[i]}
<1>1. IsFiniteSet(Items)
  <2>1. Items = {Feature} \cup {Fix} /\ IsFiniteSet({Feature}) /\ IsFiniteSet({Fix})
    BY FS_Singleton DEF Items
  <2> QED BY <2>1, FS_Union
<1>2. IsFiniteSet(S) BY <1>1, FS_Subset
<1> QED BY <1>2, FS_CardinalityType

LEMMA DownIsOk ==
  /\ Down \in Processes /\ Down.at = "down" /\ \A d : ProcOk(d, Down) /\ Live(d, Down) = d
<1>1. Down \in Processes /\ Down.at = "down"
  BY DEF Down, Idle, Processes, Places, Items
<1> QED BY <1>1 DEF ProcOk, Live, Working

\* The process a step goes on as.
LEMMA Leaving ==
  ASSUME IInv, NEW c, NEW w, NEW ds \in Seq(Good(c, w)), ds # <<>>,
         NEW p \in Processes, p.at # "baseline", ProcOk(Last(ds), p), Leave(ds, p)
  PROVE  IInv' /\ disk' \in Good(c, w) /\ proc'.at # "baseline"
<1> DEFINE d == Last(ds)
           q == [p EXCEPT !.authored = @ \cap dirtyPaths(d)]
<1>1. d \in Good(c, w) BY LastAndFront
<1>2. q \in Processes /\ q.at = p.at /\ q.item = p.item /\ q.aside = p.aside
  BY DEF Processes
<1>3. ProcOk(d, q) BY <1>2 DEF ProcOk, WorkedOn
<1>4. edits' \in 0..MaxEdits BY DEF IInv, Leave
<1>5. MaxMishaps \in Nat /\ mishaps \in Nat BY StepWritesAssumption DEF IInv
<1>7. CASE disk' = d /\ proc' = q /\ mishaps' \in 0..MaxMishaps
  <2>1. Live(d, q) = d BY <1>2 DEF Live
  <2> HIDE DEF d, q
  <2> QED BY <1>1, <1>2, <1>3, <1>4, <1>7, <2>1 DEF IInv, Good
<1>8. CASE /\ \E k \in 1 .. Len(ds) - 1 : disk' = ds[k]
           /\ proc' = Down /\ mishaps' \in 0..MaxMishaps
  <2>1. disk' \in Good(c, w)
    <3>1. PICK k \in 1 .. Len(ds) - 1 : disk' = ds[k] BY <1>8
    <3>2. k \in 1 .. Len(ds) BY LenProperties
    <3> QED BY <3>1, <3>2, ElementOfSeq
  <2> QED BY <1>4, <1>8, <2>1, DownIsOk DEF IInv, Good
<1>9. \/ disk' = d /\ proc' = q /\ mishaps' \in 0..MaxMishaps
      \/ /\ \E k \in 1 .. Len(ds) - 1 : disk' = ds[k]
         /\ proc' = Down /\ mishaps' \in 0..MaxMishaps
  <2> DEFINE m == Cardinality({i \in Items : d.arts.diagnosed[i] # disk.arts.diagnosed[i]})
             n == mishaps + m
  <2>1. m \in Nat BY MishapsCount
  <2>2. \/ n <= MaxMishaps /\ mishaps' = n /\ disk' = d /\ proc' = q
        \/ /\ n < MaxMishaps /\ mishaps' = n + 1 /\ proc' = Down
           /\ \E k \in 1 .. Len(ds) - 1 : disk' = ds[k]
    BY DEF Leave, Quantify
  <2> HIDE DEF m, d, q
  <2> QED BY <1>5, <2>1, <2>2
<1> QED BY <1>7, <1>8, <1>9


\* What a step may not do: lose a change of the item worked on that is not archived.
Traced ==
  \A e \in Worktree.code \ Worktree'.code :
    \/ e.item \notin Worked
    \/ \E k \in DOMAIN disk'.stash : e \in disk'.stash[k].code
    \/ e \in disk'.arts.diffs[e.item][e.task]

\* The disks a step on item w leaves when it began with the code c.
Writes(c, w, ds) == ds \in Seq(Good(c, w)) /\ ds # <<>> /\ Last(ds) \in Good(c, w)

LEMMA Stepping ==
  ASSUME IInv, NEW w, Worked = {w}, NEW ds, Writes(Worktree.code, w, ds),
         NEW p \in Processes, p.at # "baseline", ProcOk(Last(ds), p), Leave(ds, p)
  PROVE  IInv' /\ Traced
<1> DEFINE c == Worktree.code
<1>1. Writes(c, w, ds) OBVIOUS
<1> HIDE DEF c
<1>2. IInv' /\ disk' \in Good(c, w) /\ proc'.at # "baseline" BY <1>1, Leaving DEF Writes
<1>3. Worktree' = disk'.tree BY <1>2 DEF Worktree
<1>4. \A e \in c \ disk'.tree.code : e.item = w => e \in disk'.arts.diffs[e.item][e.task]
  BY <1>2 DEF Good, Kept
<1> QED BY <1>2, <1>3, <1>4 DEF Traced, c

LEMMA OneWrite ==
  ASSUME NEW c, NEW w, NEW a \in Good(c, w)
  PROVE  Writes(c, w, <<a>>) /\ Last(<<a>>) = a
<1> DEFINE G == Good(c, w)
<1>1. a \in G OBVIOUS
<1> HIDE DEF G
<1>2. <<a>> \in Seq(G) /\ <<a>> # <<>> /\ Last(<<a>>) = a BY <1>1, LastOfOne
<1> QED BY <1>1, <1>2 DEF Writes, G

LEMMA TwoWrites ==
  ASSUME NEW c, NEW w, NEW a \in Good(c, w), NEW b \in Good(c, w)
  PROVE  Writes(c, w, <<a, b>>) /\ Last(<<a, b>>) = b
<1> DEFINE G == Good(c, w)
<1>1. a \in G /\ b \in G OBVIOUS
<1> HIDE DEF G
<1>2. <<a, b>> \in Seq(G) /\ <<a, b>> # <<>> /\ Last(<<a, b>>) = b BY <1>1, LastOfTwo
<1> QED BY <1>1, <1>2 DEF Writes, G

LEMMA ThreeWrites ==
  ASSUME NEW c, NEW w, NEW a \in Good(c, w), NEW b \in Good(c, w), NEW d \in Good(c, w)
  PROVE  Writes(c, w, <<a, b, d>>) /\ Last(<<a, b, d>>) = d
<1> DEFINE G == Good(c, w)
<1>1. a \in G /\ b \in G /\ d \in G OBVIOUS
<1> HIDE DEF G
<1>2. <<a, b, d>> \in Seq(G) /\ <<a, b, d>> # <<>> /\ Last(<<a, b, d>>) = d
  BY <1>1, LastOfThree
<1> QED BY <1>1, <1>2 DEF Writes, G

LEMMA MoreWrites ==
  ASSUME NEW c, NEW w, NEW ds, Writes(c, w, ds), NEW es, Writes(c, w, es)
  PROVE  Writes(c, w, ds \o es) /\ Last(ds \o es) = Last(es)
<1> DEFINE G == Good(c, w)
<1>1. ds \in Seq(G) /\ es \in Seq(G) /\ es # <<>> /\ Last(es) \in G BY DEF Writes
<1> HIDE DEF G
<1>2. ds \o es \in Seq(G) /\ ds \o es # <<>> /\ Last(ds \o es) = Last(es)
  BY <1>1, LastOfConcat
<1> QED BY <1>1, <1>2 DEF Writes, G

LEMMA LastWrite ==
  ASSUME NEW c, NEW w, NEW ds, Writes(c, w, ds), NEW e \in Good(c, w)
  PROVE  Writes(c, w, Append(ds, e)) /\ Last(Append(ds, e)) = e
<1> DEFINE G == Good(c, w)
<1>1. ds \in Seq(G) /\ e \in G BY DEF Writes
<1> HIDE DEF G
<1>2. Append(ds, e) \in Seq(G) /\ Append(ds, e) # <<>> /\ Last(Append(ds, e)) = e
  BY <1>1, LastOfAppend
<1> QED BY <1>1, <1>2 DEF Writes, G

\* A step that ends with a commit of everything leaves nothing dirty.
LEMMA CommittedWrites ==
  ASSUME NEW c, NEW w, NEW ds, Writes(c, w, ds)
  PROVE  LET es == Append(ds, CommitAll(Last(ds)))
         IN  Writes(c, w, es) /\ Last(es).head = Last(es).tree
<1>1. CommitAll(Last(ds)) \in Good(c, w)
        /\ CommitAll(Last(ds)).head = CommitAll(Last(ds)).tree
  BY CommitAllGood DEF Writes
<1> QED BY <1>1, LastWrite

LEMMA RecordedWrites ==
  ASSUME NEW c, NEW w, NEW d \in Good(c, w), NEW i \in Items, NEW s \in SoundDocuments,
         StateFits(d, i, s), StateNew(d, i, s)
  PROVE  Writes(c, w, Recorded(d, i, s)) /\ Redocumented(d, Last(Recorded(d, i, s)), i, s)
BY RecordedGood DEF Writes

(***************************************************************************)
(* State documents that fit.                                               *)
(***************************************************************************)

\* What fits depends on everything but the documents it replaces.
LEMMA StillFits ==
  ASSUME NEW d, NEW e, NEW i, NEW r, NEW s, StateFits(d, i, r), StateNew(d, i, r),
         Redocumented(d, e, i, s)
  PROVE  StateFits(e, i, r) /\ StateNew(e, i, r)
BY DEF StateFits, StateNew, Redocumented, DirtyCode

\* A document that stays at its task, and waits for no review it did not wait for.
LEMMA SameTaskFits ==
  ASSUME NEW d \in Disks, Consistent(d), NEW i \in Items, NEW r \in SoundDocuments,
         r.task = d.tree.state[i].task, r.corr = NoTask, d.tree.state[i].corr = NoTask,
         \A t \in InReview(r) \ InReview(d.tree.state[i]) :
           /\ d.arts.gates[i][t].result = "passed"
           /\ d.arts.gates[i][t].code = Own(d.tree.code, i, t),
         r.lc # "completed",
         d.tree.state[i].lc \in Planning => DirtyCode(d) = {},
         d.tree.state[i].lc = "implementation_running" /\ r.lc # "implementation_running" =>
           \A e \in DirtyCode(d) : e.item = i => e \in d.arts.diffs[e.item][e.task]
  PROVE  StateFits(d, i, r)
<1> DEFINE s == d.tree.state[i]
<1>0. s \in SoundDocuments BY DocumentsOfDisk
<1>1. Pointers(r) = Pointers(s) BY <1>0, PointersOfSound
<1>2. d.stash = <<>> => Pointers(r) \subseteq d.tree.docs[i] BY <1>1 DEF Consistent, Resolved
<1>3. \A t \in Pointers(r) : i \in d.arts.allowed[i][t] BY <1>1 DEF Consistent, Scoped
<1>4. \A u \in Pointers(d.head.state[i]) :
        \/ \E k \in d.tree.docs[i] : primaryTaskAnchor(k) = primaryTaskAnchor(u) /\ u <= k
        \/ u \in {r.task, r.corr}
  BY DEF Consistent, Superseded
<1>5. ASSUME NEW t \in InReview(r)
      PROVE  /\ d.arts.gates[i][t].result = "passed"
             /\ Own(d.tree.code, i, t) \subseteq d.arts.gates[i][t].code
             /\ d.arts.gates[i][t].code \ Own(d.tree.code, i, t) \subseteq d.arts.diffs[i][t]
  <2>1. CASE t \in InReview(s) BY <2>1 DEF Consistent, Judged
  <2>2. CASE t \notin InReview(s) BY <2>2
  <2> QED BY <2>1, <2>2
<1>6. ASSUME NEW e \in DirtyCode(d), e.item = i
      PROVE  /\ \/ e \in d.arts.diffs[e.item][e.task]
                \/ r.lc = "implementation_running" /\ r.task = e.task
             /\ e.task = r.task \/ r.lc \in Planning
  BY <1>6 DEF Consistent, Archived, Current
<1> QED BY <1>2, <1>3, <1>4, <1>5, <1>6 DEF StateFits

\* The lifecycle states a block leaves.
BlockStates == {"blocked", "review_failed"}

\* A block, as it is recorded and with either marker added to it.
Blocks(s, why, lc) ==
  LET b == Block(s, why, lc) IN {b, [b EXCEPT !.ack = TRUE], [b EXCEPT !.onFix = 1]}

\* A block fits wherever one may be recorded.
LEMMA BlockFits ==
  ASSUME NEW d \in Disks, Consistent(d), NEW i \in Items,
         NEW lc \in BlockStates, NEW why \in Reasons,
         d.tree.state[i].lc \in Blockable,
         lc = "review_failed" => d.tree.state[i].task # NoTask,
         d.tree.state[i].lc \in Planning => DirtyCode(d) = {},
         d.tree.state[i].lc = "implementation_running" =>
           \A e \in DirtyCode(d) : e.item = i => e \in d.arts.diffs[e.item][e.task]
  PROVE  \A r \in Blocks(d.tree.state[i], why, lc) :
           r \in SoundDocuments /\ StateFits(d, i, r) /\ StateNew(d, i, r)
<1> DEFINE s == d.tree.state[i]
           b == Block(s, why, lc)
<1> SUFFICES ASSUME NEW r \in {b, [b EXCEPT !.ack = TRUE], [b EXCEPT !.onFix = 1]}
             PROVE  r \in SoundDocuments /\ StateFits(d, i, r) /\ StateNew(d, i, r)
  BY DEF Blocks
<1>l. lc \in {"blocked", "review_failed"} BY DEF BlockStates
<1>0. s \in SoundDocuments BY DocumentsOfDisk
<1>1. /\ {b, [b EXCEPT !.ack = TRUE], [b EXCEPT !.onFix = 1]} \subseteq SoundDocuments
      /\ b.lc = lc /\ b.task = s.task /\ b.corr = NoTask
      /\ b.from.lc = IF s.from.lc # "none" THEN s.from.lc
                     ELSE forwardRestorationLifecycleState(s.lc)
  BY <1>0, <1>l, BlockedSound
<1> HIDE DEF b
<1>2. r \in {b, [b EXCEPT !.ack = TRUE], [b EXCEPT !.onFix = 1]} OBVIOUS
<1>3. b \in StateDocuments BY <1>1 DEF SoundDocuments
<1>4. r \in SoundDocuments /\ r.lc = b.lc /\ r.task = b.task /\ r.corr = b.corr /\ r.from = b.from
  BY <1>1, <1>2, <1>3 DEF StateDocuments
<1>5. s.corr = NoTask BY <1>0, PointersOfSound DEF Blockable, Planning, Executing, Failed
<1>6. ASSUME NEW t \in InReview(r) PROVE t \in InReview(s)
  <2>1. IsSound(r) /\ IsSound(s) BY <1>0, <1>4 DEF SoundDocuments
  <2>2. t \in TaskIds /\ r.lc # "review_pending" BY <1>1, <1>4, <1>l DEF InReview
  <2>3. r.from.lc = "review_pending" /\ r.from.task = t BY <1>6, <2>2 DEF InReview
  <2>4. t = s.task BY <1>1, <1>4, <2>1, <2>3 DEF IsSound
  <2>5. CASE s.from.lc = "review_pending"
    BY <2>1, <2>2, <2>4, <2>5 DEF InReview, IsSound
  <2>6. CASE s.from.lc # "review_pending"
    <3>1. forwardRestorationLifecycleState(s.lc) = "review_pending" BY <1>1, <1>4, <2>3, <2>6
    <3>2. s.lc = "review_pending" BY <3>1 DEF forwardRestorationLifecycleState
    <3> QED BY <3>2, <2>2, <2>4 DEF InReview
  <2> QED BY <2>5, <2>6
<1>7. r.lc \in {"blocked", "review_failed"} BY <1>1, <1>4, <1>l
<1>8. StateFits(d, i, r) BY <1>1, <1>4, <1>5, <1>6, <1>7, SameTaskFits
<1>9. StateNew(d, i, r) BY <1>7 DEF StateNew
<1> QED BY <1>4, <1>8, <1>9

(***************************************************************************)
(* Handlers: every disk a step may leave, and what holds after its last    *)
(* write.                                                                  *)
(***************************************************************************)

\* A task planned next is no one's review and no one's pointer.
LEMMA PlannedIsNew ==
  ASSUME NEW d \in Disks, Consistent(d), NEW i \in Items, d.tree.state[i].lc \in Planning,
         NEW t \in TaskIds, \A k \in d.tree.docs[i] : primaryTaskAnchor(k) # t,
         primaryTaskAnchor(t) = t
  PROVE  /\ t \notin InReview(d.head.state[i])
         /\ \A u \in Pointers(d.head.state[i]) :
              \E k \in d.tree.docs[i] : primaryTaskAnchor(k) = primaryTaskAnchor(u) /\ u <= k
<1> DEFINE s == d.tree.state[i]
<1>1. s \in SoundDocuments /\ d.head.state[i] \in SoundDocuments BY DocumentsOfDisk
<1>2. s.task = NoTask /\ s.corr = NoTask
  BY <1>1 DEF SoundDocuments, IsSound, Planning
<1>3. \A u \in Pointers(d.head.state[i]) : u # NoTask BY DEF Pointers
<1>4. \A u \in Pointers(d.head.state[i]) :
        \E k \in d.tree.docs[i] : primaryTaskAnchor(k) = primaryTaskAnchor(u) /\ u <= k
  BY <1>2, <1>3 DEF Consistent, Superseded
<1>5. InReview(d.head.state[i]) \subseteq Pointers(d.head.state[i]) BY <1>1, PointersOfSound
<1> QED BY <1>4, <1>5

LEMMA PlanningWrites ==
  ASSUME NEW c, NEW i \in Items, NEW d \in Good(c, i), d.tree.state[i].lc \in Planning,
         DirtyCode(d) = {}, Unused(d, i) # {},
         NEW n \in 0..Requests, n # 0 => d.arts.outline[n] # "complete" /\ i = Feature
  PROVE  LET ds == finalizeTaskPlan(d, i, Min(Unused(d, i)), n)
             e  == Last(ds)
         IN  /\ Writes(c, i, ds) /\ Min(Unused(d, i)) \in TaskIds
             /\ OnlyOf(d, e, i) /\ DirtyCode(e) = {} /\ isContinuing(e.tree.state[i])
<1> DEFINE t == Min(Unused(d, i))
           s == d.tree.state[i]
           r == ForTaskPlan(s, t)
           d1 == WithDocument(d, i, t)
           own == {i}
           d2 == WithTask(d1, i, t, own)
           d3 == IF n = 0 THEN d2 ELSE WithSource(d2, t, n)
           d4 == WithRequest(d3, n, "in_progress")
           ds == Recorded(d4, i, r)
<1>0. d \in Disks /\ DiskOk(d) /\ Consistent(d) BY DEF Good, DiskOk
<1>1. /\ t \in TaskIds /\ primaryTaskAnchor(t) = t /\ t \notin d.tree.docs[i]
      /\ \A k \in d.tree.docs[i] : primaryTaskAnchor(k) # t
  BY <1>0, UnusedIsNew
<1> HIDE DEF t
<1>2. /\ t \notin InReview(d.head.state[i])
      /\ \A u \in Pointers(d.head.state[i]) :
           \E k \in d.tree.docs[i] : primaryTaskAnchor(k) = primaryTaskAnchor(u) /\ u <= k
  BY <1>0, <1>1, PlannedIsNew
<1>3. d1 \in Good(c, i) BY <1>1, DocumentGood
<1>4. /\ d1 \in Disks
      /\ d1.head = d.head /\ d1.stash = d.stash /\ d1.arts = d.arts
      /\ d1.tree.state = d.tree.state /\ d1.tree.code = d.tree.code
      /\ d1.tree.docs[i] = d.tree.docs[i] \cup {t}
      /\ \A j \in Items \ {i} : d1.tree.docs[j] = d.tree.docs[j]
  BY <1>0, <1>1, DocumentWrite
<1> HIDE DEF d1
<1>5. own \in SUBSET Areas /\ i \in own BY DEF Areas
<1> HIDE DEF own
<1>6. d2 \in Good(c, i) BY <1>1, <1>3, <1>5, TaskGood
<1>7. /\ SameCheckouts(d1, d2)
      /\ d2.arts = [d.arts EXCEPT !.allowed = d2.arts.allowed] /\ i \in d2.arts.allowed[i][t]
  <2>1. /\ SameCheckouts(d1, d2)
        /\ d2.arts = [d1.arts EXCEPT !.allowed = d2.arts.allowed]
        /\ \A j \in Items, u \in TaskIds :
             d2.arts.allowed[j][u] = IF j = i /\ u = t THEN own ELSE d1.arts.allowed[j][u]
    BY <1>1, <1>4, <1>5, TaskWrite
  <2> HIDE DEF d2
  <2> QED BY <1>1, <1>4, <1>5, <2>1
<1> HIDE DEF d2
<1>a. d.arts \in Artifacts BY <1>0 DEF Disks
<1>8. d3 \in Good(c, i) /\ SameCheckouts(d1, d3) /\ i \in d3.arts.allowed[i][t]
        /\ d3.arts.outline = d.arts.outline
  <2>1. CASE n = 0 BY <1>6, <1>7, <1>a, <2>1 DEF Artifacts
  <2>2. CASE n # 0
    <3>1. i = Feature BY <2>2
    <3>2. /\ d2.arts.source = d.arts.source /\ d2.arts.reviews = d.arts.reviews
          /\ d2.arts.outline = d.arts.outline
      BY <1>7, <1>a DEF Artifacts
    <3>3. d2.stash = <<>> => \A m \in 1..Requests : d2.arts.outline[m] = "complete" =>
            \E u \in d2.tree.docs[Feature] \ {t} : Serves(d2, u, m)
      <4> SUFFICES ASSUME d2.stash = <<>>, NEW m \in 1..Requests,
                          d2.arts.outline[m] = "complete"
                   PROVE  \E u \in d2.tree.docs[Feature] \ {t} : Serves(d2, u, m)
        OBVIOUS
      <4>1. d.stash = <<>> BY <1>4, <1>7 DEF SameCheckouts
      <4>2. PICK u \in d.tree.docs[Feature] : Serves(d, u, m)
        BY <1>0, <3>2, <4>1 DEF Consistent, Served
      <4>3. u \in d2.tree.docs[Feature] /\ u # t
        BY <1>1, <1>4, <1>7, <3>1 DEF SameCheckouts
      <4> QED BY <3>2, <4>2, <4>3 DEF Serves
    <3>4. WithSource(d2, t, n) \in Good(c, i) BY <1>1, <1>6, <3>3, SourceGood
    <3>5. d2 \in Disks BY <1>7 DEF SameCheckouts
    <3>6. /\ SameCheckouts(d2, WithSource(d2, t, n))
          /\ WithSource(d2, t, n).arts = [d2.arts EXCEPT !.source = WithSource(d2, t, n).arts.source]
      BY <1>1, <3>5, SourceWrite
    <3>7. d2.arts \in Artifacts BY <3>5 DEF Disks
    <3> QED BY <1>7, <2>2, <3>2, <3>4, <3>6, <3>7 DEF SameCheckouts, Artifacts
  <2> QED BY <2>1, <2>2
<1> HIDE DEF d3
<1>9. d3 \in Disks /\ d3.arts \in Artifacts BY <1>8 DEF SameCheckouts, Disks
<1>b. "in_progress" \in Statuses /\ "in_progress" # "complete" BY DEF Statuses
<1>10. d4 \in Good(c, i)
  <2>1. n # 0 => d3.tree.state[Feature].lc # "completed"
    BY <1>4, <1>8 DEF SameCheckouts, Planning
  <2> QED BY <1>8, <1>b, <2>1, RequestGood
<1>11. SameCheckouts(d3, d4) /\ d4.arts.allowed = d3.arts.allowed
  <2>1. SameCheckouts(d3, d4) /\ d4.arts = [d3.arts EXCEPT !.outline = d4.arts.outline]
    BY <1>9, <1>b, RequestWrite
  <2> QED BY <1>9, <2>1 DEF Artifacts
<1> HIDE DEF d4
<1>12. /\ d4.head = d.head /\ d4.stash = d.stash /\ i \in d4.arts.allowed[i][t]
       /\ d4.tree.state = d.tree.state /\ d4.tree.code = d.tree.code
       /\ d4.tree.docs[i] = d.tree.docs[i] \cup {t}
       /\ \A j \in Items \ {i} : d4.tree.docs[j] = d.tree.docs[j]
  BY <1>4, <1>8, <1>11 DEF SameCheckouts
<1>13. s \in SoundDocuments BY <1>0, DocumentsOfDisk
<1>14. r \in SoundDocuments /\ r.lc = "task_ready" /\ r.task = t
  <2>1. r \in SoundDocuments BY <1>1, <1>13, PlannedSound
  <2> QED BY <1>13, <2>1 DEF ForTaskPlan, SoundDocuments, StateDocuments
<1> HIDE DEF r
<1>15. Pointers(r) \subseteq {t} /\ InReview(r) = {}
  BY <1>14, PointersOfSound DEF Failed
<1>16. StateFits(d4, i, r)
  BY <1>2, <1>12, <1>14, <1>15 DEF StateFits, DirtyCode
<1>17. StateNew(d4, i, r) BY <1>2, <1>12, <1>14 DEF StateNew, DecidedTask
<1>18. Writes(c, i, ds) /\ Redocumented(d4, Last(ds), i, r)
  BY <1>10, <1>14, <1>16, <1>17, RecordedWrites
<1>19. Writes(c, i, <<d1, d3, d4>>) BY <1>3, <1>8, <1>10, ThreeWrites
<1> HIDE DEF ds
<1>20. Writes(c, i, <<d1, d3, d4>> \o ds) /\ Last(<<d1, d3, d4>> \o ds) = Last(ds)
  BY <1>18, <1>19, MoreWrites
<1>21. finalizeTaskPlan(d, i, t, n) = <<d1, d3, d4>> \o ds
  BY DEF finalizeTaskPlan, d1, d2, d3, d4, ds, r, own
<1>22. isContinuing(r) BY <1>14, KindOfSound DEF Executing
<1>23. OnlyOf(d, Last(ds), i) /\ DirtyCode(Last(ds)) = {}
  BY <1>12, <1>18 DEF Redocumented, OnlyOf, DirtyCode
<1>24. Last(ds).tree.state[i] = r BY <1>18 DEF Redocumented
<1> QED BY <1>1, <1>20, <1>21, <1>22, <1>23, <1>24 DEF t

\* The task decided on is handed to an implementer, from a clean worktree or again.
LEMMA HandoverWrites ==
  ASSUME NEW c, NEW i \in Items, NEW d \in Good(c, i),
         d.tree.state[i].lc \in {"task_ready", "implementation_running", "correction_pending"},
         DecidedTask(d.tree.state[i]) \in d.tree.docs[i],
         DirtyCode(d) = {} \/ d.tree.state[i].lc = "implementation_running"
  PROVE  LET t  == DecidedTask(d.tree.state[i])
             ds == Recorded(d, i, DuringImplementation(d.tree.state[i], t))
             e  == Last(ds)
         IN  /\ Writes(c, i, ds) /\ t \in TaskIds
             /\ OnlyOf(d, e, i) /\ DirtyCode(e) = DirtyCode(d) /\ e.arts = d.arts
             /\ isContinuing(e.tree.state[i]) /\ e.tree.state[i].lc = "implementation_running"
             /\ e.tree.state[i].task = t /\ e.tree.docs[i] = d.tree.docs[i]
<1> DEFINE s == d.tree.state[i]
           t == DecidedTask(s)
           r == DuringImplementation(s, t)
           ds == Recorded(d, i, r)
<1>0. d \in Disks /\ DiskOk(d) /\ Consistent(d) BY DEF Good, DiskOk
<1>1. s \in SoundDocuments BY <1>0, DocumentsOfDisk
<1>2. t \in TaskIds BY <1>0 DEF Disks, SoundTrees
<1>3. IsSound(s) BY <1>1 DEF SoundDocuments
<1>4. s.lc # "correction_pending" => t = s.task /\ s.corr = NoTask
  BY <1>3 DEF DecidedTask, IsSound
<1>5. s.lc = "correction_pending" =>
        t = s.corr /\ s.task < t /\ primaryTaskAnchor(t) = primaryTaskAnchor(s.task)
  BY <1>3 DEF DecidedTask, IsSound
<1>6. t \in Pointers(s) BY <1>2, <1>4, <1>5, TaskIdsAreNumbers DEF Pointers, NoTask
<1>7. t \notin InReview(d.head.state[i]) BY <1>0 DEF DiskOk, Unreviewed
<1>d. t \in d.tree.docs[i] OBVIOUS
<1> HIDE DEF t
<1>8. r \in SoundDocuments /\ r.lc = "implementation_running" /\ r.task = t
  <2>1. r \in SoundDocuments BY <1>1, <1>2, ImplementedSound
  <2> QED BY <1>1, <2>1 DEF DuringImplementation, SoundDocuments, StateDocuments
<1>b. r.lc # "correction_pending" BY <1>8
<1> HIDE DEF r
<1>9. Pointers(r) \subseteq {t} /\ InReview(r) = {}
  BY <1>8, PointersOfSound DEF Failed
<1>10. \A u \in Pointers(d.head.state[i]) :
        \/ \E k \in d.tree.docs[i] : primaryTaskAnchor(k) = primaryTaskAnchor(u) /\ u <= k
        \/ u \in {r.task, r.corr}
  <2> SUFFICES ASSUME NEW u \in Pointers(d.head.state[i]), u \in {s.task, s.corr}, u # t
               PROVE \E k \in d.tree.docs[i] : primaryTaskAnchor(k) = primaryTaskAnchor(u) /\ u <= k
    BY <1>0, <1>8 DEF Consistent, Superseded
  <2>1. u # NoTask /\ u \in TaskIds BY <1>0, DocumentsOfDisk, PointersOfSound DEF Pointers
  <2>2. s.lc = "correction_pending" /\ u = s.task BY <2>1, <1>4, <1>5
  <2>3. t \in d.tree.docs[i] /\ u <= t BY <1>d, <2>1, <2>2, <1>5, <1>2, TaskIdsAreNumbers
  <2> QED BY <2>2, <2>3, <1>5
<1>11. \A e \in DirtyCode(d) : e.item = i => e.task = t
  <2>1. CASE DirtyCode(d) = {} BY <2>1
  <2>2. CASE s.lc = "implementation_running"
    BY <1>0, <1>4, <2>2 DEF Consistent, Current, Planning
  <2> QED BY <2>1, <2>2
<1>12. StateFits(d, i, r)
  BY <1>0, <1>6, <1>8, <1>9, <1>10, <1>11, <1>d DEF StateFits, Consistent, Scoped
<1>13. StateNew(d, i, r) BY <1>7, <1>8 DEF StateNew, DecidedTask
<1>14. Writes(c, i, ds) /\ Redocumented(d, Last(ds), i, r)
  BY <1>8, <1>12, <1>13, RecordedWrites
<1>15. isContinuing(r) BY <1>8, KindOfSound DEF Executing
<1> HIDE DEF ds
<1>16. OnlyOf(d, Last(ds), i) /\ DirtyCode(Last(ds)) = DirtyCode(d) /\ Last(ds).arts = d.arts
         /\ Last(ds).tree.state[i] = r /\ Last(ds).tree.docs[i] = d.tree.docs[i]
  BY <1>14 DEF Redocumented, OnlyOf, DirtyCode
<1>17. ds = Recorded(d, i, DuringImplementation(d.tree.state[i], DecidedTask(d.tree.state[i])))
  BY DEF ds, r, t
<1> QED BY <1>2, <1>8, <1>14, <1>15, <1>16, <1>17 DEF t

\* An implementation that runs is not under review in either checkout.
LEMMA RunningIsUnreviewed ==
  ASSUME NEW d \in Disks, DiskOk(d), NEW i \in Items,
         d.tree.state[i].lc = "implementation_running"
  PROVE  LET t == d.tree.state[i].task
         IN  /\ t \in TaskIds /\ d.tree.state[i].corr = NoTask
             /\ t \notin InReview(d.tree.state[i]) \cup InReview(d.head.state[i])
             /\ \A e \in DirtyCode(d) : e.item = i => e.task = t
<1> DEFINE s == d.tree.state[i]
<1>1. s \in SoundDocuments BY DocumentsOfDisk
<1>2. IsSound(s) BY <1>1 DEF SoundDocuments
<1>3. s.task \in TaskIds /\ s.corr = NoTask BY <1>2 DEF IsSound, Executing, Ids
<1>4. InReview(s) = {} BY <1>1, PointersOfSound DEF Failed
<1>5. s.task \notin InReview(d.head.state[i]) BY DEF DiskOk, Unreviewed, DecidedTask
<1>6. \A e \in DirtyCode(d) : e.item = i => e.task = s.task
  BY DEF DiskOk, Consistent, Current, Planning
<1> QED BY <1>3, <1>4, <1>5, <1>6

\* The diff of an attempt is archived before anything is recorded of it.
LEMMA ArchivedAttempt ==
  ASSUME NEW c, NEW i \in Items, NEW d \in Good(c, i), c \subseteq d.tree.code,
         d.tree.state[i].lc = "implementation_running"
  PROVE  LET e == WithDiff(d, i, d.tree.state[i].task)
         IN  /\ e \in Good(c, i) /\ SameCheckouts(d, e) /\ e.arts.allowed = d.arts.allowed
             /\ \A x \in DirtyCode(e) : x.item = i => x \in e.arts.diffs[x.item][x.task]
<1> DEFINE t == d.tree.state[i].task
           e == WithDiff(d, i, t)
<1>0. d \in Disks /\ DiskOk(d) BY DEF Good
<1>1. /\ t \in TaskIds /\ t \notin InReview(d.tree.state[i]) \cup InReview(d.head.state[i])
      /\ \A x \in DirtyCode(d) : x.item = i => x.task = t
  BY <1>0, RunningIsUnreviewed
<1> HIDE DEF t
<1>2. /\ e \in Good(c, i) /\ SameCheckouts(d, e)
      /\ e.arts = [d.arts EXCEPT !.diffs = e.arts.diffs]
      /\ DirtyCode(d) # {} => e.arts.diffs[i][t] = DirtyCode(d)
  BY <1>1, DiffGood
<1> HIDE DEF e
<1>3. e.arts.allowed = d.arts.allowed BY <1>0, <1>2 DEF Disks, Artifacts
<1>4. DirtyCode(e) = DirtyCode(d) BY <1>2 DEF SameCheckouts, DirtyCode
<1>5. ASSUME NEW x \in DirtyCode(e), x.item = i PROVE x \in e.arts.diffs[x.item][x.task]
  <2>1. x.task = t /\ DirtyCode(d) # {} BY <1>1, <1>4, <1>5
  <2> QED BY <2>1, <1>2, <1>4, <1>5
<1>6. \A x \in DirtyCode(e) : x.item = i => x \in e.arts.diffs[x.item][x.task] BY <1>5
<1> QED BY <1>2, <1>3, <1>6, Zenon DEF e, t

\* What the state document says after an attempt or its gates: the item goes on at its task.
LEMMA AttemptRecorded ==
  ASSUME NEW c, NEW i \in Items, NEW d \in Good(c, i),
         d.tree.state[i].lc = "implementation_running",
         \A e \in DirtyCode(d) : e.item = i => e \in d.arts.diffs[e.item][e.task],
         NEW r \in SoundDocuments, r.task = d.tree.state[i].task, r.corr = NoTask,
         r.lc \in Failed \cup {"review_pending"},
         \A t \in InReview(r) :
           /\ d.arts.gates[i][t].result = "passed"
           /\ d.arts.gates[i][t].code = Own(d.tree.code, i, t)
  PROVE  LET ds == Recorded(d, i, r)
             e  == Last(ds)
         IN  /\ Writes(c, i, ds) /\ OnlyOf(d, e, i) /\ isContinuing(e.tree.state[i])
             /\ e.arts = d.arts
             /\ DecidedTask(e.tree.state[i]) = DecidedTask(d.tree.state[i])
<1> DEFINE ds == Recorded(d, i, r)
           s == d.tree.state[i]
<1>0. d \in Disks /\ DiskOk(d) /\ Consistent(d) BY DEF Good, DiskOk
<1>1. s.corr = NoTask BY <1>0, RunningIsUnreviewed
<1>2. r.lc # "completed" /\ s.lc \notin Planning BY DEF Failed, Planning
<1>3. StateFits(d, i, r) BY <1>0, <1>1, <1>2, SameTaskFits
<1>4. StateNew(d, i, r) BY DEF StateNew, Failed
<1>5. Writes(c, i, ds) /\ Redocumented(d, Last(ds), i, r) BY <1>3, <1>4, RecordedWrites
<1> HIDE DEF ds
<1>6. OnlyOf(d, Last(ds), i) /\ Last(ds).arts = d.arts /\ Last(ds).tree.state[i] = r
  BY <1>5 DEF Redocumented, OnlyOf, DirtyCode
<1>7. isContinuing(r) BY KindOfSound DEF Executing
<1>8. DecidedTask(r) = DecidedTask(s) BY DEF DecidedTask, Failed
<1> QED BY <1>5, <1>6, <1>7, <1>8 DEF ds

\* A state document that was written over s keeps its task.
LEMMA FailureWrites ==
  ASSUME NEW c, NEW i \in Items, NEW d \in Good(c, i), c \subseteq d.tree.code,
         d.tree.state[i].lc = "implementation_running"
  PROVE  LET ds == ImplementationFailed(d, i, d.tree.state[i].task)
             e  == Last(ds)
         IN  /\ Writes(c, i, ds) /\ OnlyOf(d, e, i) /\ isContinuing(e.tree.state[i])
             /\ e.arts.allowed = d.arts.allowed
             /\ DecidedTask(e.tree.state[i]) = DecidedTask(d.tree.state[i])
<1> DEFINE t == d.tree.state[i].task
           d1 == WithDiff(d, i, t)
           s == d1.tree.state[i]
           r == AfterImplementationFailure(s)
           ds == Recorded(d1, i, r)
<1>0. d \in Disks /\ DiskOk(d) BY DEF Good
<1>1. /\ d1 \in Good(c, i) /\ SameCheckouts(d, d1) /\ d1.arts.allowed = d.arts.allowed
      /\ \A x \in DirtyCode(d1) : x.item = i => x \in d1.arts.diffs[x.item][x.task]
  BY ArchivedAttempt
<1>a. ImplementationFailed(d, i, t) = <<d1>> \o ds BY DEF ImplementationFailed
<1> HIDE DEF d1
<1>2. s = d.tree.state[i] /\ s \in SoundDocuments BY <1>0, <1>1, DocumentsOfDisk DEF SameCheckouts
<1> HIDE DEF s
<1>3. s.task \in TaskIds /\ s.task # NoTask
  BY <1>0, <1>2, RunningIsUnreviewed, TaskIdsAreNumbers DEF NoTask
<1>4. /\ r \in SoundDocuments /\ r.task = s.task /\ r.corr = NoTask
      /\ r.lc = "implementation_failed" /\ r.from.lc = "task_ready"
  <2>1. r \in SoundDocuments BY <1>2, <1>3, FailedImplementationSound
  <2> QED BY <1>2, <2>1 DEF AfterImplementationFailure, SoundDocuments, StateDocuments
<1> HIDE DEF r
<1>5. InReview(r) = {} BY <1>4 DEF InReview
<1>6. /\ Writes(c, i, ds) /\ OnlyOf(d1, Last(ds), i) /\ isContinuing(Last(ds).tree.state[i])
      /\ Last(ds).arts = d1.arts
      /\ DecidedTask(Last(ds).tree.state[i]) = DecidedTask(d1.tree.state[i])
  <2>1. d1.tree.state[i].lc = "implementation_running" /\ d1.tree.state[i].task = s.task
    BY <1>2 DEF s
  <2>2. r.lc \in Failed \cup {"review_pending"} BY <1>4 DEF Failed
  <2> QED BY <1>1, <1>4, <1>5, <2>1, <2>2, AttemptRecorded
<1> HIDE DEF ds
<1>7. Writes(c, i, <<d1>> \o ds) /\ Last(<<d1>> \o ds) = Last(ds)
  BY <1>1, <1>6, OneWrite, MoreWrites
<1>8. OnlyOf(d, Last(ds), i) BY <1>1, <1>6 DEF OnlyOf, SameCheckouts, DirtyCode
<1> QED BY <1>1, <1>2, <1>6, <1>7, <1>8, <1>a DEF s, t

\* Gates are written, then what they say.
\* Gates judged: their results, then the two documents.
Verdicts == {"passed", "failed"}
GateStep(d, i, result) ==
  LET t  == d.tree.state[i].task
      d1 == WithGates(d, i, t, result)
      s  == d1.tree.state[i]
  IN  <<d1>> \o Recorded(d1, i, IF result = "passed" THEN AfterGatesPassed(s)
                                ELSE AfterGatesFailed(s, "agent"))

LEMMA GateWrites ==
  ASSUME NEW c, NEW i \in Items, NEW d \in Good(c, i),
         d.tree.state[i].lc = "implementation_running",
         \A e \in DirtyCode(d) : e.item = i => e \in d.arts.diffs[e.item][e.task],
         NEW result \in Verdicts
  PROVE  LET ds == GateStep(d, i, result)
             e  == Last(ds)
         IN  /\ Writes(c, i, ds) /\ OnlyOf(d, e, i) /\ isContinuing(e.tree.state[i])
             /\ e.arts.allowed = d.arts.allowed
             /\ DecidedTask(e.tree.state[i]) = DecidedTask(d.tree.state[i])
<1> DEFINE t == d.tree.state[i].task
           d1 == WithGates(d, i, t, result)
           s == d1.tree.state[i]
           r == IF result = "passed" THEN AfterGatesPassed(s) ELSE AfterGatesFailed(s, "agent")
           ds == Recorded(d1, i, r)
<1>0. d \in Disks /\ DiskOk(d) BY DEF Good
<1>1. t \in TaskIds /\ t \notin InReview(d.tree.state[i]) \cup InReview(d.head.state[i])
  BY <1>0, RunningIsUnreviewed
<1>b. t # NoTask BY <1>1, TaskIdsAreNumbers DEF NoTask
<1> HIDE DEF t
<1>2. /\ d1 \in Good(c, i) /\ SameCheckouts(d, d1)
      /\ d1.arts.allowed = d.arts.allowed /\ d1.arts.diffs = d.arts.diffs
      /\ d1.arts.gates[i][t] = [result |-> result, code |-> Own(d.tree.code, i, t)]
  <2>1. result \in Results BY DEF Results, Verdicts
  <2> QED BY <1>1, <2>1, GatesGood
<1> HIDE DEF d1
<1>3. s = d.tree.state[i] /\ s \in SoundDocuments /\ s.task = t
  BY <1>0, <1>2, DocumentsOfDisk DEF SameCheckouts, t
<1> HIDE DEF s
<1>4. /\ r \in SoundDocuments /\ r.task = t /\ r.corr = NoTask
      /\ r.lc = IF result = "passed" THEN "review_pending" ELSE "quality_failed"
      /\ r.from.lc # "review_pending"
  <2>1. AfterGatesPassed(s) \in SoundDocuments /\ AfterGatesFailed(s, "agent") \in SoundDocuments
    BY <1>3, <1>b, PassedGatesSound, FailedGatesSound
  <2> QED BY <1>3, <2>1
          DEF AfterGatesPassed, AfterGatesFailed, SoundDocuments, StateDocuments, NoTarget
<1> HIDE DEF r
<1>5. InReview(r) \subseteq {t} /\ (result # "passed" => InReview(r) = {}) BY <1>4 DEF InReview
<1>6. \A u \in InReview(r) :
        d1.arts.gates[i][u].result = "passed" /\ d1.arts.gates[i][u].code = Own(d1.tree.code, i, u)
  BY <1>2, <1>5 DEF SameCheckouts
<1>7. \A e \in DirtyCode(d1) : e.item = i => e \in d1.arts.diffs[e.item][e.task]
  BY <1>2 DEF SameCheckouts, DirtyCode
<1>8. /\ Writes(c, i, ds) /\ OnlyOf(d1, Last(ds), i) /\ isContinuing(Last(ds).tree.state[i])
      /\ Last(ds).arts = d1.arts
      /\ DecidedTask(Last(ds).tree.state[i]) = DecidedTask(d1.tree.state[i])
  <2>1. d1.tree.state[i].lc = "implementation_running" /\ d1.tree.state[i].task = t
    BY <1>3 DEF s
  <2>2. r.lc \in Failed \cup {"review_pending"} BY <1>4 DEF Failed
  <2> QED BY <1>2, <1>4, <1>6, <1>7, <2>1, <2>2, AttemptRecorded
<1> HIDE DEF ds
<1>9. Writes(c, i, <<d1>> \o ds) /\ Last(<<d1>> \o ds) = Last(ds)
  BY <1>2, <1>8, OneWrite, MoreWrites
<1>10. OnlyOf(d, Last(ds), i) BY <1>2, <1>8 DEF OnlyOf, SameCheckouts, DirtyCode
<1>11. /\ Last(ds).arts.allowed = d.arts.allowed
       /\ DecidedTask(Last(ds).tree.state[i]) = DecidedTask(d.tree.state[i])
  BY <1>2, <1>8 DEF SameCheckouts
<1>12. GateStep(d, i, result) = <<d1>> \o ds BY Zenon DEF GateStep, ds, r, s, d1, t
<1> QED BY <1>8, <1>9, <1>10, <1>11, <1>12, Zenon

(***************************************************************************)
(* Blocks and the fix filed for one.                                       *)
(***************************************************************************)

\* An item that has no task yet takes any other document without one.
LEMMA FreshFits ==
  ASSUME NEW d \in Disks, Consistent(d), NEW i \in Items,
         d.tree.state[i].lc \in {"absent", "request_pending"}, NEW s \in SoundDocuments,
         s.lc \in {"request_pending", "task_planning_pending"}
  PROVE  StateFits(d, i, s) /\ StateNew(d, i, s)
<1> DEFINE o == d.tree.state[i]
<1>1. o \in SoundDocuments /\ IsSound(o) /\ IsSound(s) BY DocumentsOfDisk DEF SoundDocuments
<1>2. o.task = NoTask /\ o.corr = NoTask BY <1>1 DEF IsSound, PendingSpecification
<1>3. s.task = NoTask /\ s.corr = NoTask BY <1>1 DEF IsSound, PendingSpecification, Planning
<1>4. Pointers(s) = {} /\ InReview(s) = {} BY <1>3, PointersOfSound DEF Failed
<1>5. \A u \in Pointers(d.head.state[i]) :
        \E k \in d.tree.docs[i] : primaryTaskAnchor(k) = primaryTaskAnchor(u) /\ u <= k
  BY <1>2 DEF Consistent, Superseded, Pointers
<1>6. \A e \in DirtyCode(d) : e.item # i
  BY <1>2, DirtyEdits, TaskIdsAreNumbers DEF Consistent, Current, Planning, NoTask
<1>7. StateFits(d, i, s) BY <1>4, <1>5, <1>6 DEF StateFits
<1> QED BY <1>7 DEF StateNew

\* Filing the fix writes no document but the fix's own, and none where there is one.
LEMMA FixIsFiled ==
  ASSUME NEW c, NEW w, NEW d \in Good(c, w)
  PROVE  LET e == Last(<<d>> \o FixFiles(d))
         IN  /\ FixFiles(d) \in Seq(Good(c, w)) /\ e \in Good(c, w)
             /\ e.head = d.head /\ e.stash = d.stash /\ e.arts = d.arts
             /\ e.tree.docs = d.tree.docs /\ e.tree.code = d.tree.code
             /\ \A j \in Items : d.tree.state[j].lc # "absent" =>
                  e.tree.state[j] = d.tree.state[j]
<1> DEFINE e == Last(<<d>> \o FixFiles(d))
           a == WithState(d, Fix, Blank("request_pending"))
           b == WithState(d, Fix, Filed)
<1>1. Writes(c, w, <<d>>) /\ Last(<<d>>) = d BY OneWrite
<1>2. CASE d.tree.state[Fix].lc # "absent"
  <2>1. FixFiles(d) = <<>> BY <1>2 DEF FixFiles
  <2>2. <<d>> \o <<>> = <<d>> OBVIOUS
  <2>3. FixFiles(d) \in Seq(Good(c, w)) BY <2>1
  <2> QED BY <1>1, <2>1, <2>2, <2>3
<1>3. CASE d.tree.state[Fix].lc = "absent"
  <2>0. d \in Disks /\ Consistent(d) /\ Fix \in Items BY DEF Good, DiskOk, Items
  <2>1. Blank("request_pending") \in SoundDocuments /\ Filed \in SoundDocuments BY FreshSound
  <2>2. Blank("request_pending").lc = "request_pending" /\ Filed.lc = "task_planning_pending"
    BY DEF Blank, Filed
  <2>3. /\ StateFits(d, Fix, Blank("request_pending")) /\ StateNew(d, Fix, Blank("request_pending"))
        /\ StateFits(d, Fix, Filed) /\ StateNew(d, Fix, Filed)
    BY <1>3, <2>0, <2>1, <2>2, FreshFits
  <2>4. Redocumented(d, a, Fix, Blank("request_pending")) /\ Redocumented(d, b, Fix, Filed)
    BY <2>0, <2>1, StateWrite
  <2>5. a \in Good(c, w) /\ b \in Good(c, w) BY <2>0, <2>1, <2>3, <2>4, StateGood
  <2>6. FixFiles(d) = <<a, b>> BY <1>3 DEF FixFiles
  <2> HIDE DEF a, b
  <2>7. Writes(c, w, <<a, b>>) /\ Last(<<a, b>>) = b BY <2>5, TwoWrites
  <2>8. Last(<<d>> \o <<a, b>>) = b BY <1>1, <2>7, MoreWrites
  <2>9. FixFiles(d) \in Seq(Good(c, w)) BY <2>6, <2>7 DEF Writes
  <2> QED BY <1>3, <2>4, <2>5, <2>6, <2>8, <2>9 DEF Redocumented
<1> QED BY <1>2, <1>3

\* The fix, the block, and the fix it waits on.
LEMMA BlockedOnFixWrites ==
  ASSUME NEW c, NEW w, NEW d \in Good(c, w), NEW i \in Items,
         d.tree.state[i].lc \in Blockable,
         d.tree.state[i].lc \in Planning => DirtyCode(d) = {},
         d.tree.state[i].lc = "implementation_running" =>
           \A e \in DirtyCode(d) : e.item = i => e \in d.arts.diffs[e.item][e.task]
  PROVE  LET ds == BlockedOnFix(d, i)
             e  == Last(ds)
         IN  /\ Writes(c, w, ds)
             /\ e.head = d.head /\ e.tree.code = d.tree.code /\ e.arts = d.arts
<1> DEFINE files == FixFiles(d)
           d0 == Last(<<d>> \o files)
           s == Block(d0.tree.state[i], "systemic", "blocked")
           ds == Recorded(d0, i, s)
           f == [s EXCEPT !.onFix = 1]
           x == WithState(Last(ds), i, f)
<1>1. /\ files \in Seq(Good(c, w)) /\ d0 \in Good(c, w)
      /\ d0.head = d.head /\ d0.stash = d.stash /\ d0.arts = d.arts
      /\ d0.tree.docs = d.tree.docs /\ d0.tree.code = d.tree.code
      /\ d0.tree.state[i] = d.tree.state[i]
  <2>1. d.tree.state[i].lc # "absent" BY DEF Blockable, Planning, Executing, Failed
  <2> QED BY <2>1, FixIsFiled
<1>a. BlockedOnFix(d, i) = files \o ds \o <<x>> BY DEF BlockedOnFix
<1> HIDE DEF files, d0
<1>2. d0 \in Disks /\ Consistent(d0) BY <1>1 DEF Good, DiskOk
<1>3. /\ s \in SoundDocuments /\ StateFits(d0, i, s) /\ StateNew(d0, i, s)
      /\ f \in SoundDocuments /\ StateFits(d0, i, f) /\ StateNew(d0, i, f)
  <2>1. "systemic" \in Reasons BY DEF Reasons
  <2>2. DirtyCode(d0) = DirtyCode(d) BY <1>1 DEF DirtyCode
  <2>3. /\ d0.tree.state[i].lc \in Blockable
        /\ d0.tree.state[i].lc \in Planning => DirtyCode(d0) = {}
        /\ d0.tree.state[i].lc = "implementation_running" =>
             \A e \in DirtyCode(d0) : e.item = i => e \in d0.arts.diffs[e.item][e.task]
    BY <1>1, <2>2
  <2>4. \A r \in {s, [s EXCEPT !.ack = TRUE], f} :
          r \in SoundDocuments /\ StateFits(d0, i, r) /\ StateNew(d0, i, r)
    <3>1. "blocked" \in BlockStates /\ "blocked" # "review_failed" BY DEF BlockStates
    <3>2. \A r \in Blocks(d0.tree.state[i], "systemic", "blocked") :
            r \in SoundDocuments /\ StateFits(d0, i, r) /\ StateNew(d0, i, r)
      BY <1>2, <2>1, <2>3, <3>1, BlockFits
    <3> QED BY <3>2 DEF Blocks
  <2> HIDE DEF s, f
  <2> QED BY <2>4
<1> HIDE DEF s, f
<1>4. Writes(c, w, ds) /\ Redocumented(d0, Last(ds), i, s) BY <1>1, <1>3, RecordedWrites
<1> HIDE DEF ds
<1>5. Last(ds) \in Good(c, w) /\ Last(ds) \in Disks BY <1>4 DEF Writes, Good
<1>6. Redocumented(Last(ds), x, i, f) BY <1>3, <1>5, StateWrite
<1>7. StateFits(Last(ds), i, f) /\ StateNew(Last(ds), i, f) BY <1>3, <1>4, StillFits
<1> HIDE DEF x
<1>8. x \in Good(c, w) BY <1>3, <1>5, <1>6, <1>7, StateGood
<1>9. Writes(c, w, files \o ds \o <<x>>) /\ Last(files \o ds \o <<x>>) = x
  <2> DEFINE G == Good(c, w)
  <2>1. files \in G \/ files \in Seq(G) BY <1>1
  <2>2. ds \in Seq(G) /\ ds # <<>> /\ x \in G /\ files \in Seq(G) BY <1>1, <1>4, <1>8 DEF Writes
  <2> HIDE DEF G
  <2>3. files \o ds \in Seq(G) BY <2>2, LastOfConcat
  <2>4. <<x>> \in Seq(G) /\ <<x>> # <<>> /\ Last(<<x>>) = x BY <2>2, LastOfOne
  <2>5. /\ (files \o ds) \o <<x>> \in Seq(G) /\ (files \o ds) \o <<x>> # <<>>
        /\ Last((files \o ds) \o <<x>>) = x
    BY <2>3, <2>4, LastOfConcat
  <2> QED BY <2>2, <2>5 DEF Writes, G
<1>10. x.head = d.head /\ x.tree.code = d.tree.code /\ x.arts = d.arts
  BY <1>1, <1>4, <1>6 DEF Redocumented
<1> QED BY <1>9, <1>10, <1>a

\* A gate that failed before the change too: what was changed is archived, then discarded.
LEMMA WaivedWrites ==
  ASSUME NEW c, NEW i \in Items, NEW d \in Good(c, i),
         d.tree.state[i].lc = "implementation_running",
         \A e \in DirtyCode(d) : e.item = i => e \in d.arts.diffs[e.item][e.task]
  PROVE  LET ds == WaivedGate(d, i, d.tree.state[i].task)
         IN  Writes(c, i, ds) /\ Last(ds).head = Last(ds).tree
<1> DEFINE t == d.tree.state[i].task
           result == "waived"
           d1 == WithGates(d, i, t, result)
           bs == BlockedOnFix(d1, i)
           ds == <<d1>> \o bs
           d2 == Discard(Last(ds), i, t)
<1>0. d \in Disks /\ DiskOk(d) BY DEF Good
<1>1. t \in TaskIds /\ t \notin InReview(d.tree.state[i]) \cup InReview(d.head.state[i])
  BY <1>0, RunningIsUnreviewed
<1> HIDE DEF t
<1>2. /\ d1 \in Good(c, i) /\ SameCheckouts(d, d1) /\ d1.arts.diffs = d.arts.diffs
  <2>1. result \in Results BY DEF Results
  <2> HIDE DEF result
  <2>2. /\ d1 \in Good(c, i) /\ SameCheckouts(d, d1)
        /\ d1.arts.allowed = d.arts.allowed /\ d1.arts.diffs = d.arts.diffs
        /\ d1.arts.gates[i][t] = [result |-> result, code |-> Own(d.tree.code, i, t)]
    BY <1>1, <2>1, GatesGood
  <2> QED BY <2>2
<1>a. WaivedGate(d, i, t) = ds \o <<d2, CommitAll(d2)>> BY DEF WaivedGate
<1> HIDE DEF d1
<1>3. /\ d1.tree.state[i].lc = "implementation_running" /\ DirtyCode(d1) = DirtyCode(d)
      /\ \A e \in DirtyCode(d1) : e.item = i => e \in d1.arts.diffs[e.item][e.task]
  BY <1>2 DEF SameCheckouts, DirtyCode
<1>4. /\ Writes(c, i, bs) /\ Last(bs).head = d1.head /\ Last(bs).tree.code = d1.tree.code
      /\ Last(bs).arts = d1.arts
  <2>1. d1.tree.state[i].lc \in Blockable /\ d1.tree.state[i].lc \notin Planning
    BY <1>3 DEF Blockable, Executing, Planning
  <2> QED BY <1>2, <1>3, <2>1, BlockedOnFixWrites
<1> HIDE DEF bs
<1>5. Writes(c, i, ds) /\ Last(ds) = Last(bs) BY <1>2, <1>4, OneWrite, MoreWrites
<1> HIDE DEF ds
<1>6. Last(ds) \in Good(c, i)
        /\ \A e \in DirtyCode(Last(ds)) : e.item = i =>
             e \in Last(ds).arts.diffs[e.item][e.task]
  BY <1>3, <1>4, <1>5 DEF Writes, DirtyCode
<1>7. d2 \in Good(c, i) BY <1>6, DiscardGood
<1> HIDE DEF d2
<1>8. CommitAll(d2) \in Good(c, i) /\ CommitAll(d2).head = CommitAll(d2).tree
  BY <1>7, CommitAllGood
<1>9. Writes(c, i, <<d2, CommitAll(d2)>>) /\ Last(<<d2, CommitAll(d2)>>) = CommitAll(d2)
  BY <1>7, <1>8, TwoWrites
<1>10. Writes(c, i, ds \o <<d2, CommitAll(d2)>>)
         /\ Last(ds \o <<d2, CommitAll(d2)>>) = CommitAll(d2)
  BY <1>5, <1>9, MoreWrites
<1> QED BY <1>8, <1>10, <1>a DEF t

\* A block a person has to answer.
LEMMA BlockedForHumanWrites ==
  ASSUME NEW c, NEW w, NEW d \in Good(c, w), NEW i \in Items,
         d.tree.state[i].lc \in Failed \cup {"blocked"}
  PROVE  LET ds == BlockedForHuman(d, i)
         IN  Writes(c, w, ds) /\ Last(ds).head = Last(ds).tree
<1> DEFINE s == Block(d.tree.state[i], "diagnosed", "blocked")
           ds == Recorded(d, i, s)
           f == [s EXCEPT !.ack = TRUE]
           x == WithState(Last(ds), i, f)
<1>a. BlockedForHuman(d, i) = ds \o <<x, CommitAll(x)>> BY DEF BlockedForHuman
<1>1. d \in Disks /\ Consistent(d) BY DEF Good, DiskOk
<1>2. /\ s \in SoundDocuments /\ StateFits(d, i, s) /\ StateNew(d, i, s)
      /\ f \in SoundDocuments /\ StateFits(d, i, f) /\ StateNew(d, i, f)
  <2>1. "diagnosed" \in Reasons BY DEF Reasons
  <2>2. /\ d.tree.state[i].lc \in Blockable /\ d.tree.state[i].lc \notin Planning
        /\ d.tree.state[i].lc # "implementation_running"
    BY DEF Blockable, Failed, Planning
  <2>3. "blocked" \in BlockStates /\ "blocked" # "review_failed" BY DEF BlockStates
  <2>4. \A r \in {s, f, [s EXCEPT !.onFix = 1]} :
          r \in SoundDocuments /\ StateFits(d, i, r) /\ StateNew(d, i, r)
    <3>1. \A r \in Blocks(d.tree.state[i], "diagnosed", "blocked") :
            r \in SoundDocuments /\ StateFits(d, i, r) /\ StateNew(d, i, r)
      BY <1>1, <2>1, <2>2, <2>3, BlockFits
    <3> QED BY <3>1 DEF Blocks
  <2> HIDE DEF s, f
  <2> QED BY <2>4
<1> HIDE DEF s, f
<1>4. Writes(c, w, ds) /\ Redocumented(d, Last(ds), i, s) BY <1>2, RecordedWrites
<1> HIDE DEF ds
<1>5. Last(ds) \in Good(c, w) /\ Last(ds) \in Disks BY <1>4 DEF Writes, Good
<1>6. Redocumented(Last(ds), x, i, f) BY <1>2, <1>5, StateWrite
<1>7. StateFits(Last(ds), i, f) /\ StateNew(Last(ds), i, f) BY <1>2, <1>4, StillFits
<1> HIDE DEF x
<1>8. x \in Good(c, w) BY <1>2, <1>5, <1>6, <1>7, StateGood
<1>9. CommitAll(x) \in Good(c, w) /\ CommitAll(x).head = CommitAll(x).tree
  BY <1>8, CommitAllGood
<1>10. Writes(c, w, <<x, CommitAll(x)>>) /\ Last(<<x, CommitAll(x)>>) = CommitAll(x)
  BY <1>8, <1>9, TwoWrites
<1>11. Writes(c, w, ds \o <<x, CommitAll(x)>>) /\ Last(ds \o <<x, CommitAll(x)>>) = CommitAll(x)
  BY <1>4, <1>10, MoreWrites
<1> QED BY <1>9, <1>11, <1>a

\* A block recorded by diagnosis, by a review or by a completion that cannot be.
LEMMA BlockWrites ==
  ASSUME NEW c, NEW w, NEW d \in Good(c, w), NEW i \in Items,
         d.tree.state[i].lc \in Blockable \ {"implementation_running"},
         d.tree.state[i].lc \in Planning => DirtyCode(d) = {},
         NEW why \in Reasons, NEW lc \in BlockStates,
         lc = "review_failed" => d.tree.state[i].task # NoTask
  PROVE  Writes(c, w, Recorded(d, i, Block(d.tree.state[i], why, lc)))
<1> DEFINE b == Block(d.tree.state[i], why, lc)
<1>1. d \in Disks /\ Consistent(d) BY DEF Good, DiskOk
<1>2. \A r \in Blocks(d.tree.state[i], why, lc) :
        r \in SoundDocuments /\ StateFits(d, i, r) /\ StateNew(d, i, r)
  BY <1>1, BlockFits
<1>3. b \in Blocks(d.tree.state[i], why, lc) BY DEF Blocks
<1> HIDE DEF b
<1>4. b \in SoundDocuments /\ StateFits(d, i, b) /\ StateNew(d, i, b) BY <1>2, <1>3
<1>5. Writes(c, w, Recorded(d, i, b)) BY <1>4, RecordedWrites
<1> QED BY <1>5 DEF b

(***************************************************************************)
(* Corrections, reviews and completion.                                    *)
(***************************************************************************)

\* What is known of a correction asked for next.
LEMMA CorrectionIsNew ==
  ASSUME NEW d \in Disks, Consistent(d), NEW i \in Items,
         d.tree.state[i].task # NoTask, d.tree.state[i].corr = NoTask,
         NextCorrection(d, i, d.tree.state[i].task) # NoTask
  PROVE  LET t == d.tree.state[i].task
             k == NextCorrection(d, i, t)
         IN  /\ t \in TaskIds /\ k \in TaskIds /\ t < k
             /\ primaryTaskAnchor(k) = primaryTaskAnchor(t)
             /\ k \notin Pointers(d.tree.state[i]) \cup Pointers(d.head.state[i])
             /\ d.stash = <<>> => t \in d.tree.docs[i]
             /\ d.stash = <<>> /\ i = Feature => primaryTaskAnchor(k) \in d.tree.docs[i]
<1> DEFINE s == d.tree.state[i]
           t == s.task
           k == NextCorrection(d, i, t)
<1>1. s \in SoundDocuments BY DocumentsOfDisk
<1>2. t \in TaskIds /\ Pointers(s) = {t}
  BY <1>1, PointersOfSound DEF SoundDocuments, IsSound, Ids
<1>3. /\ k \in TaskIds /\ t < k /\ k \notin d.tree.docs[i]
      /\ primaryTaskAnchor(k) = primaryTaskAnchor(t)
      /\ \A m \in d.tree.docs[i] : primaryTaskAnchor(m) = primaryTaskAnchor(t) => m < k
  BY <1>2, NextCorrectionIsNew
<1> HIDE DEF k
<1>4. t \in Nat /\ k \in Nat BY <1>2, <1>3, TaskIdsAreNumbers
<1>5. k \notin Pointers(s) BY <1>2, <1>3, <1>4
<1>6. k \notin Pointers(d.head.state[i])
  <2> SUFFICES ASSUME k \in Pointers(d.head.state[i]) PROVE FALSE OBVIOUS
  <2>1. k \notin {s.task, s.corr} BY <1>3, <1>4, TaskIdsAreNumbers DEF NoTask
  <2>2. PICK m \in d.tree.docs[i] : primaryTaskAnchor(m) = primaryTaskAnchor(k) /\ k <= m
    BY <2>1 DEF Consistent, Superseded
  <2>3. m \in TaskIds BY DEF Disks, SoundTrees
  <2>4. m < k /\ m \in Nat BY <1>3, <2>2, <2>3, TaskIdsAreNumbers
  <2> QED BY <1>4, <2>2, <2>4
<1>7. d.stash = <<>> => t \in d.tree.docs[i] BY <1>2 DEF Consistent, Resolved
<1>8. d.stash = <<>> /\ i = Feature => primaryTaskAnchor(k) \in d.tree.docs[i]
  BY <1>3, <1>7 DEF Consistent, Served
<1> QED BY <1>2, <1>3, <1>5, <1>6, <1>7, <1>8 DEF k

\* A correction asked for by a review or the scope check.
LEMMA RequestCorrectionWrites ==
  ASSUME NEW c, NEW i \in Items, NEW d \in Good(c, i), d.tree.state[i].lc = "review_pending",
         d.tree.state[i].task \in d.tree.docs[i],
         NextCorrection(d, i, d.tree.state[i].task) # NoTask,
         NEW areas \in SUBSET Areas, i \in areas
  PROVE  LET k  == NextCorrection(d, i, d.tree.state[i].task)
             ds == RequestCorrection(d, i, k, areas)
         IN  Writes(c, i, ds) /\ Last(ds).head = Last(ds).tree /\ k \in TaskIds
<1> DEFINE s == d.tree.state[i]
           t == s.task
           k == NextCorrection(d, i, t)
           r == ForCorrection(s, k)
           d1 == WithDocument(d, i, k)
           d2 == WithTask(d1, i, k, areas)
           es == Recorded(d2, i, r)
           ds == <<d1, d2>> \o es
<1>0. d \in Disks /\ Consistent(d) BY DEF Good, DiskOk
<1>1. s \in SoundDocuments /\ IsSound(s) BY <1>0, DocumentsOfDisk DEF SoundDocuments
<1>2. s.task # NoTask /\ s.corr = NoTask BY <1>1 DEF IsSound, Executing
<1>3. /\ t \in TaskIds /\ k \in TaskIds /\ t < k
      /\ primaryTaskAnchor(k) = primaryTaskAnchor(t)
      /\ k \notin Pointers(d.tree.state[i]) \cup Pointers(d.head.state[i])
      /\ d.stash = <<>> /\ i = Feature => primaryTaskAnchor(k) \in d.tree.docs[i]
  BY <1>0, <1>2, CorrectionIsNew
<1>a. RequestCorrection(d, i, k, areas) = Append(ds, CommitAll(Last(ds)))
  BY DEF RequestCorrection, Then
<1> HIDE DEF k
<1>4. d1 \in Good(c, i) BY <1>3, DocumentGood
<1>5. /\ d1 \in Disks
      /\ d1.head = d.head /\ d1.stash = d.stash /\ d1.arts = d.arts
      /\ d1.tree.state = d.tree.state /\ d1.tree.code = d.tree.code
      /\ d1.tree.docs[i] = d.tree.docs[i] \cup {k}
  BY <1>0, <1>3, DocumentWrite
<1> HIDE DEF d1
<1>6. d2 \in Good(c, i) BY <1>3, <1>4, TaskGood
<1>7. /\ SameCheckouts(d1, d2)
      /\ d2.arts.diffs = d.arts.diffs
      /\ \A u \in TaskIds :
           d2.arts.allowed[i][u] = IF u = k THEN areas ELSE d.arts.allowed[i][u]
  <2>1. /\ SameCheckouts(d1, d2)
        /\ d2.arts = [d1.arts EXCEPT !.allowed = d2.arts.allowed]
        /\ \A j \in Items, u \in TaskIds :
             d2.arts.allowed[j][u] = IF j = i /\ u = k THEN areas ELSE d1.arts.allowed[j][u]
    BY <1>3, <1>5, TaskWrite
  <2> HIDE DEF d2
  <2> QED BY <1>5, <2>1 DEF Disks, Artifacts
<1> HIDE DEF d2
<1>8. r \in SoundDocuments /\ r.lc = "correction_pending" /\ r.task = t /\ r.corr = k
  <2>1. r \in SoundDocuments BY <1>1, <1>2, <1>3, CorrectionSound
  <2> QED BY <1>1, <2>1 DEF ForCorrection, SoundDocuments, StateDocuments
<1> HIDE DEF r
<1>9. Pointers(r) \subseteq {t, k} /\ Pointers(r) \subseteq TaskIds /\ InReview(r) = {}
  BY <1>8, PointersOfSound DEF Failed
<1>10. StateFits(d2, i, r)
  <2>1. d2.stash = <<>> => Pointers(r) \subseteq d2.tree.docs[i]
    BY <1>5, <1>7, <1>9 DEF SameCheckouts
  <2>2. t \in Pointers(s) BY <1>2 DEF Pointers
  <2>3. \A u \in Pointers(r) : i \in d2.arts.allowed[i][u]
    BY <1>0, <1>7, <1>9, <2>2 DEF Consistent, Scoped
  <2>4. \A u \in Pointers(d.head.state[i]) :
        \/ \E m \in d.tree.docs[i] : primaryTaskAnchor(m) = primaryTaskAnchor(u) /\ u <= m
        \/ u \in {r.task, r.corr}
    <3>1. \A u \in Pointers(d.head.state[i]) : u # NoTask BY DEF Pointers
    <3> QED BY <1>0, <1>2, <1>8, <3>1 DEF Consistent, Superseded
  <2>5. d2.head = d.head /\ d.tree.docs[i] \subseteq d2.tree.docs[i]
          /\ DirtyCode(d2) = DirtyCode(d)
    BY <1>5, <1>7 DEF SameCheckouts, DirtyCode
  <2>6. \A e \in DirtyCode(d) : e.item = i =>
          e \in d.arts.diffs[e.item][e.task] /\ e.task = r.task
    BY <1>0, <1>8 DEF Consistent, Archived, Current, Planning
  <2> QED BY <1>7, <1>8, <1>9, <2>1, <2>3, <2>4, <2>5, <2>6 DEF StateFits
<1>11. StateNew(d2, i, r)
  <2>1. InReview(d.head.state[i]) \subseteq Pointers(d.head.state[i])
    BY <1>0, DocumentsOfDisk, PointersOfSound
  <2> QED BY <1>3, <1>5, <1>7, <1>8, <2>1 DEF StateNew, DecidedTask, SameCheckouts
<1>12. Writes(c, i, es) BY <1>6, <1>8, <1>10, <1>11, RecordedWrites
<1> HIDE DEF es
<1>13. Writes(c, i, ds) BY <1>4, <1>6, <1>12, TwoWrites, MoreWrites
<1> HIDE DEF ds
<1>14. /\ Writes(c, i, Append(ds, CommitAll(Last(ds))))
       /\ Last(Append(ds, CommitAll(Last(ds)))).head = Last(Append(ds, CommitAll(Last(ds)))).tree
  BY <1>13, CommittedWrites
<1> QED BY <1>3, <1>14, <1>a DEF k

\* An approved review closes the request its arc was planned for, then the arc.
LEMMA ApproveWrites ==
  ASSUME NEW c, NEW i \in Items, NEW d \in Good(c, i), d.tree.state[i].lc = "review_pending",
         d.tree.state[i].task \in d.tree.docs[i]
  PROVE  LET ds == ApproveReview(d, i, d.tree.state[i].task)
         IN  Writes(c, i, ds) /\ Last(ds).head = Last(ds).tree
<1> DEFINE s == d.tree.state[i]
           t == s.task
           n == d.arts.source[primaryTaskAnchor(t)]
           d1 == WithReview(d, i, t)
           d2 == IF i = Feature THEN WithRequest(d1, n, "complete") ELSE d1
           r == AfterApprovedReview(s)
           es == Recorded(d2, i, r)
           ds == <<d1, d2>> \o es
<1>a. ApproveReview(d, i, t) = Append(ds, CommitAll(Last(ds)))
  BY DEF ApproveReview, Then
<1>0. d \in Disks /\ Consistent(d) BY DEF Good, DiskOk
<1>1. s \in SoundDocuments /\ IsSound(s) BY <1>0, DocumentsOfDisk DEF SoundDocuments
<1>2. s.corr = NoTask BY <1>1 DEF IsSound
<1>3. t \in TaskIds /\ primaryTaskAnchor(t) \in TaskIds
  <2>1. t \in TaskIds BY <1>0 DEF Disks, SoundTrees
  <2> QED BY <2>1, AnchorOfArc
<1>4. n \in 0..Requests BY <1>0, <1>3 DEF Disks, Artifacts
<1>5. /\ d1 \in Good(c, i) /\ SameCheckouts(d, d1)
      /\ d1.arts = [d.arts EXCEPT !.reviews = d1.arts.reviews] /\ t \in d1.arts.reviews[i]
  BY <1>3, ReviewGood
<1> HIDE DEF d1
<1>6. d1.arts.source = d.arts.source /\ d1.arts.diffs = d.arts.diffs
  BY <1>0, <1>5 DEF Disks, Artifacts
<1>7. d2 \in Good(c, i) /\ SameCheckouts(d, d2) /\ d2.arts.diffs = d.arts.diffs
  <2>1. CASE i # Feature BY <2>1, <1>5, <1>6
  <2>2. CASE i = Feature
    <3>1. d1.stash = <<>> => \E u \in d1.tree.docs[Feature] : Serves(d1, u, n)
      <4> SUFFICES ASSUME d1.stash = <<>>
                   PROVE  \E u \in d1.tree.docs[Feature] : Serves(d1, u, n)
        OBVIOUS
      <4> DEFINE u == primaryTaskAnchor(t)
      <4>1. u \in d1.tree.docs[Feature]
        BY <1>0, <1>5, <2>2 DEF SameCheckouts, Consistent, Served
      <4>2. Serves(d1, u, n) BY <1>5, <1>6, <2>2 DEF Serves
      <4> QED BY <4>1, <4>2
    <3>2. "complete" \in Statuses BY DEF Statuses
    <3> DEFINE e == WithRequest(d1, n, "complete")
    <3> HIDE DEF n
    <3>3. e \in Good(c, i) BY <1>4, <1>5, <3>1, <3>2, RequestGood
    <3>4. d1 \in Disks /\ d1.arts \in Artifacts BY <1>5 DEF Good, Disks
    <3>5. SameCheckouts(d1, e) /\ e.arts = [d1.arts EXCEPT !.outline = e.arts.outline]
      BY <1>4, <3>2, <3>4, RequestWrite
    <3>6. d2 = e BY <2>2
    <3> HIDE DEF e, d2
    <3> QED BY <1>5, <1>6, <3>3, <3>4, <3>5, <3>6 DEF SameCheckouts, Artifacts
  <2> QED BY <2>1, <2>2
<1> HIDE DEF d2
<1>8. r \in SoundDocuments /\ r.lc = "formalized" /\ r.task = NoTask
  <2>1. r \in SoundDocuments BY <1>1, ApprovedSound
  <2> QED BY <1>1, <2>1 DEF AfterApprovedReview, SoundDocuments, StateDocuments
<1> HIDE DEF r
<1>9. Pointers(r) = {} /\ InReview(r) = {}
  BY <1>8, PointersOfSound DEF Failed
<1>10. StateFits(d2, i, r)
  <2>1. \A u \in Pointers(d.head.state[i]) : u # NoTask /\ u \in Nat
    BY <1>0, DocumentsOfDisk, PointersOfSound, TaskIdsAreNumbers DEF Pointers
  <2>2. t \in Nat BY <1>3, TaskIdsAreNumbers
  <2>3. \A u \in Pointers(d.head.state[i]) :
          \E m \in d.tree.docs[i] : primaryTaskAnchor(m) = primaryTaskAnchor(u) /\ u <= m
    BY <1>0, <1>2, <2>1, <2>2 DEF Consistent, Superseded
  <2>4. DirtyCode(d2) = DirtyCode(d) BY <1>7 DEF SameCheckouts, DirtyCode
  <2>5. \A e \in DirtyCode(d) : e.item = i => e \in d.arts.diffs[e.item][e.task]
    BY <1>0 DEF Consistent, Archived
  <2>6. r.lc \in Planning /\ r.lc # "completed" BY <1>8 DEF Planning
  <2> QED BY <1>7, <1>9, <2>3, <2>4, <2>5, <2>6 DEF StateFits, SameCheckouts
<1>11. StateNew(d2, i, r) BY <1>8 DEF StateNew
<1>12. Writes(c, i, es) BY <1>7, <1>8, <1>10, <1>11, RecordedWrites
<1> HIDE DEF es
<1>13. Writes(c, i, ds) BY <1>5, <1>7, <1>12, TwoWrites, MoreWrites
<1> HIDE DEF ds
<1>14. /\ Writes(c, i, Append(ds, CommitAll(Last(ds))))
       /\ Last(Append(ds, CommitAll(Last(ds)))).head = Last(Append(ds, CommitAll(Last(ds)))).tree
  BY <1>13, CommittedWrites
<1> QED BY <1>14, <1>a

\* A rejected review is a block, committed.
LEMMA RejectWrites ==
  ASSUME NEW c, NEW i \in Items, NEW d \in Good(c, i), d.tree.state[i].lc = "review_pending"
  PROVE  LET ds == RejectReview(d, i)
         IN  Writes(c, i, ds) /\ Last(ds).head = Last(ds).tree
<1> DEFINE s == d.tree.state[i]
           es == Recorded(d, i, Block(s, "review", "review_failed"))
<1>a. RejectReview(d, i) = Append(es, CommitAll(Last(es))) BY DEF RejectReview, Then
<1>1. s.task # NoTask BY DEF Good, Disks, SoundTrees, SoundDocuments, IsSound, Executing
<1>2. s.lc \in Blockable \ {"implementation_running"} /\ s.lc \notin Planning
  BY DEF Blockable, Executing, Planning
<1>3. "review" \in Reasons /\ "review_failed" \in BlockStates BY DEF Reasons, BlockStates
<1>4. Writes(c, i, es) BY <1>1, <1>2, <1>3, BlockWrites
<1> HIDE DEF es
<1>5. /\ Writes(c, i, Append(es, CommitAll(Last(es))))
      /\ Last(Append(es, CommitAll(Last(es)))).head = Last(Append(es, CommitAll(Last(es)))).tree
  BY <1>4, CommittedWrites
<1> QED BY <1>5, <1>a

\* A completion closes the item when every request is.
LEMMA CompletionWrites ==
  ASSUME NEW c, NEW i \in Items, NEW d \in Good(c, i), d.tree.state[i].lc \in Planning,
         DirtyCode(d) = {}, \A n \in 1..Requests : d.arts.outline[n] = "complete"
  PROVE  LET es == Recorded(d, i, AfterCompletion(d.tree.state[i]))
             ds == Append(es, CommitAll(Last(es)))
         IN  Writes(c, i, ds) /\ Last(ds).head = Last(ds).tree
<1> DEFINE s == d.tree.state[i]
           r == AfterCompletion(s)
           es == Recorded(d, i, r)
<1>0. d \in Disks /\ Consistent(d) BY DEF Good, DiskOk
<1>1. s \in SoundDocuments /\ IsSound(s) BY <1>0, DocumentsOfDisk DEF SoundDocuments
<1>2. s.task = NoTask /\ s.corr = NoTask BY <1>1 DEF IsSound, Planning
<1>3. r \in SoundDocuments /\ r.lc = "completed" /\ r.task = NoTask /\ r.corr = NoTask
  <2>1. r \in SoundDocuments BY <1>1, CompletedSound
  <2> QED BY <1>1, <2>1 DEF AfterCompletion, SoundDocuments, StateDocuments
<1> HIDE DEF r
<1>4. Pointers(r) = {} /\ InReview(r) = {}
  BY <1>3, PointersOfSound DEF Failed
<1>5. \A u \in Pointers(d.head.state[i]) :
        \E m \in d.tree.docs[i] : primaryTaskAnchor(m) = primaryTaskAnchor(u) /\ u <= m
  BY <1>0, <1>2 DEF Consistent, Superseded, Pointers
<1>6. StateFits(d, i, r) BY <1>4, <1>5 DEF StateFits
<1>7. StateNew(d, i, r) BY <1>3 DEF StateNew
<1>8. Writes(c, i, es) BY <1>3, <1>6, <1>7, RecordedWrites
<1> HIDE DEF es
<1>9. /\ Writes(c, i, Append(es, CommitAll(Last(es))))
      /\ Last(Append(es, CommitAll(Last(es)))).head = Last(Append(es, CommitAll(Last(es)))).tree
  BY <1>8, CommittedWrites
<1> QED BY <1>9 DEF es, r

(***************************************************************************)
(* Diagnosis.                                                              *)
(***************************************************************************)

\* A repair changes nothing the inspection goes by.
LEMMA CorrectedContinues ==
  ASSUME NEW s \in SoundDocuments, s.lc \in Failed \cup {"blocked"},
         WorkItemInspectionKind(s) \in Failed \cup {"blocked"}
  PROVE  isContinuing(AfterStateCorrection(s, s.task))
<1> DEFINE r == AfterStateCorrection(s, s.task)
<1>1. s \in StateDocuments BY DEF SoundDocuments
<1>2. r.lc = s.lc /\ r.onFix = s.onFix /\ r.ack = s.ack
  BY <1>1 DEF AfterStateCorrection, StateDocuments
<1> HIDE DEF r
<1>3. WorkItemInspectionKind(s) = WorkItemInspectionKind(r)
  BY <1>2 DEF WorkItemInspectionKind, MissingPointer, Failed, Planning, Executing
<1> QED BY <1>3 DEF isContinuing, Failed, PendingSpecification, Planning, r

\* Discard, document, artifact, the two state documents, and a commit of those paths.
LEMMA CorrectStateWrites ==
  ASSUME NEW c, NEW i \in Items, NEW d \in Good(c, i),
         d.tree.state[i].lc \in Failed \cup {"blocked"}, d.tree.state[i].task # NoTask,
         WorkItemInspectionKind(d.tree.state[i]) \in Failed \cup {"blocked"},
         NEW k, k = NextCorrection(d, i, d.tree.state[i].task), k # NoTask
  PROVE  LET ds == CorrectState(d, i, k)
             e  == Last(ds)
         IN  /\ Writes(c, i, ds) /\ OnlyOf(d, e, i) /\ isContinuing(e.tree.state[i])
             /\ e.arts.allowed[i][DecidedTask(e.tree.state[i])] =
                  d.arts.allowed[i][DecidedTask(d.tree.state[i])]
             /\ k \in TaskIds
<1> DEFINE s == d.tree.state[i]
           t == s.task
           r == AfterStateCorrection(s, t)
           d1 == Discard(d, i, t)
           d2 == WithDocument(d1, i, k)
           none == {}
           d3 == WithTask(d2, i, k, none)
           es == Recorded(d3, i, r)
           ds == <<d1, d2, d3>> \o es
           paths == Project \cup {<<"doc", i, k>>, <<"state", i>>}
           e == CommitOnly(Last(ds), paths)
<1>a. CorrectState(d, i, k) = Append(ds, e) BY DEF CorrectState
<1>0. d \in Disks /\ Consistent(d) BY DEF Good, DiskOk
<1>1. s \in SoundDocuments /\ IsSound(s) BY <1>0, DocumentsOfDisk DEF SoundDocuments
<1>2. s.corr = NoTask /\ s.lc \notin Planning /\ s.lc # "implementation_running"
  BY <1>1 DEF IsSound, Failed, Planning
<1>3. /\ t \in TaskIds /\ k \in TaskIds /\ t < k
      /\ k \notin Pointers(d.tree.state[i]) \cup Pointers(d.head.state[i])
      /\ d.stash = <<>> /\ i = Feature => primaryTaskAnchor(k) \in d.tree.docs[i]
  BY <1>0, <1>2, CorrectionIsNew
<1>4. \A x \in DirtyCode(d) : x.item = i => x \in d.arts.diffs[x.item][x.task]
  BY <1>0, <1>2 DEF Consistent, Archived
<1>5. d1 \in Good(c, i) BY <1>4, DiscardGood
<1>6. /\ d1 \in Disks
      /\ d1.head = d.head /\ d1.stash = d.stash /\ d1.arts = d.arts
      /\ d1.tree.docs = d.tree.docs /\ d1.tree.state = d.tree.state
      /\ d1.tree.code \subseteq d.tree.code
  BY <1>0, DiscardWrite
<1> HIDE DEF d1
<1>7. d2 \in Good(c, i) BY <1>3, <1>5, <1>6, DocumentGood
<1>8. /\ d2 \in Disks
      /\ d2.head = d1.head /\ d2.stash = d1.stash /\ d2.arts = d1.arts
      /\ d2.tree.state = d1.tree.state /\ d2.tree.code = d1.tree.code
      /\ d2.tree.docs[i] = d1.tree.docs[i] \cup {k}
      /\ \A j \in Items \ {i} : d2.tree.docs[j] = d1.tree.docs[j]
  BY <1>3, <1>6, DocumentWrite
<1> HIDE DEF d2
<1>9. none \in SUBSET Areas OBVIOUS
<1> HIDE DEF none
<1>10. k \notin Pointers(d2.tree.state[i]) \cup Pointers(d2.head.state[i])
  BY <1>3, <1>6, <1>8
<1>11. d3 \in Good(c, i) BY <1>3, <1>7, <1>9, <1>10, TaskGood
<1>12. /\ SameCheckouts(d2, d3)
       /\ d3.arts.allowed[i][t] = d.arts.allowed[i][t] /\ d3.arts.diffs = d.arts.diffs
  <2>1. /\ SameCheckouts(d2, d3)
        /\ d3.arts = [d2.arts EXCEPT !.allowed = d3.arts.allowed]
        /\ \A j \in Items, u \in TaskIds :
             d3.arts.allowed[j][u] = IF j = i /\ u = k THEN none ELSE d2.arts.allowed[j][u]
    BY <1>3, <1>8, <1>9, TaskWrite
  <2>2. t # k BY <1>3, TaskIdsAreNumbers
  <2> HIDE DEF d3
  <2>3. d2.arts \in Artifacts /\ d2.arts = d.arts BY <1>6, <1>8 DEF Disks
  <2>4. d3.arts.diffs = d2.arts.diffs BY <2>1, <2>3 DEF Artifacts
  <2>5. d3.arts.allowed[i][t] = d2.arts.allowed[i][t] BY <1>3, <2>1, <2>2
  <2> QED BY <2>1, <2>3, <2>4, <2>5
<1> HIDE DEF d3
<1>13. /\ d3 \in Disks /\ d3.head = d.head /\ d3.stash = d.stash
       /\ d3.tree.state = d.tree.state /\ d3.tree.code \subseteq d.tree.code
       /\ \A j \in Items \ {i} : d3.tree.docs[j] = d.tree.docs[j]
  BY <1>6, <1>8, <1>12 DEF SameCheckouts
<1>14. /\ r \in SoundDocuments /\ r.task = t /\ r.corr = NoTask /\ r.lc = s.lc
       /\ r.from = NoTarget
  <2>1. r \in SoundDocuments BY <1>1, CorrectedStateSound
  <2> QED BY <1>1, <2>1 DEF AfterStateCorrection, SoundDocuments, StateDocuments
<1>15. isContinuing(r) BY <1>1, CorrectedContinues
<1> HIDE DEF r
<1>16. InReview(r) = {} BY <1>14 DEF InReview, NoTarget, Failed
<1>17. StateFits(d3, i, r) /\ StateNew(d3, i, r)
  <2>1. Consistent(d3) BY <1>11 DEF Good, DiskOk
  <2>2. d3.tree.state[i] = s BY <1>13
  <2>3. r.lc # "completed" BY <1>14 DEF Failed
  <2>4. StateFits(d3, i, r)
    BY <1>2, <1>13, <1>14, <1>16, <2>1, <2>2, <2>3, SameTaskFits
  <2> QED BY <1>14, <2>4 DEF StateNew, Failed
<1>18. Writes(c, i, es) /\ Redocumented(d3, Last(es), i, r)
  BY <1>11, <1>14, <1>17, RecordedWrites
<1> HIDE DEF es
<1>19. Writes(c, i, ds) /\ Last(ds) = Last(es)
  BY <1>5, <1>7, <1>11, <1>18, ThreeWrites, MoreWrites
<1> HIDE DEF ds
<1>20. Last(ds) \in Good(c, i) /\ Last(ds) \in Disks BY <1>19 DEF Writes, Good
<1>21. e \in Good(c, i) /\ e.tree = Last(ds).tree /\ e.arts = Last(ds).arts
         /\ e.head.code = Last(ds).head.code
  BY <1>20, CommitOnlyGood DEF Good, DiskOk
<1>22. \A j \in Items \ {i} :
         e.head.state[j] = Last(ds).head.state[j] /\ e.head.docs[j] = Last(ds).head.docs[j]
  <2>1. ASSUME NEW j \in Items \ {i}, NEW u
        PROVE  <<"state", j>> \notin paths /\ <<"doc", j, u>> \notin paths
    BY DEF Project
  <2>2. \A j \in Items : Last(ds).head.docs[j] \subseteq TaskIds BY <1>20 DEF Disks, SoundTrees
  <2> HIDE DEF paths
  <2>3. \A j \in Items \ {i} :
          e.head.docs[j] = {u \in TaskIds : u \in Last(ds).head.docs[j]}
            /\ e.head.state[j] = Last(ds).head.state[j]
    BY <1>20, <2>1 DEF CommitOnly, Disks, SoundTrees
  <2> QED BY <2>2, <2>3
<1> HIDE DEF e
<1>23. Writes(c, i, Append(ds, e)) /\ Last(Append(ds, e)) = e BY <1>19, <1>21, LastWrite
<1>24. OnlyOf(d, e, i)
  BY <1>13, <1>18, <1>19, <1>21, <1>22 DEF OnlyOf, Redocumented, DirtyCode
<1>25. e.tree.state[i] = r /\ e.arts.allowed[i][t] = d.arts.allowed[i][t]
  BY <1>12, <1>18, <1>19, <1>21 DEF Redocumented
<1>26. DecidedTask(r) = t /\ DecidedTask(s) = t BY <1>14 DEF DecidedTask, Failed
<1> QED BY <1>3, <1>15, <1>23, <1>24, <1>25, <1>26, <1>a

\* The fix, the block, and a commit of both.
LEMMA FileFixWrites ==
  ASSUME NEW c, NEW w, NEW d \in Good(c, w), NEW i \in Items,
         d.tree.state[i].lc \in Failed \cup {"blocked"}
  PROVE  Writes(c, w, FileBlockingFix(d, i))
<1> DEFINE ds == BlockedOnFix(d, i)
           paths == Project \cup {<<"state", i>>} \cup Directory(Fix)
<1>a. FileBlockingFix(d, i) = Append(ds, CommitOnly(Last(ds), paths)) BY DEF FileBlockingFix
<1>1. /\ d.tree.state[i].lc \in Blockable /\ d.tree.state[i].lc \notin Planning
      /\ d.tree.state[i].lc # "implementation_running"
  BY DEF Blockable, Failed, Planning
<1>2. Writes(c, w, ds) BY <1>1, BlockedOnFixWrites
<1> HIDE DEF ds, paths
<1>3. Last(ds) \in Good(c, w) BY <1>2 DEF Writes
<1>4. CommitOnly(Last(ds), paths) \in Good(c, w) BY <1>3, CommitOnlyGood DEF Good, DiskOk
<1> QED BY <1>2, <1>4, <1>a, LastWrite

(***************************************************************************)
(* Every action keeps the invariant and loses no change of its item.       *)
(***************************************************************************)

\* The process works on item i, and d is the disk that it works on.
Begins(i, d) ==
  /\ IInv /\ i \in Items /\ d = Live(disk, proc) /\ d \in Good(Worktree.code, i)
  /\ d.tree.code = Worktree.code /\ Worked = {i}
  /\ i \in Next1(d, proc.aside) /\ Familiar(d, {i}, proc.aside)

LEMMA LiveGood ==
  ASSUME IInv, NEW i
  PROVE  LET d == Live(disk, proc)
         IN  d \in Disks /\ DiskOk(d) /\ d.tree.code = Worktree.code /\ d \in Good(Worktree.code, i)
<1> DEFINE d == Live(disk, proc)
<1>1. DiskOk(d) BY DEF IInv
<1>2. d \in Disks /\ d.tree.code = Worktree.code
  <2>1. CASE proc.at = "baseline"
    <3>1. disk \in Disks /\ disk.stash \in Seq(SoundTrees) /\ disk.stash # <<>>
      BY <2>1 DEF IInv, Disks
    <3>2. Last(disk.stash) \in SoundTrees /\ Front(disk.stash) \in Seq(SoundTrees)
      BY <3>1, LastAndFront
    <3> QED BY <2>1, <3>1, <3>2 DEF Live, Disks, Worktree
  <2>2. CASE proc.at # "baseline" BY <2>2 DEF Live, IInv, Worktree
  <2> QED BY <2>1, <2>2
<1>3. Kept(Worktree.code, i, d) BY <1>2 DEF Kept
<1> QED BY <1>1, <1>2, <1>3 DEF Good

LEMMA IdleBegins ==
  ASSUME IInv, NEW i, NEW kind, Selected(i, kind)
  PROVE  /\ Begins(i, disk) /\ disk.tree.state[i] \in SoundDocuments
         /\ WorkItemInspectionKind(disk.tree.state[i]) = kind
<1>1. /\ proc.at = "idle" /\ WorkItemInspectionKind(disk.tree.state[i]) = kind
      /\ i \in Next1(disk, proc.aside)
  BY DEF Selected
<1>2. Next1(disk, proc.aside) = {i} /\ i \in Items BY <1>1, NextIsOne
<1>3. Live(disk, proc) = disk BY <1>1 DEF Live
<1>4. Worked = {i} /\ WorkedOn(disk, proc) = {i} BY <1>1, <1>2 DEF Worked, WorkedOn
<1>5. Familiar(disk, {i}, proc.aside) BY <1>1, <1>3, <1>4 DEF IInv, ProcOk
<1>6. disk \in Disks /\ disk.tree.code = Worktree.code /\ disk \in Good(Worktree.code, i)
  BY <1>3, LiveGood
<1> QED BY <1>1, <1>2, <1>3, <1>4, <1>5, <1>6, DocumentsOfDisk DEF Begins

LEMMA WorkingBegins ==
  ASSUME IInv, proc.at \in Working
  PROVE  LET d == Live(disk, proc)
             i == proc.item
         IN  /\ Begins(i, d) /\ d.tree.state[i].lc = "implementation_running"
             /\ d.tree.state[i].task \in d.tree.docs[i]
             /\ proc.at # "baseline" => d = disk
<1> DEFINE d == Live(disk, proc)
           i == proc.item
<1>1. /\ i \in Next1(d, proc.aside) /\ d.tree.state[i].lc = "implementation_running"
      /\ d.tree.state[i].task \in d.tree.docs[i]
  BY DEF IInv, ProcOk
<1>2. i \in Items BY DEF IInv, Processes
<1>3. Worked = {i} /\ WorkedOn(d, proc) = {i} BY DEF Worked, WorkedOn, Working
<1>4. Familiar(d, {i}, proc.aside) BY <1>3 DEF IInv, ProcOk, Working
<1>5. d \in Disks /\ d.tree.code = Worktree.code /\ d \in Good(Worktree.code, i) BY LiveGood
<1>6. proc.at # "baseline" => d = disk BY DEF Live
<1> HIDE DEF d
<1>7. d = Live(disk, proc) BY DEF d
<1> QED BY <1>1, <1>2, <1>3, <1>4, <1>5, <1>6, <1>7 DEF Begins

\* A process that goes on with what its run knows.
LEMMA IdleIsProcess ==
  ASSUME NEW aside \in SUBSET Items, NEW authored \in SUBSET ({"doc"} \X Items \X TaskIds)
  PROVE  LET p == Idle(aside, authored)
         IN  p \in Processes /\ p.at = "idle" /\ p.aside = aside
BY DEF Idle, Processes, Places, Items

\* Ways a step ends that leave its item to go on.
Proceeds(i, ds) == Done(ds) \/ \E k \in TaskIds : Authoring(i, k, ds)

LEMMA ProceedsIdle ==
  ASSUME IInv, NEW i \in Items, NEW ds, Proceeds(i, ds)
  PROVE  \E p \in Processes : p.at = "idle" /\ p.aside = proc.aside /\ Leave(ds, p)
<1>1. proc.aside \in SUBSET Items /\ proc.authored \in SUBSET ({"doc"} \X Items \X TaskIds)
  BY DEF IInv, Processes
<1>2. CASE Done(ds)
  <2> DEFINE p == Idle(proc.aside, proc.authored)
  <2>1. p \in Processes /\ p.at = "idle" /\ p.aside = proc.aside BY <1>1, IdleIsProcess
  <2>2. Leave(ds, p) BY <1>2 DEF Done
  <2> QED BY <2>1, <2>2
<1>3. CASE \E k \in TaskIds : Authoring(i, k, ds)
  <2>1. PICK k \in TaskIds : Authoring(i, k, ds) BY <1>3
  <2> DEFINE a == proc.authored \cup {<<"doc", i, k>>}
             p == Idle(proc.aside, a)
  <2>2. a \in SUBSET ({"doc"} \X Items \X TaskIds) BY <1>1
  <2>3. Leave(ds, p) BY <2>1 DEF Authoring
  <2> HIDE DEF a
  <2>4. p \in Processes /\ p.at = "idle" /\ p.aside = proc.aside BY <1>1, <2>2, IdleIsProcess
  <2> QED BY <2>3, <2>4
<1> QED BY <1>2, <1>3 DEF Proceeds

\* A step that ends with everything committed.
LEMMA Commits ==
  ASSUME NEW i, NEW d, Begins(i, d), NEW ds, Writes(Worktree.code, i, ds), Proceeds(i, ds),
         Last(ds).head = Last(ds).tree
  PROVE  IInv' /\ Traced
<1>1. IInv /\ i \in Items /\ Worked = {i} BY DEF Begins
<1>2. PICK p \in Processes : p.at = "idle" /\ Leave(ds, p) BY <1>1, ProceedsIdle
<1>3. ProcOk(Last(ds), p) BY <1>2, CleanIdle
<1> QED BY <1>1, <1>2, <1>3, Stepping

\* A step that sets its item aside.
LEMMA SetsAside ==
  ASSUME NEW i, NEW d, Begins(i, d), NEW ds, Writes(Worktree.code, i, ds),
         SettingAside(i, ds)
  PROVE  IInv' /\ Traced
<1> DEFINE a == proc.aside \cup {i}
           p == Idle(a, proc.authored)
<1>1. IInv /\ i \in Items /\ Worked = {i} BY DEF Begins
<1>2. Last(ds) \in Disks BY DEF Writes, Good
<1>3. a \in SUBSET Items /\ proc.authored \in SUBSET ({"doc"} \X Items \X TaskIds) /\ i \in a
  BY <1>1 DEF IInv, Processes
<1>4. Leave(ds, p) BY DEF SettingAside
<1> HIDE DEF a
<1>5. p \in Processes /\ p.at = "idle" /\ p.aside = a BY <1>3, IdleIsProcess
<1> HIDE DEF p
<1>6. ProcOk(Last(ds), p) BY <1>1, <1>2, <1>3, <1>5, AsideIdle
<1>7. p.at # "baseline" BY <1>5
<1> QED BY <1>1, <1>4, <1>5, <1>6, <1>7, Stepping

\* A step after which the run goes on with the same item.
LEMMA GoesOn ==
  ASSUME NEW i, NEW d, Begins(i, d), NEW ds, Writes(Worktree.code, i, ds), Proceeds(i, ds),
         OnlyOf(d, Last(ds), i), isContinuing(Last(ds).tree.state[i]),
         \/ DirtyCode(Last(ds)) = {}
         \/ Last(ds).arts.allowed[i][DecidedTask(Last(ds).tree.state[i])] =
              d.arts.allowed[i][DecidedTask(d.tree.state[i])]
  PROVE  IInv' /\ Traced
<1>1. IInv /\ i \in Items /\ Worked = {i} BY DEF Begins
<1>2. i \in Next1(d, proc.aside) /\ Familiar(d, {i}, proc.aside) BY DEF Begins
<1>3. PICK p \in Processes : p.at = "idle" /\ p.aside = proc.aside /\ Leave(ds, p)
  BY <1>1, ProceedsIdle
<1>4. ProcOk(Last(ds), p) BY <1>1, <1>2, <1>3, SameIdle
<1> QED BY <1>1, <1>3, <1>4, Stepping

\* A process that dies leaves what is on the disk; a borrowed stash stays there.
LEMMA Dies ==
  ASSUME IInv, disk' = disk, proc' \in Processes, proc'.at = "down", edits' = edits,
         mishaps' \in 0..MaxMishaps
  PROVE  IInv' /\ Traced
<1>1. disk \in Disks BY DEF IInv
<1>2. DiskOk(disk)
  <2>1. CASE proc.at # "baseline" BY <2>1 DEF IInv, Live
  <2>2. CASE proc.at = "baseline"
    <3> DEFINE d == Live(disk, proc)
    <3>1. DiskOk(d) /\ disk.stash # <<>> /\ disk.tree = disk.head BY <2>2 DEF IInv
    <3>2. d.head = disk.head /\ d.arts = disk.arts BY <2>2 DEF Live
    <3>3. d \in Disks BY LiveGood
    <3> HIDE DEF d
    <3>4. DirtyCode(disk) = {} BY <3>1 DEF DirtyCode
    <3>5. CodeOk(disk) BY <3>1, <3>2 DEF DiskOk, Consistent, CodeOk
    <3>6. Resolved(disk) /\ Served(disk) BY <3>1 DEF Resolved, Served
    <3>7. Scoped(disk) BY <3>1, <3>2 DEF DiskOk, Consistent, Scoped
    <3>8. Superseded(disk)
      BY <1>1, <3>1, DocumentsOfDisk, PointersOfSound DEF Superseded
    <3>9. Judged(disk, disk.tree) /\ Judged(disk, disk.head)
      BY <3>1, <3>2 DEF DiskOk, Consistent, Judged
    <3>10. Archived(disk) /\ Current(disk) BY <3>4 DEF Archived, Current
    <3>11. \A j \in Items : Unreviewed(disk, j)
      BY <1>1, <3>1, DocumentsOfDisk, PointersOfSound DEF Unreviewed, Failed
    <3> QED BY <3>5, <3>6, <3>7, <3>8, <3>9, <3>10, <3>11 DEF DiskOk, Consistent
  <2> QED BY <2>1, <2>2
<1>3. Live(disk, proc)' = disk BY DEF Live
<1>4. ProcOk(disk', proc') BY DEF ProcOk, Working
<1>5. IInv' BY <1>1, <1>2, <1>3, <1>4 DEF IInv
<1>6. Traced
  <2>1. CASE proc.at # "baseline" BY <2>1 DEF Traced, Worktree
  <2>2. CASE proc.at = "baseline"
    <3>1. disk.stash \in Seq(SoundTrees) /\ disk.stash # <<>> BY <2>2 DEF IInv, Disks
    <3>2. Worktree = disk.stash[Len(disk.stash)] BY <2>2 DEF Worktree, Last
    <3>3. Len(disk.stash) \in DOMAIN disk.stash BY <3>1
    <3> QED BY <3>2, <3>3 DEF Traced
  <2> QED BY <2>1, <2>2
<1> QED BY <1>5, <1>6

LEMMA ThrowKeeps ==
  ASSUME IInv, Throw
  PROVE  IInv' /\ Traced
<1>1. proc' \in Processes /\ proc'.at = "down" BY DownIsOk DEF Throw
<1> QED BY <1>1, Dies DEF Throw, IInv

LEMMA PlanTaskKeeps ==
  ASSUME IInv, NEW i \in Items, PlanTask(i)
  PROVE  IInv' /\ Traced
<1> DEFINE s == disk.tree.state[i]
           n == IF i = Feature THEN selectNextTaskRequest(disk) ELSE 0
           t == Min(Unused(disk, i))
           ds == finalizeTaskPlan(disk, i, t, n)
<1>1. PICK kind \in Planning : Selected(i, kind) BY DEF PlanTask
<1>2. Begins(i, disk) /\ s \in SoundDocuments /\ WorkItemInspectionKind(s) = kind
  BY <1>1, IdleBegins
<1>3. s.lc \in Planning BY <1>1, <1>2, KindOfSound
<1>4. CASE ~IsCleanFor(disk, i) BY <1>4, ThrowKeeps DEF PlanTask
<1>5. CASE IsCleanFor(disk, i)
  <2>1. /\ i = Feature => selectNextTaskRequest(disk) # 0
        /\ Unused(disk, i) # {} /\ Authoring(i, t, ds)
    BY <1>5 DEF PlanTask
  <2>2. DirtyCode(disk) = {} BY <1>5, CleanHasNoCode DEF IsCleanFor
  <2>3. disk \in Good(Worktree.code, i) /\ disk \in Disks BY <1>2 DEF Begins, Good
  <2>4. n \in 0..Requests /\ (n # 0 => disk.arts.outline[n] # "complete" /\ i = Feature)
    BY <2>3, NextRequestIsOpen, StepWritesAssumption
  <2> HIDE DEF n
  <2>5. /\ Writes(Worktree.code, i, ds) /\ t \in TaskIds
        /\ OnlyOf(disk, Last(ds), i) /\ DirtyCode(Last(ds)) = {}
        /\ isContinuing(Last(ds).tree.state[i])
    BY <1>3, <2>1, <2>2, <2>3, <2>4, PlanningWrites
  <2>6. Proceeds(i, ds) BY <2>1, <2>5 DEF Proceeds
  <2> HIDE DEF ds
  <2> QED BY <1>2, <2>5, <2>6, GoesOn
<1> QED BY <1>4, <1>5

LEMMA AttemptCompletionKeeps ==
  ASSUME IInv, AttemptCompletion
  PROVE  IInv' /\ Traced
<1> DEFINE i == Feature
           s == disk.tree.state[i]
           es == Recorded(disk, i, AfterCompletion(s))
           ds == Append(es, CommitAll(Last(es)))
           bs == Recorded(disk, i, Block(s, "unfinished", "blocked"))
           cs == Append(bs, CommitAll(Last(bs)))
<1>1. PICK kind \in Planning : Selected(i, kind) BY DEF AttemptCompletion
<1>2. Begins(i, disk) /\ s \in SoundDocuments /\ WorkItemInspectionKind(s) = kind
  BY <1>1, IdleBegins
<1>3. s.lc \in Planning BY <1>1, <1>2, KindOfSound
<1>4. disk \in Good(Worktree.code, i) /\ disk \in Disks /\ i \in Items BY <1>2 DEF Begins, Good
<1>5. IsCleanFor(disk, i) /\ selectNextTaskRequest(disk) = 0 BY DEF AttemptCompletion
<1>6. DirtyCode(disk) = {} BY <1>5, CleanHasNoCode DEF IsCleanFor
<1>7. \A n \in 1..Requests : disk.arts.outline[n] = "complete"
  BY <1>4, <1>5, NextRequestIsOpen
<1>8. Done(ds) \/ SettingAside(i, cs) BY DEF AttemptCompletion, Then
<1>9. CASE Done(ds)
  <2>1. Writes(Worktree.code, i, ds) /\ Last(ds).head = Last(ds).tree
    BY <1>3, <1>4, <1>6, <1>7, CompletionWrites
  <2>2. Proceeds(i, ds) BY <1>9 DEF Proceeds
  <2> HIDE DEF ds, i
  <2> QED BY <1>2, <2>1, <2>2, Commits
<1>10. CASE SettingAside(i, cs)
  <2>1. s.lc \in Blockable \ {"implementation_running"} BY <1>3 DEF Blockable, Planning
  <2>2. "unfinished" \in Reasons /\ "blocked" \in BlockStates /\ "blocked" # "review_failed"
    BY DEF Reasons, BlockStates
  <2>3. Writes(Worktree.code, i, bs) BY <1>4, <1>6, <2>1, <2>2, BlockWrites
  <2> HIDE DEF bs
  <2>4. Writes(Worktree.code, i, cs) BY <2>3, CommittedWrites
  <2> HIDE DEF cs, i
  <2> QED BY <1>2, <1>10, <2>4, SetsAside
<1> QED BY <1>8, <1>9, <1>10

LEMMA PlanSubtaskKeeps ==
  ASSUME IInv, NEW i \in Items, PlanSubtask(i)
  PROVE  IInv' /\ Traced
<1> DEFINE s == disk.tree.state[i]
           t == DecidedTask(s)
           ds == Recorded(disk, i, DuringImplementation(s, t))
<1>1. PICK kind \in {"task_ready", "correction_pending"} : Selected(i, kind) BY DEF PlanSubtask
<1>2. Begins(i, disk) /\ s \in SoundDocuments /\ WorkItemInspectionKind(s) = kind
  BY <1>1, IdleBegins
<1>3. s.lc \in {"task_ready", "correction_pending"}
  <2>1. kind \in Planning \cup Executing \cup Failed \cup {"correction_pending", "blocked"}
    BY <1>1 DEF Executing
  <2>2. s.lc = kind BY <1>2, <2>1, KindOfSound
  <2> QED BY <1>1, <2>2
<1>4. CASE ~(t \in disk.tree.docs[i] /\ IsCleanFor(disk, i))
  BY <1>4, ThrowKeeps DEF PlanSubtask
<1>5. CASE t \in disk.tree.docs[i] /\ IsCleanFor(disk, i)
  <2>1. DirtyCode(disk) = {} BY <1>5, CleanHasNoCode DEF IsCleanFor
  <2>2. disk \in Good(Worktree.code, i) BY <1>2 DEF Begins
  <2>3. Done(ds) BY <1>5 DEF PlanSubtask
  <2>4. /\ Writes(Worktree.code, i, ds)
        /\ OnlyOf(disk, Last(ds), i) /\ DirtyCode(Last(ds)) = DirtyCode(disk)
        /\ isContinuing(Last(ds).tree.state[i])
    BY <1>3, <1>5, <2>1, <2>2, HandoverWrites
  <2>5. Proceeds(i, ds) BY <2>3 DEF Proceeds
  <2> HIDE DEF ds
  <2> QED BY <1>2, <2>1, <2>4, <2>5, GoesOn
<1> QED BY <1>4, <1>5

\* At work on the item it was selected for.
LEMMA AtWork ==
  ASSUME NEW i, NEW d, Begins(i, d), NEW e \in Disks, OnlyOf(d, e, i),
         e.tree.state[i].lc = "implementation_running",
         e.tree.state[i].task \in e.tree.docs[i],
         e.arts.allowed[i][DecidedTask(e.tree.state[i])] =
           d.arts.allowed[i][DecidedTask(d.tree.state[i])],
         NEW p \in Processes, p.at \in Working, p.item = i, p.aside = proc.aside,
         p.at \in {"gating", "baseline"} =>
           \A x \in DirtyCode(e) : x.item = i => x \in e.arts.diffs[x.item][x.task]
  PROVE  ProcOk(e, p)
<1>1. i \in Items /\ i \in Next1(d, proc.aside) /\ Familiar(d, {i}, proc.aside) BY DEF Begins
<1>2. isContinuing(e.tree.state[i])
  BY <1>1, DocumentsOfDisk, KindOfSound DEF Executing
<1>3. i \in Next1(e, p.aside) BY <1>1, <1>2, StillNext DEF OnlyOf
<1>4. Familiar(e, {i}, p.aside) BY <1>1, StillFamiliar
<1>5. WorkedOn(e, p) = {i} BY DEF WorkedOn, Working
<1> QED BY <1>3, <1>4, <1>5 DEF ProcOk

LEMMA ImplementSubtaskKeeps ==
  ASSUME IInv, NEW i \in Items, ImplementSubtask(i)
  PROVE  IInv' /\ Traced
<1> DEFINE s == disk.tree.state[i]
           ds == Recorded(disk, i, DuringImplementation(s, DecidedTask(s)))
           p == [proc EXCEPT !.at = "implementing", !.item = i, !.attempt = 1]
<1>1. /\ Selected(i, "implementation_running") /\ s.task \in disk.tree.docs[i]
      /\ Leave(Recorded(disk, i, DuringImplementation(s, s.task)), p)
  BY DEF ImplementSubtask, Active, Enter
<1>2. /\ Begins(i, disk) /\ s \in SoundDocuments
      /\ WorkItemInspectionKind(s) = "implementation_running"
  BY <1>1, IdleBegins
<1>3. s.lc = "implementation_running"
  <2>1. "implementation_running" \in
          Planning \cup Executing \cup Failed \cup {"correction_pending", "blocked"}
    BY DEF Executing
  <2> QED BY <1>2, <2>1, KindOfSound
<1>4. DecidedTask(s) = s.task BY <1>3 DEF DecidedTask
<1>5. disk \in Good(Worktree.code, i) BY <1>2 DEF Begins
<1>6. /\ Writes(Worktree.code, i, ds) /\ OnlyOf(disk, Last(ds), i) /\ Last(ds).arts = disk.arts
      /\ Last(ds).tree.state[i].lc = "implementation_running"
      /\ Last(ds).tree.state[i].task = s.task /\ Last(ds).tree.docs[i] = disk.tree.docs[i]
  <2>1. DecidedTask(s) \in disk.tree.docs[i] BY <1>1, <1>4
  <2> QED BY <1>3, <1>4, <1>5, <2>1, HandoverWrites
<1>7. Leave(ds, p) BY <1>1, <1>4
<1>8. p \in Processes /\ p.at = "implementing" /\ p.item = i /\ p.aside = proc.aside
  BY DEF IInv, Processes, Places
<1> HIDE DEF ds, p
<1>9. Last(ds) \in Disks BY <1>6 DEF Writes, Good
<1>10. DecidedTask(Last(ds).tree.state[i]) = DecidedTask(s) BY <1>4, <1>6 DEF DecidedTask
<1>11. ProcOk(Last(ds), p)
  <2>1. p.at \in Working /\ p.at \notin {"gating", "baseline"} BY <1>8 DEF Working
  <2>2. Last(ds).tree.state[i].task \in Last(ds).tree.docs[i] BY <1>1, <1>6
  <2> QED BY <1>2, <1>6, <1>8, <1>9, <1>10, <2>1, <2>2, AtWork
<1>12. IInv /\ Worked = {i} BY <1>2 DEF Begins
<1> QED BY <1>6, <1>7, <1>8, <1>11, <1>12, Stepping

LEMMA AgentEditsKeeps ==
  ASSUME IInv, AgentEdits
  PROVE  IInv' /\ Traced
<1> DEFINE i == proc.item
           t == disk.tree.state[i].task
<1>1. proc.at = "implementing" /\ edits < MaxEdits BY DEF AgentEdits
<1>2. /\ Begins(i, disk) /\ disk.tree.state[i].lc = "implementation_running"
      /\ t \in disk.tree.docs[i]
  BY <1>1, WorkingBegins DEF Working
<1>3. /\ disk \in Disks /\ DiskOk(disk) /\ i \in Items
      /\ i \in Next1(disk, proc.aside) /\ Familiar(disk, {i}, proc.aside)
  BY <1>2 DEF Begins, Good
<1>4. t \in TaskIds /\ InReview(disk.tree.state[i]) = {}
  BY <1>2, <1>3, RunningIsUnreviewed, DocumentsOfDisk, PointersOfSound DEF Failed
<1> HIDE DEF t, i
<1>5. PICK area \in {i, "elsewhere"} :
        disk' = [disk EXCEPT !.tree.code =
                   @ \cup {[area |-> area, item |-> i, task |-> t, n |-> edits + 1]}]
  BY DEF AgentEdits, Active, i, t
<1> DEFINE x == [area |-> area, item |-> i, task |-> t, n |-> edits + 1]
           e == [disk EXCEPT !.tree.code = @ \cup {x}]
<1>6. edits' = edits + 1 /\ edits' \in 0..MaxEdits /\ edits' \in 1..MaxEdits
  BY <1>1, StepWritesAssumption DEF AgentEdits, IInv
<1>7. x \in Edits /\ x.item = i /\ x.task = t /\ x.area \in {i, "elsewhere"}
  BY <1>3, <1>4, <1>5, <1>6 DEF Edits, Areas
<1>8. e = disk' BY <1>5
<1> HIDE DEF x
<1>9. /\ e \in Disks /\ e.head = disk.head /\ e.stash = disk.stash /\ e.arts = disk.arts
      /\ e.tree.state = disk.tree.state /\ e.tree.docs = disk.tree.docs
      /\ e.tree.code = disk.tree.code \cup {x}
  BY <1>3, <1>7 DEF Disks, SoundTrees
<1> HIDE DEF e
<1>10. DirtyCode(e) \subseteq DirtyCode(disk) \cup {x} BY <1>9 DEF DirtyCode
<1>11. CodeOk(e) BY <1>3, <1>7, <1>9 DEF DiskOk, Consistent, CodeOk
<1>12. Judged(e, e.tree)
  <2>1. ASSUME NEW j \in Items, NEW u \in InReview(disk.tree.state[j])
        PROVE  Own(e.tree.code, j, u) = Own(disk.tree.code, j, u)
    <3>1. x.item # j BY <1>4, <1>7
    <3> QED BY <1>9, <3>1 DEF Own
  <2>2. \A j \in Items : \A u \in InReview(disk.tree.state[j]) :
          /\ disk.arts.gates[j][u].result = "passed"
          /\ Own(disk.tree.code, j, u) \subseteq disk.arts.gates[j][u].code
          /\ disk.arts.gates[j][u].code \ Own(disk.tree.code, j, u) \subseteq
               disk.arts.diffs[j][u]
    BY <1>3 DEF DiskOk, Consistent, Judged
  <2>3. e.arts = disk.arts /\ e.tree.state = disk.tree.state BY <1>9
  <2> QED BY <2>1, <2>2, <2>3, Zenon DEF Judged
<1>13. Judged(e, e.head) BY <1>3, <1>9 DEF DiskOk, Consistent, Judged
<1>14. Archived(e)
  <2> SUFFICES ASSUME NEW y \in DirtyCode(e)
               PROVE  \/ y \in disk.arts.diffs[y.item][y.task]
                      \/ /\ disk.tree.state[y.item].lc = "implementation_running"
                         /\ disk.tree.state[y.item].task = y.task
    BY <1>9 DEF Archived
  <2>1. CASE y \in DirtyCode(disk) BY <1>3, <2>1 DEF DiskOk, Consistent, Archived
  <2>2. CASE y = x BY <1>2, <1>7, <2>2 DEF t
  <2> QED BY <1>10, <2>1, <2>2
<1>15. Current(e)
  <2> SUFFICES ASSUME NEW y \in DirtyCode(e)
               PROVE  \/ y.task = disk.tree.state[y.item].task
                      \/ disk.tree.state[y.item].lc \in Planning
    BY <1>9 DEF Current
  <2>1. CASE y \in DirtyCode(disk) BY <1>3, <2>1 DEF DiskOk, Consistent, Current
  <2>2. CASE y = x BY <1>7, <2>2 DEF t
  <2> QED BY <1>10, <2>1, <2>2
<1>16. Resolved(e) /\ Scoped(e) /\ Superseded(e) /\ Served(e) /\ \A j \in Items : Unreviewed(e, j)
  BY <1>3, <1>9
  DEF DiskOk, Consistent, Resolved, Scoped, Superseded, Served, Serves, Unreviewed
<1>17. DiskOk(e)
  BY <1>11, <1>12, <1>13, <1>14, <1>15, <1>16 DEF DiskOk, Consistent
<1>18. ProcOk(e, proc)
  <2>1. Next1(e, proc.aside) = Next1(disk, proc.aside) BY <1>9 DEF Next1, Tier
  <2>2. Familiar(e, {i}, proc.aside)
    <3>1. \A y \in DirtyCode(e) :
            \/ y.item = i \/ y.item \in proc.aside
            \/ y.area \in disk.arts.allowed[i][DecidedTask(disk.tree.state[i])]
      BY <1>3, <1>7, <1>10 DEF Familiar
    <3> QED BY <1>3, <1>9, <3>1 DEF Familiar
  <2>3. WorkedOn(e, proc) = {i} BY <1>1 DEF WorkedOn, i
  <2> QED BY <1>1, <1>2, <1>3, <1>9, <2>1, <2>2, <2>3 DEF ProcOk, i, t
<1>19. proc' = proc /\ mishaps' = mishaps BY DEF AgentEdits
<1>20. Live(disk, proc)' = e BY <1>1, <1>8, <1>19 DEF Live
<1>21. IInv' BY <1>1, <1>6, <1>8, <1>9, <1>17, <1>18, <1>19, <1>20 DEF IInv
<1>22. Traced
  <2>1. Worktree = disk.tree /\ Worktree' = e.tree BY <1>1, <1>8, <1>19 DEF Worktree
  <2> QED BY <1>9, <2>1 DEF Traced
<1> QED BY <1>21, <1>22

LEMMA AgentReturnsKeeps ==
  ASSUME IInv, AgentReturns
  PROVE  IInv' /\ Traced
<1> DEFINE i == proc.item
           t == disk.tree.state[i].task
           a == WithDiff(disk, i, t)
           ds == ImplementationFailed(disk, i, t)
<1>1. proc.at = "implementing" BY DEF AgentReturns
<1>2. /\ Begins(i, disk) /\ disk.tree.state[i].lc = "implementation_running"
      /\ t \in disk.tree.docs[i]
  BY <1>1, WorkingBegins DEF Working
<1>3. /\ disk \in Good(Worktree.code, i) /\ disk.tree.code = Worktree.code
      /\ IInv /\ Worked = {i} /\ i \in Items
  BY <1>2 DEF Begins
<1>4. \/ Leave(<<a>>, [proc EXCEPT !.at = "gating", !.item = i, !.attempt = 1])
      \/ Leave(<<a>>, [proc EXCEPT !.attempt = 2])
      \/ Done(ds)
  BY DEF AgentReturns, Active, Enter
<1>5. /\ a \in Good(Worktree.code, i) /\ SameCheckouts(disk, a)
      /\ a.arts.allowed = disk.arts.allowed
      /\ \A x \in DirtyCode(a) : x.item = i => x \in a.arts.diffs[x.item][x.task]
  <2> DEFINE c == Worktree.code
             at == disk.tree.state[i]
  <2>1. c \subseteq disk.tree.code /\ disk \in Good(c, i) /\ at.lc = "implementation_running"
    BY <1>2, <1>3
  <2> HIDE DEF c, i
  <2>2. LET e == WithDiff(disk, i, disk.tree.state[i].task)
        IN  /\ e \in Good(c, i) /\ SameCheckouts(disk, e) /\ e.arts.allowed = disk.arts.allowed
            /\ \A x \in DirtyCode(e) : x.item = i => x \in e.arts.diffs[x.item][x.task]
    BY <1>3, <2>1, ArchivedAttempt, Zenon
  <2> QED BY <2>2, Zenon DEF c
<1>6. ASSUME NEW p \in Processes, p.at \in {"implementing", "gating"}, p.item = i,
             p.aside = proc.aside, Leave(<<a>>, p)
      PROVE  IInv' /\ Traced
  <2> HIDE DEF a
  <2>1. a \in Disks /\ OnlyOf(disk, a, i)
    BY <1>5 DEF SameCheckouts, OnlyOf, DirtyCode
  <2>2. p.at \in Working /\ p.at # "baseline" BY <1>6 DEF Working
  <2>3. ProcOk(a, p) BY <1>2, <1>5, <1>6, <2>1, <2>2, AtWork DEF SameCheckouts
  <2>4. Writes(Worktree.code, i, <<a>>) /\ Last(<<a>>) = a BY <1>5, OneWrite
  <2> QED BY <1>3, <1>6, <2>2, <2>3, <2>4, Stepping
<1>7. CASE Leave(<<a>>, [proc EXCEPT !.at = "gating", !.item = i, !.attempt = 1])
  <2> DEFINE p == [proc EXCEPT !.at = "gating", !.item = i, !.attempt = 1]
  <2>1. p \in Processes /\ p.at = "gating" /\ p.item = i /\ p.aside = proc.aside
    BY <1>3 DEF IInv, Processes, Places
  <2> QED BY <1>6, <1>7, <2>1
<1>8. CASE Leave(<<a>>, [proc EXCEPT !.attempt = 2])
  <2> DEFINE p == [proc EXCEPT !.attempt = 2]
  <2>1. p \in Processes /\ p.at = "implementing" /\ p.item = i /\ p.aside = proc.aside
    BY <1>1 DEF IInv, Processes
  <2> QED BY <1>6, <1>8, <2>1
<1>9. CASE Done(ds)
  <2>1. /\ Writes(Worktree.code, i, ds) /\ OnlyOf(disk, Last(ds), i)
        /\ isContinuing(Last(ds).tree.state[i])
        /\ Last(ds).arts.allowed = disk.arts.allowed
        /\ DecidedTask(Last(ds).tree.state[i]) = DecidedTask(disk.tree.state[i])
    BY <1>2, <1>3, FailureWrites
  <2>2. Proceeds(i, ds) BY <1>9 DEF Proceeds
  <2> HIDE DEF ds
  <2> QED BY <1>2, <2>1, <2>2, GoesOn
<1> QED BY <1>4, <1>7, <1>8, <1>9

\* What gates are run on: the change is archived.
AtGates(i, d) ==
  /\ Begins(i, d) /\ d.tree.state[i].lc = "implementation_running"
  /\ \A e \in DirtyCode(d) : e.item = i => e \in d.arts.diffs[e.item][e.task]

LEMMA GatingBegins ==
  ASSUME IInv, proc.at \in {"gating", "baseline"}
  PROVE  AtGates(proc.item, Live(disk, proc))
<1>1. proc.at \in Working BY DEF Working
<1> QED BY <1>1, WorkingBegins DEF IInv, ProcOk, AtGates

\* Gates, judged on the worktree or after a look at the baseline.
LEMMA GatesKeep ==
  ASSUME NEW i, NEW d, AtGates(i, d), NEW result \in Verdicts
  PROVE  /\ Done(GateStep(d, i, result)) => IInv' /\ Traced
         /\ Done(<<d>> \o GateStep(d, i, result)) => IInv' /\ Traced
<1> DEFINE c == Worktree.code
           ds == GateStep(d, i, result)
           es == <<d>> \o ds
<1>1. Begins(i, d) /\ d \in Good(c, i) /\ i \in Items BY DEF Begins, AtGates
<1> HIDE DEF c
<1>2. /\ Writes(c, i, ds) /\ OnlyOf(d, Last(ds), i)
      /\ isContinuing(Last(ds).tree.state[i])
      /\ Last(ds).arts.allowed = d.arts.allowed
      /\ DecidedTask(Last(ds).tree.state[i]) = DecidedTask(d.tree.state[i])
  BY <1>1, GateWrites DEF AtGates
<1> HIDE DEF ds
<1>3. Writes(c, i, es) /\ Last(es) = Last(ds)
  BY <1>1, <1>2, OneWrite, MoreWrites
<1> HIDE DEF es
<1>4. ASSUME NEW fs \in {ds, es}, Done(fs) PROVE IInv' /\ Traced
  <2>1. Proceeds(i, fs) BY <1>4 DEF Proceeds
  <2>2. Writes(Worktree.code, i, fs) /\ Last(fs) = Last(ds) BY <1>2, <1>3, <1>4 DEF c
  <2> QED BY <1>1, <1>2, <2>1, <2>2, GoesOn
<1> QED BY <1>4 DEF ds, es

LEMMA GateSteps ==
  ASSUME NEW d, NEW i, NEW t, t = d.tree.state[i].task
  PROVE  /\ <<PassedGates(d, i, t)>>
              \o Recorded(PassedGates(d, i, t), i,
                          AfterGatesPassed(PassedGates(d, i, t).tree.state[i])) =
               GateStep(d, i, "passed")
         /\ FailedGate(d, i, t) = GateStep(d, i, "failed")
BY DEF GateStep, PassedGates, FailedGate

LEMMA RunQualityGatesKeeps ==
  ASSUME IInv, RunQualityGates
  PROVE  IInv' /\ Traced
<1> DEFINE i == proc.item
           t == disk.tree.state[i].task
<1>1. proc.at = "gating" BY DEF RunQualityGates
<1>2. Live(disk, proc) = disk BY <1>1 DEF Live
<1>3. AtGates(i, disk) BY <1>1, <1>2, GatingBegins
<1>4. \/ Done(<<PassedGates(disk, i, t)>>
               \o Recorded(PassedGates(disk, i, t), i,
                           AfterGatesPassed(PassedGates(disk, i, t).tree.state[i])))
      \/ Done(FailedGate(disk, i, t))
  BY Zenon DEF RunQualityGates, Active
<1>5. "passed" \in Verdicts /\ "failed" \in Verdicts BY DEF Verdicts
<1> HIDE DEF i
<1>6. Done(GateStep(disk, i, "passed")) \/ Done(GateStep(disk, i, "failed"))
  BY <1>4, GateSteps, Zenon
<1> QED BY <1>3, <1>5, <1>6, GatesKeep, Zenon

LEMMA StashForBaselineKeeps ==
  ASSUME IInv, StashForBaseline
  PROVE  IInv' /\ Traced
<1>1. /\ proc.at = "gating"
      /\ disk' = [disk EXCEPT !.stash = Append(@, disk.tree), !.tree = disk.head]
      /\ proc' = [proc EXCEPT !.at = "baseline"]
      /\ edits' = edits /\ mishaps' = mishaps
  BY DEF StashForBaseline
<1>2. disk \in Disks /\ proc \in Processes BY DEF IInv
<1>3. disk.tree \in SoundTrees /\ disk.head \in SoundTrees /\ disk.stash \in Seq(SoundTrees)
  BY <1>2 DEF Disks
<1> DEFINE stash == Append(disk.stash, disk.tree)
<1>4. /\ stash \in Seq(SoundTrees) /\ stash # <<>> /\ Last(stash) = disk.tree
      /\ Front(stash) = disk.stash
  BY <1>3, LastOfAppend, FrontOfAppend
<1>5. disk' = [disk EXCEPT !.stash = stash, !.tree = disk.head] BY <1>1
<1> HIDE DEF stash
<1>6. /\ disk' \in Disks /\ disk'.stash = stash /\ disk'.tree = disk.head
      /\ disk'.head = disk.head /\ disk'.arts = disk.arts
  BY <1>2, <1>3, <1>4, <1>5 DEF Disks
<1>7. /\ proc' \in Processes /\ proc'.at = "baseline" /\ proc'.item = proc.item
      /\ proc'.aside = proc.aside
  BY <1>1, <1>2 DEF Processes, Places
<1>8. Live(disk, proc)' = disk
  <2>1. Live(disk, proc)' =
          [tree |-> disk.tree, head |-> disk.head, stash |-> disk.stash, arts |-> disk.arts]
    BY <1>4, <1>6, <1>7 DEF Live
  <2> QED BY <1>2, <2>1 DEF Disks
<1>9. DiskOk(disk) /\ ProcOk(disk, proc) BY <1>1 DEF IInv, Live
<1>10. ProcOk(disk, proc') BY <1>1, <1>7, <1>9 DEF ProcOk, WorkedOn, Working
<1>11. IInv' BY <1>1, <1>4, <1>6, <1>7, <1>8, <1>9, <1>10 DEF IInv
<1>12. Traced
  <2>1. Worktree' = disk.tree /\ Worktree = disk.tree BY <1>1, <1>4, <1>6, <1>7 DEF Worktree
  <2> QED BY <2>1 DEF Traced
<1> QED BY <1>11, <1>12

LEMMA PopBaselineKeeps ==
  ASSUME IInv, PopBaseline
  PROVE  IInv' /\ Traced
<1> DEFINE d == [disk EXCEPT !.tree = Last(disk.stash), !.stash = Front(disk.stash)]
           i == proc.item
           t == d.tree.state[i].task
           failed == GateStep(d, i, "failed")
           ws == WaivedGate(d, i, t)
<1>1. /\ proc.at = "baseline"
      /\ Done(<<d>> \o FailedGate(d, i, t)) \/ SettingAside(i, <<d>> \o ws)
  BY DEF PopBaseline
<1>2. d = Live(disk, proc)
  <2>1. disk = [tree |-> disk.tree, head |-> disk.head, stash |-> disk.stash, arts |-> disk.arts]
    BY DEF IInv, Disks
  <2> DEFINE top == Last(disk.stash)
             below == Front(disk.stash)
  <2>2. Live(disk, proc) =
          [tree |-> top, head |-> disk.head, stash |-> below, arts |-> disk.arts]
    BY <1>1 DEF Live
  <2>3. d = [disk EXCEPT !.tree = top, !.stash = below] OBVIOUS
  <2> HIDE DEF top, below, d
  <2>4. d = [tree |-> top, head |-> disk.head, stash |-> below, arts |-> disk.arts]
    BY <2>1, <2>3
  <2> QED BY <2>2, <2>4
<1> HIDE DEF d
<1>3. AtGates(i, d) BY <1>1, <1>2, GatingBegins
<1>4. CASE Done(<<d>> \o FailedGate(d, i, t))
  <2>1. Done(<<d>> \o failed) BY <1>4, GateSteps, Zenon
  <2>2. "failed" \in Verdicts BY DEF Verdicts
  <2> HIDE DEF i
  <2> QED BY <1>3, <2>1, <2>2, GatesKeep
<1>5. CASE SettingAside(i, <<d>> \o ws)
  <2>1. Begins(i, d) /\ d \in Good(Worktree.code, i) /\ i \in Items BY <1>3 DEF Begins, AtGates
  <2>2. Writes(Worktree.code, i, ws) BY <1>3, <2>1, WaivedWrites DEF AtGates
  <2> HIDE DEF ws
  <2> DEFINE es == <<d>> \o ws
  <2>3. Writes(Worktree.code, i, es) BY <2>1, <2>2, OneWrite, MoreWrites
  <2>4. SettingAside(i, es) BY <1>5
  <2> HIDE DEF es
  <2> QED BY <2>1, <2>3, <2>4, SetsAside
<1> QED BY <1>1, <1>4, <1>5

\* What the reviewer may add to a task's scope: areas of the repository.
LEMMA ScopeIsAreas ==
  ASSUME disk \in Disks, NEW i
  PROVE  {p[2] : p \in {q \in OutOfScope(i) : q[1] = "code"}} \subseteq Areas
<1> SUFFICES ASSUME NEW q \in dirtyPaths(disk), q[1] = "code"
             PROVE  q[2] \in Areas
  BY DEF OutOfScope, reviewedPaths
<1>1. ~(q = <<"project">>) OBVIOUS
<1>2. ~(\E j \in Items : q = <<"state", j>> /\ disk.tree.state[j] # disk.head.state[j])
  OBVIOUS
<1>3. ~(\E j \in Items : \E t \in SymDiff(disk.tree.docs[j], disk.head.docs[j]) :
          q = <<"doc", j, t>>)
  OBVIOUS
<1>4. PICK e \in SymDiff(disk.tree.code, disk.head.code) : q = <<"code", e.area>>
  BY <1>1, <1>2, <1>3, DirtyPathsAre, Zenon
<1>5. e \in Edits BY DEF SymDiff, Disks, SoundTrees
<1> QED BY <1>4, <1>5 DEF Edits

\* A task under review was judged: its gates are not run again.
LEMMA ReviewBegins ==
  ASSUME IInv, NEW i, Selected(i, "review_pending")
  PROVE  LET t == disk.tree.state[i].task
         IN  /\ Begins(i, disk) /\ disk.tree.state[i].lc = "review_pending" /\ t \in TaskIds
             /\ disk \in Disks /\ DiskOk(disk)
             /\ ensureQualityGateResults(disk, i, t) = disk
             /\ i \in disk.arts.allowed[i][t]
<1> DEFINE s == disk.tree.state[i]
           t == s.task
<1>1. Begins(i, disk) /\ s \in SoundDocuments /\ WorkItemInspectionKind(s) = "review_pending"
  BY IdleBegins
<1>2. s.lc = "review_pending" BY <1>1, KindOfSound DEF Executing
<1>3. t \in TaskIds /\ t # NoTask
  BY <1>1, <1>2, PointersOfSound DEF SoundDocuments, IsSound, Executing, Ids
<1>4. disk \in Disks /\ DiskOk(disk) /\ i \in Items BY <1>1 DEF Begins, Good
<1>5. t \in InReview(s) /\ t \in Pointers(s) BY <1>2, <1>3 DEF InReview, Pointers
<1>6. disk.arts.gates[i][t].result = "passed" BY <1>4, <1>5 DEF DiskOk, Consistent, Judged
<1>7. i \in disk.arts.allowed[i][t] BY <1>4, <1>5 DEF DiskOk, Consistent, Scoped
<1>8. ensureQualityGateResults(disk, i, t) = disk BY <1>6 DEF ensureQualityGateResults
<1> QED BY <1>1, <1>2, <1>3, <1>4, <1>7, <1>8

LEMMA ReviewSubtaskKeeps ==
  ASSUME IInv, NEW i \in Items, ReviewSubtask(i)
  PROVE  IInv' /\ Traced
<1> DEFINE s == disk.tree.state[i]
           t == s.task
           k == NextCorrection(disk, i, t)
           wider == disk.arts.allowed[i][t]
                      \cup {p[2] : p \in {q \in OutOfScope(i) : q[1] = "code"}}
<1>1. Selected(i, "review_pending") /\ t \in disk.tree.docs[i] BY Zenon DEF ReviewSubtask, Active
<1>2. /\ Begins(i, disk) /\ s.lc = "review_pending" /\ t \in TaskIds /\ disk \in Disks
      /\ ensureQualityGateResults(disk, i, t) = disk /\ i \in disk.arts.allowed[i][t]
  BY <1>1, ReviewBegins
<1>3. \/ ~AtCorrectionLimit(disk, i, t) /\ Authoring(i, k, RequestCorrection(disk, i, k, wider))
      \/ SettingAside(i, <<disk>>)
      \/ Done(ApproveReview(disk, i, t))
      \/ k # NoTask /\ Authoring(i, k, RequestCorrection(disk, i, k, disk.arts.allowed[i][t]))
      \/ Done(RejectReview(disk, i))
  BY <1>2, Zenon DEF ReviewSubtask, Active
<1>4. disk \in Good(Worktree.code, i) BY <1>2 DEF Begins
<1>5. disk.arts.allowed[i][t] \in SUBSET Areas BY <1>2 DEF Disks, Artifacts
<1>6. ASSUME NEW areas \in SUBSET Areas, i \in areas, k # NoTask,
             Authoring(i, k, RequestCorrection(disk, i, k, areas))
      PROVE  IInv' /\ Traced
  <2> DEFINE ds == RequestCorrection(disk, i, k, areas)
  <2>1. Writes(Worktree.code, i, ds) /\ Last(ds).head = Last(ds).tree /\ k \in TaskIds
    BY <1>1, <1>2, <1>4, <1>6, RequestCorrectionWrites
  <2>2. Proceeds(i, ds) BY <1>6, <2>1 DEF Proceeds
  <2> HIDE DEF ds
  <2> QED BY <1>2, <2>1, <2>2, Commits
<1>7. CASE ~AtCorrectionLimit(disk, i, t) /\ Authoring(i, k, RequestCorrection(disk, i, k, wider))
  <2>1. k # NoTask BY <1>7 DEF AtCorrectionLimit
  <2>2. wider \in SUBSET Areas /\ i \in wider BY <1>2, <1>5, ScopeIsAreas
  <2> HIDE DEF wider, k
  <2> QED BY <1>6, <1>7, <2>1, <2>2
<1>8. CASE SettingAside(i, <<disk>>)
  <2> DEFINE ds == <<disk>>
  <2>1. Writes(Worktree.code, i, ds) BY <1>4, OneWrite
  <2>2. SettingAside(i, ds) BY <1>8
  <2> HIDE DEF ds
  <2> QED BY <1>2, <2>1, <2>2, SetsAside
<1>9. CASE Done(ApproveReview(disk, i, t))
  <2> DEFINE ds == ApproveReview(disk, i, t)
  <2>1. Writes(Worktree.code, i, ds) /\ Last(ds).head = Last(ds).tree
    BY <1>1, <1>2, <1>4, ApproveWrites
  <2>2. Proceeds(i, ds) BY <1>9 DEF Proceeds
  <2> HIDE DEF ds
  <2> QED BY <1>2, <2>1, <2>2, Commits
<1>10. CASE k # NoTask /\ Authoring(i, k, RequestCorrection(disk, i, k, disk.arts.allowed[i][t]))
  <2> HIDE DEF k
  <2> QED BY <1>2, <1>5, <1>6, <1>10
<1>11. CASE Done(RejectReview(disk, i))
  <2> DEFINE ds == RejectReview(disk, i)
  <2>1. Writes(Worktree.code, i, ds) /\ Last(ds).head = Last(ds).tree
    BY <1>2, <1>4, RejectWrites
  <2>2. Proceeds(i, ds) BY <1>11 DEF Proceeds
  <2> HIDE DEF ds
  <2> QED BY <1>2, <2>1, <2>2, Commits
<1> HIDE DEF wider, k, t
<1> QED BY <1>3, <1>7, <1>8, <1>9, <1>10, <1>11, Zenon

\* A diagnosis goes on record before what it decides is carried out.
LEMMA RecordedAttempt ==
  ASSUME NEW i, Begins(i, disk)
  PROVE  LET d == WithAttempt(disk, i)
         IN  /\ d \in Good(Worktree.code, i) /\ d \in Disks /\ SameCheckouts(disk, d)
             /\ d.arts.allowed = disk.arts.allowed
             /\ d.tree.state = disk.tree.state /\ d.tree.docs = disk.tree.docs
             /\ DirtyCode(d) = DirtyCode(disk)
<1> DEFINE d == WithAttempt(disk, i)
           c == Worktree.code
<1>1. disk \in Good(c, i) /\ i \in Items /\ disk \in Disks BY DEF Begins, Good
<1> HIDE DEF c
<1>2. /\ d \in Good(c, i) /\ SameCheckouts(disk, d)
      /\ d.arts = [disk.arts EXCEPT !.diagnosed = d.arts.diagnosed]
  BY <1>1, AttemptGood
<1> HIDE DEF d
<1>3. d.arts.allowed = disk.arts.allowed BY <1>1, <1>2 DEF Disks, Artifacts
<1> QED BY <1>2, <1>3 DEF SameCheckouts, DirtyCode, c, d

LEMMA DiagnoseAutocorrectKeeps ==
  ASSUME IInv, NEW i \in Items, DiagnoseAutocorrect(i)
  PROVE  IInv' /\ Traced
<1> DEFINE c == Worktree.code
           d == WithAttempt(disk, i)
           s == disk.tree.state[i]
           k == NextCorrection(disk, i, s.task)
<1>1. PICK kind \in Failed \cup {"blocked"} : Selected(i, kind) BY DEF DiagnoseAutocorrect
<1>2. Begins(i, disk) /\ s \in SoundDocuments /\ WorkItemInspectionKind(s) = kind
  BY <1>1, IdleBegins
<1>3. s.lc \in Failed \cup {"blocked"} BY <1>1, <1>2, KindOfSound
<1>4. /\ d \in Good(c, i) /\ d \in Disks /\ SameCheckouts(disk, d)
      /\ d.arts.allowed = disk.arts.allowed
      /\ d.tree.state = disk.tree.state /\ d.tree.docs = disk.tree.docs
      /\ DirtyCode(d) = DirtyCode(disk)
  BY <1>2, RecordedAttempt
<1>5. disk \in Good(c, i) BY <1>2 DEF Begins
<1>6. \/ SettingAside(i, BlockedForHuman(disk, i))
      \/ /\ s.task # NoTask /\ ~AtCorrectionLimit(disk, i, s.task)
         /\ Authoring(i, k, <<d>> \o CorrectState(d, i, k))
      \/ SettingAside(i, <<d>> \o BlockedForHuman(d, i))
      \/ SettingAside(i, <<d>> \o FileBlockingFix(d, i))
      \/ SettingAside(i, <<d>> \o StopWithDiagnostic(d, i))
  BY Zenon DEF DiagnoseAutocorrect
<1> HIDE DEF d
<1>7. ASSUME NEW ds, Writes(c, i, ds), SettingAside(i, <<d>> \o ds)
      PROVE  IInv' /\ Traced
  <2> DEFINE es == <<d>> \o ds
  <2>1. Writes(c, i, es) BY <1>4, <1>7, OneWrite, MoreWrites
  <2>2. SettingAside(i, es) BY <1>7
  <2> HIDE DEF es
  <2> QED BY <1>2, <2>1, <2>2, SetsAside
<1>8. CASE SettingAside(i, BlockedForHuman(disk, i))
  <2> DEFINE ds == BlockedForHuman(disk, i)
  <2> HIDE DEF c
  <2>1. Writes(c, i, ds) BY <1>3, <1>5, BlockedForHumanWrites
  <2> HIDE DEF ds
  <2> USE DEF c
  <2> QED BY <1>2, <1>8, <2>1, SetsAside DEF ds
<1>9. CASE /\ s.task # NoTask /\ ~AtCorrectionLimit(disk, i, s.task)
           /\ Authoring(i, k, <<d>> \o CorrectState(d, i, k))
  <2> DEFINE ds == CorrectState(d, i, k)
             es == <<d>> \o ds
  <2>1. k = NextCorrection(d, i, d.tree.state[i].task) /\ k # NoTask
    BY <1>4, <1>9 DEF NextCorrection, AtCorrectionLimit
  <2>2. /\ d.tree.state[i].lc \in Failed \cup {"blocked"} /\ d.tree.state[i].task # NoTask
        /\ WorkItemInspectionKind(d.tree.state[i]) \in Failed \cup {"blocked"}
    BY <1>1, <1>2, <1>3, <1>4, <1>9
  <2> HIDE DEF k, c
  <2>3. /\ Writes(c, i, ds) /\ OnlyOf(d, Last(ds), i) /\ isContinuing(Last(ds).tree.state[i])
        /\ Last(ds).arts.allowed[i][DecidedTask(Last(ds).tree.state[i])] =
             d.arts.allowed[i][DecidedTask(d.tree.state[i])]
        /\ k \in TaskIds
    BY <1>4, <2>1, <2>2, CorrectStateWrites, Zenon
  <2> HIDE DEF ds
  <2>4. Writes(c, i, es) /\ Last(es) = Last(ds) BY <1>4, <2>3, OneWrite, MoreWrites
  <2>5. Authoring(i, k, es) BY <1>9 DEF ds
  <2> HIDE DEF es
  <2>6. Proceeds(i, es) BY <2>3, <2>5 DEF Proceeds
  <2>7. OnlyOf(disk, Last(es), i) BY <1>4, <2>3, <2>4 DEF OnlyOf, SameCheckouts
  <2>8. Last(es).arts.allowed[i][DecidedTask(Last(es).tree.state[i])] =
          disk.arts.allowed[i][DecidedTask(disk.tree.state[i])]
    BY <1>4, <2>3, <2>4
  <2>9. isContinuing(Last(es).tree.state[i]) BY <2>3, <2>4
  <2> USE DEF c
  <2> QED BY <1>2, <2>4, <2>6, <2>7, <2>8, <2>9, GoesOn
<1> HIDE DEF c
<1>10. d.tree.state[i].lc \in Failed \cup {"blocked"} BY <1>3, <1>4
<1>11. CASE SettingAside(i, <<d>> \o BlockedForHuman(d, i))
  BY <1>4, <1>7, <1>10, <1>11, BlockedForHumanWrites
<1>12. CASE SettingAside(i, <<d>> \o FileBlockingFix(d, i))
  BY <1>4, <1>7, <1>10, <1>12, FileFixWrites
<1>13. CASE SettingAside(i, <<d>> \o StopWithDiagnostic(d, i))
  <2>1. d.tree.state[i].lc \in Blockable \ {"implementation_running"} /\ d.tree.state[i].lc \notin Planning
    BY <1>10 DEF Blockable, Failed, Planning
  <2>2. "stop" \in Reasons /\ "blocked" \in BlockStates /\ "blocked" # "review_failed"
    BY DEF Reasons, BlockStates
  <2>3. Writes(c, i, StopWithDiagnostic(d, i))
    BY <1>4, <2>1, <2>2, BlockWrites DEF StopWithDiagnostic
  <2> QED BY <1>7, <1>13, <2>3
<1> HIDE DEF k, s
<1> QED BY <1>6, <1>8, <1>9, <1>11, <1>12, <1>13, Zenon

\* What the preflight lets a run start on.
LEMMA AcceptedIsFamiliar ==
  ASSUME NEW d \in Disks, findDisallowedDirtyPaths(d) = {}
  PROVE  Familiar(d, Next1(d, {}), {})
<1>1. CASE Next1(d, {}) = {}
  <2>1. dirtyPaths(d) \subseteq Project BY <1>1 DEF findDisallowedDirtyPaths
  <2>2. ASSUME NEW j \in Items
        PROVE  d.tree.state[j] = d.head.state[j] /\ d.tree.docs[j] = d.head.docs[j]
    <3>1. d.tree.state[j] = d.head.state[j]
      <4>1. <<"state", j>> \notin dirtyPaths(d) BY <2>1 DEF Project
      <4> QED BY <4>1, DirtyPathsAre, Zenon
    <3>2. \A t \in SymDiff(d.tree.docs[j], d.head.docs[j]) : FALSE
      <4>1. \A t : <<"doc", j, t>> \notin dirtyPaths(d) BY <2>1 DEF Project
      <4> QED BY <4>1, DirtyPathsAre, Zenon
    <3> QED BY <3>1, <3>2 DEF SymDiff
  <2> QED BY <1>1, <2>2 DEF Familiar
<1>2. CASE Next1(d, {}) # {}
  <2>1. PICK i \in Next1(d, {}) : TRUE BY <1>2
  <2>2. Next1(d, {}) = {i} /\ i \in Items BY <2>1, NextIsOne
  <2> DEFINE t == DecidedTask(d.tree.state[i])
             areas == d.arts.allowed[i][t]
             paths == Project \cup Directory(i) \cup {<<"code", a>> : a \in areas}
  <2>3. dirtyPaths(d) \subseteq paths
    <3>1. (CHOOSE j \in Next1(d, {}) : TRUE) = i BY <2>2
    <3>2. \/ dirtyPaths(d) = {}
          \/ dirtyPaths(d) \subseteq Project \cup Directory(i) \cup AllowedPaths(d, i, t)
      BY <1>2, <3>1 DEF findDisallowedDirtyPaths
    <3>3. AllowedPaths(d, i, t) \subseteq {<<"code", a>> : a \in areas} BY DEF AllowedPaths
    <3> QED BY <3>2, <3>3
  <2>4. ASSUME NEW e \in DirtyCode(d) PROVE e.area \in areas
    <3>1. e \in SymDiff(d.tree.code, d.head.code) BY DEF DirtyCode, SymDiff
    <3>2. <<"code", e.area>> \in paths BY <2>3, <3>1, DirtyPathsAre, Zenon
    <3> QED BY <3>2 DEF Project, Directory
  <2>5. ASSUME NEW j \in Items, j # i
        PROVE  d.tree.state[j] = d.head.state[j] /\ d.tree.docs[j] = d.head.docs[j]
    <3>1. d.tree.state[j] = d.head.state[j]
      <4>1. <<"state", j>> \notin paths BY <2>5 DEF Project, Directory
      <4> QED BY <2>3, <4>1, DirtyPathsAre, Zenon
    <3>2. \A u \in SymDiff(d.tree.docs[j], d.head.docs[j]) : FALSE
      <4>1. \A u : <<"doc", j, u>> \notin paths BY <2>5 DEF Project, Directory
      <4> QED BY <2>3, <4>1, DirtyPathsAre, Zenon
    <3> QED BY <3>1, <3>2 DEF SymDiff
  <2> QED BY <2>2, <2>4, <2>5 DEF Familiar
<1> QED BY <1>1, <1>2

LEMMA StartRunKeeps ==
  ASSUME IInv, StartRun
  PROVE  IInv' /\ Traced
<1>1. /\ proc.at = "down" /\ findDisallowedDirtyPaths(disk) = {} /\ proc' = Idle({}, {})
      /\ disk' = disk /\ edits' = edits /\ mishaps' = mishaps
  BY DEF StartRun
<1>2. proc' \in Processes /\ proc'.at = "idle" /\ proc'.aside = {} BY <1>1, IdleIsProcess
<1>3. disk \in Disks /\ DiskOk(disk) /\ Live(disk, proc) = disk /\ Live(disk, proc)' = disk
  BY <1>1, <1>2 DEF IInv, Live
<1>4. WorkedOn(disk, proc') = Next1(disk, {}) BY <1>2 DEF WorkedOn
<1>5. ProcOk(disk, proc') BY <1>1, <1>2, <1>3, <1>4, AcceptedIsFamiliar DEF ProcOk, Working
<1>6. IInv' BY <1>1, <1>2, <1>3, <1>5 DEF IInv
<1>7. Traced BY <1>1, <1>2 DEF Traced, Worktree
<1> QED BY <1>6, <1>7

LEMMA EndOrKillKeeps ==
  ASSUME IInv, EndRun \/ Kill
  PROVE  IInv' /\ Traced
<1>1. proc' \in Processes /\ proc'.at = "down" BY DownIsOk DEF EndRun, Kill
<1>2. disk' = disk /\ edits' = edits BY DEF EndRun, Kill
<1>3. mishaps' \in 0..MaxMishaps BY StepWritesAssumption DEF EndRun, Kill, IInv
<1> QED BY <1>1, <1>2, <1>3, Dies

\* What a person does between two runs leaves the code in the worktree as it is.
LEMMA ByHandKeeps ==
  ASSUME IInv, proc.at = "down", proc' = proc, edits' = edits, mishaps' = mishaps,
         NEW w, disk' \in Good(disk.tree.code, w), disk'.tree.code = disk.tree.code
  PROVE  IInv' /\ Traced
<1>1. disk' \in Disks /\ DiskOk(disk') BY DEF Good
<1>2. Live(disk, proc)' = disk' BY DEF Live
<1>3. ProcOk(disk', proc') BY DEF ProcOk, Working
<1>4. IInv' BY <1>1, <1>2, <1>3 DEF IInv
<1>5. Traced BY DEF Traced, Worktree
<1> QED BY <1>4, <1>5

LEMMA CommitByHandKeeps ==
  ASSUME IInv, CommitByHand
  PROVE  IInv' /\ Traced
<1> DEFINE c == disk.tree.code
<1>1. /\ proc.at = "down" /\ disk' = CommitAll(disk)
      /\ proc' = proc /\ edits' = edits /\ mishaps' = mishaps
  BY DEF CommitByHand
<1>2. disk \in Good(c, Feature) BY <1>1 DEF IInv, Live, Good, Kept
<1> HIDE DEF c
<1>3. disk' \in Good(c, Feature) /\ disk'.tree = disk.tree BY <1>1, <1>2, CommitAllGood
<1> QED BY <1>1, <1>3, ByHandKeeps DEF c

LEMMA AcknowledgeBlockerKeeps ==
  ASSUME IInv, NEW i \in Items, acknowledgeBlocker(i)
  PROVE  IInv' /\ Traced
<1> DEFINE c == disk.tree.code
           s == disk.tree.state[i]
           r == AfterHumanAcknowledged(s)
           d1 == WithState(disk, i, r)
           d == Last(Recorded(disk, i, r))
           paths == Project \cup {<<"state", i>>}
<1>1. /\ proc.at = "down" /\ WorkItemInspectionKind(s) = "blocked_on_human"
      /\ disk' = CommitOnly(d, paths)
      /\ proc' = proc /\ edits' = edits /\ mishaps' = mishaps
  BY DEF acknowledgeBlocker
<1>2. disk \in Disks /\ DiskOk(disk) /\ Consistent(disk) BY <1>1 DEF IInv, Live, DiskOk
<1>3. s \in SoundDocuments BY <1>2, DocumentsOfDisk
<1> HIDE DEF s
<1>4. s.lc = "blocked"
  <2>1. s.lc \in Lifecycles BY <1>3 DEF SoundDocuments, StateDocuments
  <2>2. s.lc # "blocked_on_human"
    BY <2>1 DEF Lifecycles, PendingSpecification, Planning, Executing, Failed
  <2> QED BY <1>1, <2>2 DEF WorkItemInspectionKind
<1>5. /\ r \in SoundDocuments /\ r.task = s.task /\ r.corr = NoTask /\ r.from = NoTarget
      /\ r.lc = IF s.from.lc # "none" THEN s.from.lc ELSE "blocked"
  BY <1>3, <1>4, AcknowledgedSound
<1>6. /\ s.corr = NoTask
      /\ s.from.lc \in {"none", "blocked"} \cup Planning \cup Executing
      /\ s.from.lc # "none" => s.from.task = s.task
  BY <1>3, <1>4 DEF SoundDocuments, IsSound
<1> HIDE DEF r
<1>7. InReview(r) \ InReview(s) = {}
  <2>1. r.from.lc # "review_pending" BY <1>5 DEF NoTarget
  <2> QED BY <1>5, <1>6, <2>1 DEF InReview
<1>8. r.lc # "completed" /\ s.lc \notin Planning /\ s.lc # "implementation_running"
  BY <1>4, <1>5, <1>6 DEF Planning, Executing
<1>9. StateFits(disk, i, r)
  BY <1>2, <1>5, <1>6, <1>7, <1>8, SameTaskFits DEF s
<1>10. Redocumented(disk, d, i, r)
  <2>1. Redocumented(disk, d1, i, r) BY <1>2, <1>5, StateWrite
  <2> HIDE DEF d1
  <2> DEFINE d2 == WithProject(d1, i)
  <2>2. d1 \in Disks /\ d1.tree.state[i] = r BY <2>1 DEF Redocumented
  <2>3. Redocumented(d1, d2, i, r) BY <2>2, ProjectWrite
  <2>4. d = d2
    <3>1. Recorded(disk, i, r) = <<d1, d2>> BY DEF Recorded, d1
    <3>2. d1 \in Disks /\ d2 \in Disks BY <2>2, <2>3 DEF Redocumented
    <3> HIDE DEF d2
    <3> QED BY <3>1, <3>2, LastOfTwo
  <2> HIDE DEF d2
  <2>5. Redocumented(disk, d2, i, r) BY <2>1, <2>3 DEF Redocumented
  <2> QED BY <2>4, <2>5
<1> HIDE DEF d
<1>11. Consistent(d) BY <1>2, <1>5, <1>9, <1>10, StateConsistent
<1>12. d \in Disks /\ d.tree.code = disk.tree.code BY <1>10 DEF Redocumented
<1>13. Kept(c, Feature, d) BY <1>12 DEF Kept
<1>14. \A j \in Items : <<"state", j>> \notin paths => Unreviewed(d, j)
  <2>1. ASSUME NEW j \in Items, j # i PROVE Unreviewed(d, j)
    BY <1>2, <1>10, <2>1 DEF DiskOk, Unreviewed, Redocumented
  <2>2. <<"state", i>> \in paths OBVIOUS
  <2> QED BY <2>1, <2>2
<1> HIDE DEF c, paths
<1>15. disk' \in Good(c, Feature) /\ disk'.tree = d.tree
  BY <1>1, <1>11, <1>12, <1>13, <1>14, CommitOnlyGood
<1> QED BY <1>1, <1>12, <1>15, ByHandKeeps DEF c

LEMMA InitHolds ==
  ASSUME Init
  PROVE  IInv
<1> DEFINE states == [i \in Items |-> IF i = Feature THEN Validated(Formalized)
                                      ELSE Blank("absent")]
           docs == [i \in Items |-> {}]
           project == [item |-> Feature, lc |-> "formalized"]
           tree == [state |-> states, docs |-> docs, project |-> project, code |-> {}]
           outline == [n \in 1..Requests |-> "not_started"]
           arts == [allowed |-> [i \in Items |-> [t \in TaskIds |-> {}]],
                    source |-> [t \in TaskIds |-> 0],
                    outline |-> outline,
                    diffs |-> [i \in Items |-> [t \in TaskIds |-> {}]],
                    gates |-> [i \in Items |-> [t \in TaskIds |-> NoGates]],
                    reviews |-> [i \in Items |-> {}],
                    diagnosed |-> [i \in Items |-> NoBlocker]]
<1>1. /\ disk = [tree |-> tree, head |-> tree, stash |-> <<>>, arts |-> arts]
      /\ proc = Down /\ edits = 0 /\ mishaps = 0
  BY Zenon DEF Init
<1>2. /\ states \in [Items -> SoundDocuments]
      /\ states[Feature] = Validated(Formalized) /\ states[Fix] = Blank("absent")
  BY FreshSound DEF Items, Feature, Fix
<1>a. arts.outline = outline OBVIOUS
<1> HIDE DEF states
<1>3. \A i \in Items : /\ Pointers(states[i]) = {} /\ InReview(states[i]) = {}
                       /\ states[i].lc \in {"formalized", "absent"}
  BY <1>2 DEF Pointers, InReview, Validated, Formalized, Blank, NoTarget, NoTask, Items
<1> HIDE DEF arts
<1>4. /\ disk.tree = tree /\ disk.head = tree /\ disk.stash = <<>>
      /\ tree.state = states /\ tree.code = {}
      /\ \A i \in Items : tree.docs[i] = {}
      /\ \A n \in 1..Requests : disk.arts.outline[n] = "not_started"
  BY <1>1, <1>a
<1>5. tree \in SoundTrees
  <2>1. project \in [item : Items, lc : Lifecycles]
    BY DEF Items, Lifecycles, Planning
  <2>2. docs \in [Items -> SUBSET TaskIds] OBVIOUS
  <2> HIDE DEF docs, project
  <2> QED BY <1>2, <2>1, <2>2 DEF SoundTrees
<1>6. arts \in Artifacts
  <2>2. [i \in Items |-> [t \in TaskIds |-> {}]] \in [Items -> [TaskIds -> SUBSET Areas]]
    OBVIOUS
  <2>3. [i \in Items |-> [t \in TaskIds |-> {}]] \in [Items -> [TaskIds -> SUBSET Edits]]
    OBVIOUS
  <2>4. [i \in Items |-> [t \in TaskIds |-> NoGates]] \in
          [Items -> [TaskIds -> [result : {"none", "passed", "failed", "waived"},
                                 code : SUBSET Edits]]]
    <3>1. NoGates \in [result : {"none", "passed", "failed", "waived"}, code : SUBSET Edits]
      BY DEF NoGates
    <3> QED BY <3>1
  <2>5. [t \in TaskIds |-> 0] \in [TaskIds -> 0..Requests] BY StepWritesAssumption
  <2> QED BY <2>2, <2>3, <2>4, <2>5 DEF Artifacts, arts
<1>7. disk \in Disks
  <2> HIDE DEF tree
  <2>1. <<>> \in Seq(SoundTrees) OBVIOUS
  <2> QED BY <1>1, <1>5, <1>6, <2>1 DEF Disks
<1> HIDE DEF tree
<1>8. DirtyCode(disk) = {} BY <1>4 DEF DirtyCode
<1>9. Consistent(disk)
  <2>1. CodeOk(disk) BY <1>4, <1>8 DEF CodeOk
  <2>2. Resolved(disk) /\ Scoped(disk) /\ Superseded(disk)
    BY <1>3, <1>4, <1>8 DEF Resolved, Scoped, Superseded
  <2>3. Judged(disk, disk.tree) /\ Judged(disk, disk.head) BY <1>3, <1>4, <1>8 DEF Judged
  <2>4. Archived(disk) /\ Current(disk) BY <1>8 DEF Archived, Current
  <2>5. Served(disk)
    <3>1. Feature \in Items BY DEF Items
    <3>2. disk.tree.docs[Feature] = {} /\ disk.tree.state[Feature].lc # "completed"
      BY <1>3, <1>4, <1>8, <3>1
    <3> QED BY <1>4, <3>2 DEF Served
  <2> QED BY <2>1, <2>2, <2>3, <2>4, <2>5 DEF Consistent
<1>10. DiskOk(disk) BY <1>3, <1>4, <1>9 DEF DiskOk, Unreviewed
<1>11. proc \in Processes /\ proc.at = "down" /\ Live(disk, proc) = disk /\ ProcOk(disk, proc)
  BY <1>1, DownIsOk
<1>12. 0 \in 0..MaxEdits /\ 0 \in 0..MaxMishaps BY StepWritesAssumption
<1> QED BY <1>1, <1>7, <1>10, <1>11, <1>12 DEF IInv

\* Every step, and every prefix of its writes, keeps the invariant and what it throws away.
LEMMA NextKeeps ==
  ASSUME IInv, [Next]_vars
  PROVE  IInv' /\ Traced
<1>1. ASSUME NEW i \in Items, StepOf(i) \/ acknowledgeBlocker(i) PROVE IInv' /\ Traced
  BY <1>1, PlanTaskKeeps, PlanSubtaskKeeps, ImplementSubtaskKeeps, ReviewSubtaskKeeps,
     DiagnoseAutocorrectKeeps, AcknowledgeBlockerKeeps DEF StepOf
<1>2. CASE AttemptCompletion \/ AgentEdits \/ AgentReturns
  BY <1>2, AttemptCompletionKeeps, AgentEditsKeeps, AgentReturnsKeeps
<1>3. CASE RunQualityGates \/ StashForBaseline \/ PopBaseline
  BY <1>3, RunQualityGatesKeeps, StashForBaselineKeeps, PopBaselineKeeps
<1>4. CASE StartRun \/ EndRun \/ Kill \/ CommitByHand
  BY <1>4, StartRunKeeps, EndOrKillKeeps, CommitByHandKeeps
<1>5. CASE UNCHANGED vars
  <2>1. disk' = disk /\ proc' = proc /\ edits' = edits /\ mishaps' = mishaps
    BY <1>5 DEF vars
  <2>2. IInv' BY <2>1 DEF IInv, Live
  <2>3. Traced BY <2>1 DEF Traced, Worktree
  <2> QED BY <2>2, <2>3
<1> QED BY <1>1, <1>2, <1>3, <1>4, <1>5 DEF Next

(***************************************************************************)
(* The theorems.                                                           *)
(***************************************************************************)

\* Whatever write a kill falls behind, what is on the disk is what a run can be started on,
\* and a run at work knows its worktree.
THEOREM StepWritesInvariant == Spec => []IInv
<1>1. Init => IInv BY InitHolds
<1>2. IInv /\ [Next]_vars => IInv' BY NextKeeps
<1> QED BY <1>1, <1>2, PTL DEF Spec

\* The checkouts, the stash, the artifacts and the process are always of their types.
THEOREM StepWritesTypes == Spec => []TypeOk
<1>1. IInv => TypeOk
  <2> SUFFICES ASSUME IInv PROVE TypeOk OBVIOUS
  <2>1. SoundTrees \subseteq Trees BY DEF SoundTrees, Trees, SoundDocuments
  <2>2. /\ disk.tree \in SoundTrees /\ disk.head \in SoundTrees /\ disk.arts \in Artifacts
        /\ disk.stash \in Seq(SoundTrees)
    BY DEF IInv, Disks
  <2>3. ToSet(disk.stash) \subseteq SoundTrees BY <2>2, ElementOfSeq DEF ToSet
  <2>4. {disk.tree, disk.head} \cup ToSet(disk.stash) \subseteq Trees BY <2>1, <2>2, <2>3
  <2> QED BY <2>2, <2>4 DEF TypeOk, IInv, Processes
<1> QED BY <1>1, StepWritesInvariant, PTL

\* The tasks a state document names or suspends have their document and their artifact, after
\* any prefix of any step's writes.
THEOREM PointersAlwaysResolve == Spec => []PointersResolve
<1>1. IInv => PointersResolve
  <2> SUFFICES ASSUME IInv, disk.stash = <<>>,
                      NEW i \in Items, NEW t \in Pointers(disk.tree.state[i])
               PROVE  t \in disk.tree.docs[i] /\ disk.arts.allowed[i][t] # {}
    BY DEF PointersResolve
  <2>1. DiskOk(disk) BY DEF IInv, Live
  <2>2. Resolved(disk) /\ Scoped(disk) BY <2>1 DEF DiskOk, Consistent
  <2> QED BY <2>2 DEF Resolved, Scoped
<1> QED BY <1>1, StepWritesInvariant, PTL

\* A feature is only closed when every request of its outline was served by an approved task.
THEOREM NothingIsLeftAtCompletion == Spec => []CompletionLeavesNothing
<1>1. IInv => CompletionLeavesNothing
  <2> SUFFICES ASSUME IInv, disk.stash = <<>>, disk.tree.state[Feature].lc = "completed",
                      NEW n \in 1..Requests
               PROVE  \E t \in disk.tree.docs[Feature] : Serves(disk, t, n)
    BY DEF CompletionLeavesNothing, Serves
  <2>1. Served(disk) BY DEF IInv, Live, DiskOk, Consistent
  <2> QED BY <2>1 DEF Served
<1> QED BY <1>1, StepWritesInvariant, PTL

\* What is reviewed was judged: the gates a review does not run again passed on all of it.
THEOREM GatesAreOfTheReviewedDiff == Spec => []GatesJudgeThisDiff
<1>1. IInv => GatesJudgeThisDiff
  <2> SUFFICES ASSUME IInv, NEW i \in Items, Selected(i, "review_pending")
               PROVE  LET t        == disk.tree.state[i].task
                          reviewed == {e \in disk.tree.code : e.item = i /\ e.task = t}
                      IN  /\ disk.arts.gates[i][t].result = "passed"
                          /\ reviewed \subseteq disk.arts.gates[i][t].code
                          /\ disk.arts.gates[i][t].code \ reviewed \subseteq
                               disk.arts.diffs[i][t]
    BY Zenon DEF GatesJudgeThisDiff, Active
  <2> DEFINE t == disk.tree.state[i].task
  <2>1. t \in TaskIds /\ disk.tree.state[i].lc = "review_pending" /\ DiskOk(disk)
    BY ReviewBegins
  <2>2. t \in InReview(disk.tree.state[i]) BY <2>1 DEF InReview
  <2>3. Judged(disk, disk.tree) BY <2>1 DEF DiskOk, Consistent
  <2> QED BY <2>2, <2>3 DEF Judged, Own
<1> QED BY <1>1, StepWritesInvariant, PTL

\* What is submitted to the reviewer was written for the task under review, but for the two
\* exceptions the invariant names.
THEOREM ReviewsAreOfOwnDiffs == Spec => []ReviewedDiffIsOwn
<1>1. IInv => ReviewedDiffIsOwn
  <2> SUFFICES ASSUME IInv, NEW i \in Items, Selected(i, "review_pending"),
                      NEW e \in DirtyCode(disk)
               PROVE  IF e.item = i THEN e.task = disk.tree.state[i].task
                      ELSE \/ e.item \in proc.aside
                           \/ e.area \in disk.arts.allowed[i][disk.tree.state[i].task]
    BY Zenon DEF ReviewedDiffIsOwn, Active
  <2>1. Begins(i, disk) /\ disk.tree.state[i].lc = "review_pending" /\ DiskOk(disk)
    BY ReviewBegins
  <2>2. Familiar(disk, {i}, proc.aside) BY <2>1 DEF Begins
  <2>3. DecidedTask(disk.tree.state[i]) = disk.tree.state[i].task BY <2>1 DEF DecidedTask
  <2>4. CASE e.item = i
    <3>1. disk.tree.state[i].lc \notin Planning BY <2>1 DEF Planning
    <3> QED BY <2>1, <2>4, <3>1 DEF DiskOk, Consistent, Current
  <2>5. CASE e.item # i BY <2>2, <2>3, <2>5 DEF Familiar
  <2> QED BY <2>4, <2>5
<1> QED BY <1>1, StepWritesInvariant, PTL

\* An attempt that keeps to its scope, in a run that set nothing aside, leaves a worktree the
\* next run starts on.
THEOREM InterruptedAttemptsAreAccepted == Spec => []InterruptedAttemptIsAccepted
<1>1. IInv => InterruptedAttemptIsAccepted
  <2> DEFINE i == proc.item
             s == disk.tree.state[i]
             t == DecidedTask(s)
             paths == Project \cup Directory(i) \cup AllowedPaths(disk, i, t)
  <2> SUFFICES ASSUME IInv, proc.at \in {"implementing", "gating"}, proc.aside = {},
                      i \in Next1(disk, {}),
                      \A e \in DirtyCode(disk) : e.item = i /\ e.area # "elsewhere"
               PROVE  findDisallowedDirtyPaths(disk) = {}
    BY DEF InterruptedAttemptIsAccepted
  <2>1. /\ Begins(i, disk) /\ s.lc = "implementation_running" /\ s.task \in disk.tree.docs[i]
    BY WorkingBegins DEF Working
  <2>2. /\ disk \in Disks /\ DiskOk(disk) /\ i \in Items /\ s \in SoundDocuments
        /\ Familiar(disk, {i}, {})
    BY <2>1, DocumentsOfDisk DEF Begins, Good
  <2>3. t = s.task /\ t \in TaskIds /\ t # NoTask
    BY <2>1, <2>2, RunningIsUnreviewed, TaskIdsAreNumbers DEF DecidedTask, NoTask
  <2>4. i \in disk.arts.allowed[i][t]
    <3>1. t \in Pointers(s) BY <2>3 DEF Pointers
    <3> QED BY <2>2, <3>1 DEF DiskOk, Consistent, Scoped
  <2>5. ~isStartable(s) BY <2>1, <2>2, KindOfSound DEF Executing
  <2>6. Next1(disk, {}) = {i} BY NextIsOne
  <2>7. findDisallowedDirtyPaths(disk) = dirtyPaths(disk) \ paths
    <3>1. (CHOOSE j \in Next1(disk, {}) : TRUE) = i BY <2>6
    <3> HIDE DEF i
    <3> QED BY <2>5, <2>6, <3>1 DEF findDisallowedDirtyPaths
  <2>8. \A j \in Items \ {i} :
          disk.tree.state[j] = disk.head.state[j] /\ disk.tree.docs[j] = disk.head.docs[j]
    BY <2>2 DEF Familiar
  <2> HIDE DEF t, s, i
  <2>9. ASSUME NEW x \in dirtyPaths(disk) PROVE x \in paths
    <3>1. CASE x = <<"project">> BY <3>1 DEF Project
    <3>2. CASE \E j \in Items : x = <<"state", j>> /\ disk.tree.state[j] # disk.head.state[j]
      BY <2>8, <3>2 DEF Directory
    <3>3. CASE \E j \in Items : \E u \in SymDiff(disk.tree.docs[j], disk.head.docs[j]) :
                 x = <<"doc", j, u>>
      <4>1. PICK j \in Items : \E u \in SymDiff(disk.tree.docs[j], disk.head.docs[j]) :
                                 x = <<"doc", j, u>>
        BY <3>3
      <4>2. PICK u \in SymDiff(disk.tree.docs[j], disk.head.docs[j]) : x = <<"doc", j, u>>
        BY <4>1
      <4>3. j = i BY <2>8, <4>2 DEF SymDiff
      <4>4. u \in TaskIds BY <2>2, <4>1, <4>2 DEF SymDiff, Disks, SoundTrees
      <4> QED BY <4>2, <4>3, <4>4 DEF Directory
    <3>4. CASE \E e \in SymDiff(disk.tree.code, disk.head.code) : x = <<"code", e.area>>
      <4>1. PICK e \in SymDiff(disk.tree.code, disk.head.code) : x = <<"code", e.area>>
        BY <3>4
      <4>2. disk.head.code \subseteq disk.tree.code
            /\ \A y \in disk.tree.code : y.area \in {y.item, "elsewhere"}
        BY <2>2 DEF DiskOk, Consistent, CodeOk
      <4>3. e \in DirtyCode(disk) /\ e \in disk.tree.code
        BY <4>1, <4>2 DEF SymDiff, DirtyCode
      <4>4. e.area = i BY <4>2, <4>3
      <4>5. t \in disk.tree.docs[i] BY <2>1, <2>3
      <4> QED BY <2>4, <4>1, <4>4, <4>5 DEF AllowedPaths
    <3> QED BY <3>1, <3>2, <3>3, <3>4, DirtyPathsAre, Zenon
  <2> QED BY <2>7, <2>9
<1> QED BY <1>1, StepWritesInvariant, PTL

\* A change of the item worked on that leaves the worktree is in the stash or in the archived
\* patch of its task.
THEOREM DiscardsAlwaysArchived == Spec => DiscardsAreArchived
<1>1. IInv /\ [Next]_vars =>
        [\A e \in Worktree.code \ Worktree'.code :
           \/ e.item \notin Worked
           \/ \E k \in DOMAIN disk'.stash : e \in disk'.stash[k].code
           \/ e \in disk'.arts.diffs[e.item][e.task]]_vars
  BY NextKeeps DEF Traced
<1> QED BY <1>1, StepWritesInvariant, PTL DEF Spec, DiscardsAreArchived
=============================================================================
