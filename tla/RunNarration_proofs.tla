------------------------- MODULE RunNarration_proofs -------------------------
(***************************************************************************)
(* What reaches the watcher of a supervised run, for any number of runs,   *)
(* steps and failing appends: the events it is shown implement EventFeed,  *)
(* and all of a run's events are shown but those that failing appends      *)
(* cost.                                                                   *)
(*                                                                         *)
(* The argument follows the log's last line.  An event is appended to the  *)
(* log after all earlier ones, can be read only once its line is whole,    *)
(* and can become unreadable again only while its line is the last one.    *)
(***************************************************************************)
EXTENDS RunSupervision_proofs, Collections_proofs

(***************************************************************************)
(* Reading the log.                                                        *)
(***************************************************************************)

\* The function that readRunEvents computes line by line.
Reads(lines, n, f) ==
  f = [k \in 0..n |-> IF k = 0 THEN <<>>
                      ELSE IF lines[k].text = "whole" THEN Append(f[k - 1], lines[k].event)
                      ELSE f[k - 1]]

\* There is such a function for every number of lines.
LEMMA ReadingExists == ASSUME NEW lines PROVE \A n \in Nat : \E f : Reads(lines, n, f)
<1> SUFFICES ASSUME NEW n \in Nat PROVE \E f : Reads(lines, n, f) OBVIOUS
<1> DEFINE keep == [k \in 0..n |-> lines[k].text = "whole"]
           val  == [k \in 0..n |-> lines[k].event]
<1>1. \A k \in 0..n : keep[k] = (lines[k].text = "whole") /\ val[k] = lines[k].event OBVIOUS
<1> HIDE DEF keep, val
<1>2. PICK f : Filters(keep, val, n, f) BY FilterExists
<1>3. Reads(lines, n, f) BY <1>1, <1>2 DEF Filters, Reads
<1> QED BY <1>3

\* What readRunEvents returns is its last value.
LEMMA ReadUnfolds ==
  ASSUME NEW lines, Len(lines) \in Nat
  PROVE  \E f : Reads(lines, Len(lines), f) /\ readRunEvents(lines) = f[Len(lines)]
<1> DEFINE f == CHOOSE g : g = [k \in 0..Len(lines) |-> IF k = 0 THEN <<>>
                      ELSE IF lines[k].text = "whole" THEN Append(g[k - 1], lines[k].event)
                      ELSE g[k - 1]]
<1>1. Reads(lines, Len(lines), f)
  <2>1. \E g : Reads(lines, Len(lines), g) BY ReadingExists
  <2> QED BY <2>1, Zenon DEF Reads
<1>2. readRunEvents(lines) = f[Len(lines)] BY Zenon DEF readRunEvents
<1> QED BY <1>1, <1>2

\* The legible lines of a log of lines are numbers.
LEMMA ReadType == ASSUME NEW lines \in Seq(Lines) PROVE readRunEvents(lines) \in Seq(Nat)
<1>1. Len(lines) \in Nat BY LenProperties
<1>2. PICK f : Reads(lines, Len(lines), f) /\ readRunEvents(lines) = f[Len(lines)]
  BY <1>1, ReadUnfolds
<1> DEFINE T == {n \in Nat : n <= Len(lines) => f[n] \in Seq(Nat)}
<1>3. 0 \in T BY <1>1, <1>2 DEF Reads
<1>4. ASSUME NEW n \in T PROVE n + 1 \in T
  <2>1. SUFFICES ASSUME n + 1 <= Len(lines) PROVE f[n + 1] \in Seq(Nat) OBVIOUS
  <2>2. f[n] \in Seq(Nat) /\ n + 1 \in 0..Len(lines) /\ n + 1 # 0 /\ (n + 1) - 1 = n
    BY <1>1, <2>1
  <2>3. f[n + 1] = IF lines[n + 1].text = "whole" THEN Append(f[n], lines[n + 1].event) ELSE f[n]
    BY <1>2, <2>2 DEF Reads
  <2>4. lines[n + 1] \in Lines BY <1>1, <2>1, ElementOfSeq
  <2>5. lines[n + 1].event \in Nat BY <2>4 DEF Lines
  <2> QED BY <2>2, <2>3, <2>5, AppendProperties
<1>5. T = Nat
  <2> HIDE DEF T
  <2>1. T \in SUBSET Nat BY DEF T
  <2> QED BY <1>3, <1>4, <2>1, NatSetInduction
<1> QED BY <1>1, <1>2, <1>5

\* A line more is an event more if it parses, and nothing otherwise.
LEMMA ReadAppend ==
  ASSUME NEW lines \in Seq(Lines), NEW l \in Lines
  PROVE  readRunEvents(Append(lines, l)) =
           IF l.text = "whole" THEN Append(readRunEvents(lines), l.event) ELSE readRunEvents(lines)
<1> DEFINE more == Append(lines, l)
<1>1. /\ Len(lines) \in Nat /\ Len(more) = Len(lines) + 1 /\ Len(more) \in Nat
      /\ more[Len(lines) + 1] = l /\ \A k \in 1..Len(lines) : more[k] = lines[k]
  BY AppendProperties, LenProperties
<1> HIDE DEF more
<1>2. PICK f : Reads(lines, Len(lines), f) /\ readRunEvents(lines) = f[Len(lines)]
  BY <1>1, ReadUnfolds
<1>3. PICK g : Reads(more, Len(more), g) /\ readRunEvents(more) = g[Len(more)]
  BY <1>1, ReadUnfolds
<1> DEFINE T == {n \in Nat : n <= Len(lines) => f[n] = g[n]}
<1>4. 0 \in T BY <1>1, <1>2, <1>3 DEF Reads
<1>5. ASSUME NEW n \in T PROVE n + 1 \in T
  <2>1. SUFFICES ASSUME n + 1 <= Len(lines) PROVE f[n + 1] = g[n + 1] OBVIOUS
  <2>2. /\ f[n] = g[n] /\ n + 1 \in 0..Len(lines) /\ n + 1 \in 0..Len(more) /\ n + 1 # 0
        /\ (n + 1) - 1 = n
    BY <1>1, <2>1
  <2>3. f[n + 1] = IF lines[n + 1].text = "whole" THEN Append(f[n], lines[n + 1].event) ELSE f[n]
    BY <1>2, <2>2 DEF Reads
  <2>4. g[n + 1] = IF more[n + 1].text = "whole" THEN Append(g[n], more[n + 1].event) ELSE g[n]
    BY <1>3, <2>2 DEF Reads
  <2>5. more[n + 1] = lines[n + 1] BY <1>1, <2>2
  <2> QED BY <2>2, <2>3, <2>4, <2>5
<1>6. T = Nat
  <2> HIDE DEF T
  <2>1. T \in SUBSET Nat BY DEF T
  <2> QED BY <1>4, <1>5, <2>1, NatSetInduction
<1>7. f[Len(lines)] = g[Len(lines)] BY <1>1, <1>6
<1>8. g[Len(more)] = IF l.text = "whole" THEN Append(g[Len(lines)], l.event) ELSE g[Len(lines)]
  <2>1. Len(more) \in 0..Len(more) /\ Len(more) # 0 /\ Len(more) - 1 = Len(lines) BY <1>1
  <2>2. g[Len(more)] = IF more[Len(more)].text = "whole"
                       THEN Append(g[Len(more) - 1], more[Len(more)].event)
                       ELSE g[Len(more) - 1]
    BY <1>3, <2>1 DEF Reads
  <2> QED BY <1>1, <2>1, <2>2
<1>9. readRunEvents(more) =
        IF l.text = "whole" THEN Append(readRunEvents(lines), l.event) ELSE readRunEvents(lines)
  BY <1>2, <1>3, <1>7, <1>8
<1> QED BY <1>9 DEF more

\* Nothing is read from an empty log.
LEMMA ReadEmpty == readRunEvents(<<>>) = <<>>
<1>1. Len(<<>>) = 0 OBVIOUS
<1>2. PICK f : Reads(<<>>, 0, f) /\ readRunEvents(<<>>) = f[0]
  BY <1>1, ReadUnfolds
<1>3. f[0] = <<>> BY <1>2 DEF Reads
<1> QED BY <1>2, <1>3

\* A log is its last line and what is before it, and so is the log with that line rewritten.
LEMMA Rewritten ==
  ASSUME NEW lines \in Seq(Lines), lines # <<>>
  PROVE  /\ Front(lines) \in Seq(Lines) /\ Last(lines) \in Lines
         /\ lines = Append(Front(lines), Last(lines))
         /\ \A l \in Lines : [lines EXCEPT ![Len(lines)] = l] = Append(Front(lines), l)
<1>1. Front(lines) \in Seq(Lines) /\ Last(lines) \in Lines BY LastAndFront
<1>2. Len(lines) \in Nat \ {0} BY EmptySeq
<1>3. /\ Len(Front(lines)) = Len(lines) - 1
      /\ \A k \in 1..(Len(lines) - 1) : Front(lines)[k] = lines[k]
  <2>1. \A k \in 1 .. Len(lines) - 1 : lines[k] \in Lines BY <1>2, ElementOfSeq
  <2>2. /\ Len(SubSeq(lines, 1, Len(lines) - 1)) =
             IF 1 <= Len(lines) - 1 THEN (Len(lines) - 1) - 1 + 1 ELSE 0
        /\ \A k \in 1 .. (Len(lines) - 1) - 1 + 1 :
             SubSeq(lines, 1, Len(lines) - 1)[k] = lines[1 + k - 1]
    BY <1>2, <2>1, SubSeqProperties
  <2>3. (Len(lines) - 1) - 1 + 1 = Len(lines) - 1 BY <1>2
  <2>4. ASSUME NEW k \in 1 .. (Len(lines) - 1) PROVE 1 + k - 1 = k
    <3>1. k \in Int BY <1>2, <2>4
    <3> QED BY <3>1
  <2>5. Len(SubSeq(lines, 1, Len(lines) - 1)) = Len(lines) - 1
    <3>1. CASE 1 <= Len(lines) - 1 BY <2>2, <2>3, <3>1, Zenon
    <3>2. CASE ~(1 <= Len(lines) - 1)
      <4>1. \A n \in Nat \ {0} : ~(1 <= n - 1) => n - 1 = 0 OBVIOUS
      <4>2. Len(lines) - 1 = 0 BY <1>2, <3>2, <4>1, Zenon
      <4> QED BY <2>2, <3>2, <4>2, Zenon
    <3> QED BY <3>1, <3>2
  <2> QED BY <2>2, <2>3, <2>4, <2>5 DEF Front
<1>4. ASSUME NEW l \in Lines
      PROVE  [lines EXCEPT ![Len(lines)] = l] = Append(Front(lines), l)
  <2> DEFINE a == [lines EXCEPT ![Len(lines)] = l]
             b == Append(Front(lines), l)
  <2>1. a \in Seq(Lines) /\ Len(a) = Len(lines) /\ a[Len(lines)] = l
        /\ \A k \in 1..(Len(lines) - 1) : a[k] = lines[k]
    BY <1>2, ExceptSeq
  <2>2. b \in Seq(Lines) /\ Len(b) = Len(lines) /\ b[Len(lines)] = l
        /\ \A k \in 1..(Len(lines) - 1) : b[k] = Front(lines)[k]
    BY <1>1, <1>2, <1>3, AppendProperties
  <2> HIDE DEF a, b
  <2>3. \A k \in 1..Len(lines) : a[k] = b[k] BY <1>2, <1>3, <2>1, <2>2
  <2>4. a = b BY <2>1, <2>2, <2>3, SeqEqual
  <2> QED BY <2>4 DEF a, b
<1>5. [lines EXCEPT ![Len(lines)] = Last(lines)] = lines BY <1>2, SMT DEF Last
<1> QED BY <1>1, <1>4, <1>5

(***************************************************************************)
(* The invariant of the narration.                                         *)
(***************************************************************************)

Legible == readRunEvents(log)

Ascending(s) == \A i, j \in 1..Len(s) : i < j => s[i] < s[j]
Within(s, n) == \A i \in 1..Len(s) : s[i] \in 1..n

Appending == {"narrate", "writing"}

ChannelOk == platform \in Platforms /\ log \in Seq(Lines) /\ emitted \in Nat /\ shown \in Seq(Nat)

\* What can be read and what was shown is in order and of this run, and what is still to be
\* shown comes after what was shown.
Ordered ==
  /\ Ascending(Legible) /\ Within(Legible, child.event)
  /\ Ascending(shown) /\ Within(shown, child.event)
  /\ \A i \in 1..Len(Legible) : i > emitted => Within(shown, Legible[i] - 1)

\* The event being appended is later than all that was appended before it, and is not read
\* before its line is whole.
Fresh ==
  /\ child.pc = "narrate" \/ (child.pc = "writing" /\ Last(log).text = "partial") =>
       child.event > 0 /\ Within(Legible, child.event - 1) /\ Within(shown, child.event - 1)
  /\ child.pc = "writing" => log # <<>> /\ Last(log).open
  /\ child.pc = "writing" /\ Last(log).text = "partial" => Last(log).event = child.event

\* What an open line may still cost: the event appended to it, and the one it holds.
Owed == IF log = <<>> \/ ~Last(log).open THEN 0 ELSE IF Last(log).text = "whole" THEN 2 ELSE 1

\* What was shown or can be, the failures made good: as many as the events narrated.
Told == (Len(shown) + Len(Legible)) - emitted + 2 * past.failures

Accounted ==
  /\ child.pc \notin Appending => Told >= child.event + Owed
  /\ child.pc = "narrate" => Told >= child.event - 1 + Owed
  /\ child.pc = "writing" =>
       Told >= IF Last(log).text = "partial" THEN child.event - 1 ELSE child.event

\* A result is returned after the last of the log was read.
Drained == ~sup.watching => emitted = Len(Legible)

NInv == SInv /\ ChannelOk /\ Ordered /\ Fresh /\ Accounted /\ Drained

\* The last line rewritten: only its own event comes or goes.
LEMMA ReadRewritten ==
  ASSUME NEW lines \in Seq(Lines), lines # <<>>, NEW l \in Lines
  PROVE  LET front == readRunEvents(Front(lines))
         IN  /\ front \in Seq(Nat) /\ l.event \in Nat /\ Last(lines).event \in Nat
             /\ readRunEvents(lines) =
                  IF Last(lines).text = "whole" THEN Append(front, Last(lines).event) ELSE front
             /\ readRunEvents([lines EXCEPT ![Len(lines)] = l]) =
                  IF l.text = "whole" THEN Append(front, l.event) ELSE front
             /\ [lines EXCEPT ![Len(lines)] = l] \in Seq(Lines)
             /\ [lines EXCEPT ![Len(lines)] = l] # <<>>
             /\ Last([lines EXCEPT ![Len(lines)] = l]) = l
<1>1. /\ Front(lines) \in Seq(Lines) /\ Last(lines) \in Lines
      /\ lines = Append(Front(lines), Last(lines))
      /\ [lines EXCEPT ![Len(lines)] = l] = Append(Front(lines), l)
  BY Rewritten
<1>2. l.event \in Nat /\ Last(lines).event \in Nat BY <1>1 DEF Lines
<1>3. readRunEvents(Front(lines)) \in Seq(Nat) BY <1>1, ReadType
<1>4. readRunEvents(Append(Front(lines), Last(lines))) =
        IF Last(lines).text = "whole" THEN Append(readRunEvents(Front(lines)), Last(lines).event)
        ELSE readRunEvents(Front(lines))
  BY <1>1, ReadAppend
<1>5. readRunEvents(Append(Front(lines), l)) =
        IF l.text = "whole" THEN Append(readRunEvents(Front(lines)), l.event)
        ELSE readRunEvents(Front(lines))
  BY <1>1, ReadAppend
<1>6. /\ Append(Front(lines), l) \in Seq(Lines) /\ Append(Front(lines), l) # <<>>
      /\ Last(Append(Front(lines), l)) = l
  BY <1>1, LastOfAppend
<1> QED BY <1>1, <1>2, <1>3, <1>4, <1>5, <1>6

(***************************************************************************)
(* Ascending sequences, and parts of them.                                 *)
(***************************************************************************)

\* A bound may be raised.
LEMMA WithinMore ==
  ASSUME NEW s \in Seq(Nat), NEW n \in Int, NEW m \in Int, n <= m, Within(s, n)
  PROVE  Within(s, m)
BY LenProperties, ElementOfSeq DEF Within

\* A later event at the end.
LEMMA OneMore ==
  ASSUME NEW s \in Seq(Nat), NEW n \in Nat \ {0}, Ascending(s), Within(s, n - 1)
  PROVE  /\ Append(s, n) \in Seq(Nat) /\ Len(Append(s, n)) = Len(s) + 1
         /\ Append(s, n)[Len(s) + 1] = n /\ \A i \in 1..Len(s) : Append(s, n)[i] = s[i]
         /\ Ascending(Append(s, n)) /\ Within(Append(s, n), n)
<1> DEFINE t == Append(s, n)
<1>1. /\ t \in Seq(Nat) /\ Len(s) \in Nat /\ Len(t) = Len(s) + 1 /\ t[Len(s) + 1] = n
      /\ \A i \in 1..Len(s) : t[i] = s[i]
  BY AppendProperties, LenProperties
<1>2. \A i \in 1..Len(s) : s[i] \in 1..(n - 1) BY DEF Within
<1> HIDE DEF t
<1>3. ASSUME NEW i \in 1..Len(t), NEW j \in 1..Len(t), i < j PROVE t[i] < t[j]
  <2>1. i \in 1..Len(s) /\ t[i] = s[i] BY <1>1, <1>3
  <2>2. CASE j = Len(s) + 1 BY <1>1, <1>2, <2>1, <2>2
  <2>3. CASE j # Len(s) + 1
    <3>1. j \in 1..Len(s) /\ t[j] = s[j] BY <1>1, <2>3
    <3> QED BY <1>3, <2>1, <3>1 DEF Ascending
  <2> QED BY <2>2, <2>3
<1>4. ASSUME NEW i \in 1..Len(t) PROVE t[i] \in 1..n
  <2>1. CASE i = Len(s) + 1 BY <1>1, <2>1
  <2>2. CASE i # Len(s) + 1
    <3>1. i \in 1..Len(s) BY <1>1, <2>2
    <3> QED BY <1>1, <1>2, <3>1
  <2> QED BY <2>1, <2>2
<1>5. Ascending(t) BY <1>3 DEF Ascending
<1>6. Within(t, n) BY <1>4 DEF Within
<1> QED BY <1>1, <1>5, <1>6 DEF t

\* A part from the left keeps the order and the bounds.
LEMMA OneLess ==
  ASSUME NEW s \in Seq(Nat), NEW e \in Nat, NEW n \in Int, Ascending(Append(s, e)),
         Within(Append(s, e), n)
  PROVE  /\ Ascending(s) /\ Within(s, n) /\ Len(Append(s, e)) = Len(s) + 1
         /\ \A i \in 1..Len(s) : Append(s, e)[i] = s[i]
<1> DEFINE t == Append(s, e)
<1>1. Len(s) \in Nat /\ Len(t) = Len(s) + 1 /\ \A i \in 1..Len(s) : t[i] = s[i]
  BY AppendProperties, LenProperties
<1>2. Ascending(t) /\ Within(t, n) OBVIOUS
<1> HIDE DEF t
<1>3. \A i \in 1..Len(s) : i \in 1..Len(t) BY <1>1
<1>4. Ascending(s) BY <1>1, <1>2, <1>3 DEF Ascending
<1>5. Within(s, n) BY <1>1, <1>2, <1>3 DEF Within
<1> QED BY <1>1, <1>4, <1>5 DEF t

\* What is shown with the later events of another sequence at its end.
LEMMA ShownMore ==
  ASSUME NEW s \in Seq(Nat), NEW t \in Seq(Nat), NEW k \in Nat, NEW n \in Nat,
         Ascending(s), Ascending(t), Within(s, n), Within(t, n),
         \A i \in 1..Len(t) : i > k => Within(s, t[i] - 1)
  PROVE  LET u == s \o SubSeq(t, k + 1, Len(t))
         IN  /\ u \in Seq(Nat) /\ Ascending(u) /\ Within(u, n) /\ IsPrefix(s, u)
             /\ Len(u) = Len(s) + (IF k < Len(t) THEN Len(t) - k ELSE 0)
<1> DEFINE v == SubSeq(t, k + 1, Len(t))
           u == s \o v
<1>1. Len(s) \in Nat /\ Len(t) \in Nat BY LenProperties
<1>2. \A i \in (k + 1) .. Len(t) : t[i] \in Nat BY <1>1, ElementOfSeq
<1>3. /\ v \in Seq(Nat) /\ Len(v) = (IF k < Len(t) THEN Len(t) - k ELSE 0)
      /\ \A i \in 1..Len(v) : v[i] = t[k + i] /\ k + i \in 1..Len(t) /\ k + i > k
  <2>1. /\ v \in Seq(Nat) /\ Len(v) = IF k + 1 <= Len(t) THEN Len(t) - (k + 1) + 1 ELSE 0
        /\ \A i \in 1 .. Len(t) - (k + 1) + 1 : v[i] = t[k + 1 + i - 1]
    BY <1>1, <1>2, SubSeqProperties
  <2> HIDE DEF v
  <2>2. Len(v) = (IF k < Len(t) THEN Len(t) - k ELSE 0) BY <1>1, <2>1
  <2>3. ASSUME NEW i \in 1..Len(v)
        PROVE  v[i] = t[k + i] /\ k + i \in 1..Len(t) /\ k + i > k
    <3>1. i \in 1 .. Len(t) - (k + 1) + 1 /\ k + 1 + i - 1 = k + i BY <1>1, <2>2, <2>3
    <3>2. v[i] = t[k + i] BY <2>1, <3>1
    <3> QED BY <1>1, <2>2, <3>2
  <2> QED BY <2>1, <2>2, <2>3
<1> HIDE DEF v
<1>4. /\ u \in Seq(Nat) /\ Len(u) = Len(s) + Len(v) /\ Len(v) \in Nat
      /\ \A i \in 1..(Len(s) + Len(v)) : u[i] = IF i <= Len(s) THEN s[i] ELSE v[i - Len(s)]
  BY <1>3, ConcatProperties, LenProperties
<1> HIDE DEF u
<1>5. \A i \in 1..Len(s) : i \in 1..Len(u) /\ u[i] = s[i] BY <1>1, <1>4
<1>6. ASSUME NEW i \in 1..Len(u), i > Len(s)
      PROVE  \E j \in 1..Len(t) : j = k + (i - Len(s)) /\ j > k /\ u[i] = t[j]
  <2>1. i - Len(s) \in 1..Len(v) /\ u[i] = v[i - Len(s)] BY <1>1, <1>4, <1>6
  <2> QED BY <1>3, <2>1
<1>7. ASSUME NEW i \in 1..Len(u) PROVE u[i] \in 1..n
  <2>1. CASE i <= Len(s)
    <3>1. i \in 1..Len(s) BY <1>1, <1>4, <2>1
    <3> QED BY <1>5, <3>1 DEF Within
  <2>2. CASE ~(i <= Len(s))
    <3>1. i > Len(s) BY <1>1, <1>4, <2>2
    <3> QED BY <1>6, <3>1 DEF Within
  <2> QED BY <2>1, <2>2
<1>8. ASSUME NEW i \in 1..Len(u), NEW j \in 1..Len(u), i < j PROVE u[i] < u[j]
  <2>1. CASE j <= Len(s)
    <3>1. i \in 1..Len(s) /\ j \in 1..Len(s) BY <1>1, <1>4, <1>8, <2>1
    <3> QED BY <1>5, <1>8, <3>1 DEF Ascending
  <2>2. CASE ~(j <= Len(s)) /\ i <= Len(s)
    <3>1. i \in 1..Len(s) /\ j > Len(s) BY <1>1, <1>4, <2>2
    <3>2. PICK b \in 1..Len(t) : b > k /\ u[j] = t[b] BY <1>6, <3>1
    <3>3. Within(s, t[b] - 1) BY <3>2
    <3>4. u[i] = s[i] /\ s[i] \in 1..(t[b] - 1) BY <1>5, <3>1, <3>3 DEF Within
    <3>5. t[b] \in Nat BY ElementOfSeq
    <3> QED BY <3>2, <3>4, <3>5
  <2>3. CASE ~(j <= Len(s)) /\ ~(i <= Len(s))
    <3>1. i > Len(s) /\ j > Len(s) BY <1>1, <1>4, <2>3
    <3>2. PICK a \in 1..Len(t) : a = k + (i - Len(s)) /\ u[i] = t[a] BY <1>6, <3>1
    <3>3. PICK b \in 1..Len(t) : b = k + (j - Len(s)) /\ u[j] = t[b] BY <1>6, <3>1
    <3>4. a < b BY <1>1, <1>4, <1>8, <3>2, <3>3
    <3> QED BY <3>2, <3>3, <3>4 DEF Ascending
  <2> QED BY <2>1, <2>2, <2>3
<1>9. IsPrefix(s, u)
  <2>1. \A i \in 1..Len(s) : s[i] \in Nat /\ u[i] \in Nat BY <1>5, ElementOfSeq
  <2>2. /\ SubSeq(s, 1, Len(s)) \in Seq(Nat) /\ SubSeq(u, 1, Len(s)) \in Seq(Nat)
        /\ Len(SubSeq(s, 1, Len(s))) = Len(s) /\ Len(SubSeq(u, 1, Len(s))) = Len(s)
        /\ \A i \in 1..Len(s) : SubSeq(s, 1, Len(s))[i] = s[i] /\ SubSeq(u, 1, Len(s))[i] = u[i]
    <3>1. /\ SubSeq(s, 1, Len(s)) \in Seq(Nat)
          /\ Len(SubSeq(s, 1, Len(s))) = IF 1 <= Len(s) THEN Len(s) - 1 + 1 ELSE 0
          /\ \A i \in 1 .. Len(s) - 1 + 1 : SubSeq(s, 1, Len(s))[i] = s[1 + i - 1]
      BY <1>1, <2>1, SubSeqProperties
    <3>2. /\ SubSeq(u, 1, Len(s)) \in Seq(Nat)
          /\ Len(SubSeq(u, 1, Len(s))) = IF 1 <= Len(s) THEN Len(s) - 1 + 1 ELSE 0
          /\ \A i \in 1 .. Len(s) - 1 + 1 : SubSeq(u, 1, Len(s))[i] = u[1 + i - 1]
      BY <1>1, <2>1, SubSeqProperties
    <3>3. Len(s) - 1 + 1 = Len(s) /\ \A i \in 1..Len(s) : 1 + i - 1 = i BY <1>1
    <3>4. (IF 1 <= Len(s) THEN Len(s) - 1 + 1 ELSE 0) = Len(s) BY <1>1
    <3> QED BY <3>1, <3>2, <3>3, <3>4
  <2>3. \A i \in 1..Len(s) : SubSeq(s, 1, Len(s))[i] = SubSeq(u, 1, Len(s))[i] BY <1>5, <2>2
  <2>4. SubSeq(s, 1, Len(s)) = SubSeq(u, 1, Len(s)) BY <2>2, <2>3, SeqEqual
  <2> QED BY <1>1, <1>4, <2>4 DEF IsPrefix
<1>10. Ascending(u) /\ Within(u, n) BY <1>7, <1>8 DEF Ascending, Within
<1> QED BY <1>3, <1>4, <1>9, <1>10 DEF u, v

(***************************************************************************)
(* What the steps do to the channel.                                       *)
(***************************************************************************)

\* Nothing of the narration changes.
Quiet ==
  /\ UNCHANGED <<platform, log, emitted, shown>> /\ child'.event = child.event
  /\ sup'.watching = sup.watching /\ past'.failures = past.failures
  /\ child'.pc = child.pc \/ {child.pc, child'.pc} \cap Appending = {}

\* An append is given up, by the process or with it.
GivenUp ==
  /\ UNCHANGED <<platform, log, emitted, shown>> /\ child'.event = child.event
  /\ sup'.watching = sup.watching /\ past'.failures = past.failures + 1
  /\ child.pc \in Appending /\ child'.pc \notin Appending

\* The next event is about to be appended.
Begun ==
  /\ UNCHANGED <<platform, log, emitted, shown>> /\ child'.event = child.event + 1
  /\ sup'.watching = sup.watching /\ past'.failures = past.failures
  /\ child.pc \notin Appending /\ child'.pc = "narrate"

\* The log is read, possibly for the last time.
Read ==
  /\ Drain /\ UNCHANGED <<platform, log>> /\ child' = child
  /\ past'.failures = past.failures

\* Every step of the process that does not touch the log is one of these.
LEMMA ChildShapes ==
  ASSUME SInv, ChildStep, ~OpenLine, ~FillLine, ~CloseLine
  PROVE  Quiet \/ GivenUp \/ Begun
<1>1. child \in Children /\ past \in Pasts BY DEF SInv, ProcessesOk
<1> USE DEF Appending
<1>2. CASE Boot BY <1>1, <1>2 DEF Boot, Exited, Quiet, Children
<1>3. CASE Checkpoint
  BY <1>1, <1>3 DEF Checkpoint, StopNoticed, Stopped, Exited, Quiet, Children
<1>4. CASE Refresh BY <1>1, <1>4 DEF Refresh, Exited, Quiet, Children
<1>5. CASE EditRuntime BY <1>1, <1>5 DEF EditRuntime, Quiet, Children
<1>6. CASE Decide BY <1>1, <1>6 DEF Decide, Begun, Children, Pasts
<1>7. CASE AppendFails
  BY <1>1, <1>7 DEF AppendFails, AfterEvent, AfterStart, AfterEnd, Exited, GivenUp, Children, Pasts
<1>8. CASE AgentReturns
  BY <1>1, <1>8 DEF AgentReturns, StopNoticed, Stopped, Exited, Quiet, Children
<1>9. CASE GatesReturn
  BY <1>1, <1>9 DEF GatesReturn, StopNoticed, Stopped, Exited, Quiet, Children
<1>10. CASE StepReturns BY <1>1, <1>10 DEF StepReturns, Begun, Children, Pasts
<1>11. CASE RunThrows BY <1>1, <1>11 DEF RunThrows, Exited, Quiet, Children
<1>12. CASE EndRun BY <1>1, <1>12 DEF EndRun, EndCode, StopNoticed, Stopped, Exited, Quiet, Children
<1> QED BY <1>2, <1>3, <1>4, <1>5, <1>6, <1>7, <1>8, <1>9, <1>10, <1>11, <1>12 DEF ChildStep

\* So is every step of the supervisor but the start of a run.
LEMMA SupervisorShapes ==
  ASSUME SInv, Tick \/ PressEsc \/ PressCtrlC \/ ChildCloses
  PROVE  \/ Quiet \/ GivenUp
         \/ Read /\ (sup'.watching = sup.watching \/ ~sup'.watching)
<1>1. child \in Children /\ past \in Pasts /\ sup \in Supervisors BY DEF SInv, ProcessesOk
<1> USE DEF Appending
<1>2. CASE Tick BY <1>2 DEF Tick, Read
<1>3. CASE ChildCloses BY <1>1, <1>3 DEF ChildCloses, Read, Supervisors
<1>4. ASSUME Terminate PROVE Quiet \/ GivenUp
  <2>1. sup'.watching = sup.watching BY <1>1, <1>4 DEF Terminate, Supervisors
  <2>2. CASE Reached(child) /\ child.pc \in Appending
    BY <1>1, <1>4, <2>1, <2>2 DEF Terminate, GivenUp, Children, Pasts
  <2>3. CASE Reached(child) /\ child.pc \notin Appending
    BY <1>1, <1>4, <2>1, <2>3 DEF Terminate, Quiet, Children, Pasts
  <2>4. CASE ~Reached(child) BY <1>4, <2>1, <2>4 DEF Terminate, Quiet
  <2> QED BY <2>2, <2>3, <2>4
<1>5. CASE PressEsc BY <1>1, <1>4, <1>5 DEF PressEsc, Quiet, Supervisors
<1>6. CASE PressCtrlC BY <1>1, <1>4, <1>6 DEF PressCtrlC, Quiet, Supervisors
<1> QED BY <1>2, <1>3, <1>5, <1>6

(***************************************************************************)
(* The narration's invariant is preserved.                                 *)
(***************************************************************************)

\* What its types say of the numbers the invariant counts.
LEMMA Numbers ==
  ASSUME SInv, ChannelOk
  PROVE  /\ Legible \in Seq(Nat) /\ Len(Legible) \in Nat /\ Len(shown) \in Nat /\ emitted \in Nat
         /\ child.event \in Nat /\ past.failures \in Nat /\ Told \in Int /\ Owed \in {0, 1, 2}
<1>1. child.event \in Nat /\ past.failures \in Nat
  BY DEF SInv, ProcessesOk, Children, Pasts
<1>2. Legible \in Seq(Nat) BY ReadType DEF ChannelOk, Legible
<1>3. Len(Legible) \in Nat /\ Len(shown) \in Nat /\ emitted \in Nat
  BY <1>2, LenProperties DEF ChannelOk
<1>4. Told \in Int BY <1>1, <1>3 DEF Told
<1>5. Owed \in {0, 1, 2} BY DEF Owed
<1> QED BY <1>1, <1>2, <1>3, <1>4, <1>5

\* As long as the channel is left alone.
LEMMA UntouchedNInv ==
  ASSUME NInv, SInv', Quiet \/ GivenUp \/ Begun \/ UNCHANGED vars
  PROVE  NInv'
<1>1. UNCHANGED <<platform, log, emitted, shown>> /\ sup'.watching = sup.watching
  BY DEF Quiet, GivenUp, Begun, vars
<1>2. ChannelOk' BY <1>1 DEF NInv, ChannelOk
<1>3. Legible' = Legible /\ Owed' = Owed BY <1>1 DEF Legible, Owed
<1>4. Drained' BY <1>1, <1>3 DEF NInv, Drained
<1>5. /\ Legible \in Seq(Nat) /\ Len(Legible) \in Nat /\ Len(shown) \in Nat /\ emitted \in Nat
      /\ child.event \in Nat /\ past.failures \in Nat /\ Told \in Int /\ Owed \in {0, 1, 2}
  BY Numbers DEF NInv
<1>6. shown \in Seq(Nat) BY DEF NInv, ChannelOk
<1>7. CASE Quiet \/ UNCHANGED vars
  <2>1. child'.event = child.event /\ past'.failures = past.failures
        /\ (child'.pc = child.pc \/ {child.pc, child'.pc} \cap Appending = {})
    BY <1>7 DEF Quiet, vars
  <2>2. Ordered' BY <1>1, <1>3, <2>1 DEF NInv, Ordered
  <2>3. Fresh' BY <1>1, <1>3, <2>1 DEF NInv, Fresh, Appending
  <2>4. Told' = Told BY <1>1, <1>3, <2>1 DEF Told
  <2>5. Accounted' BY <1>1, <1>3, <2>1, <2>4 DEF NInv, Accounted, Appending
  <2> QED BY <1>2, <1>4, <2>2, <2>3, <2>5 DEF NInv
<1>8. CASE GivenUp
  <2>1. /\ child'.event = child.event /\ past'.failures = past.failures + 1
        /\ child.pc \in Appending /\ child'.pc \notin Appending
    BY <1>8 DEF GivenUp
  <2>2. Ordered' BY <1>1, <1>3, <2>1 DEF NInv, Ordered
  <2>3. Fresh' BY <2>1 DEF Fresh, Appending
  <2>4. Told' = Told + 2 BY <1>1, <1>3, <1>5, <2>1 DEF Told
  <2>5. Told >= child.event - 2 + Owed
    <3>1. CASE child.pc = "narrate" BY <1>5, <3>1 DEF NInv, Accounted
    <3>2. CASE child.pc = "writing"
      <4>1. log # <<>> /\ Last(log).open BY <3>2 DEF NInv, Fresh
      <4>2. Told >= IF Last(log).text = "partial" THEN child.event - 1 ELSE child.event
        BY <3>2 DEF NInv, Accounted
      <4> QED BY <1>5, <4>1, <4>2 DEF Owed
    <3> QED BY <2>1, <3>1, <3>2 DEF Appending
  <2>6. Accounted' BY <1>3, <1>5, <2>1, <2>4, <2>5 DEF Accounted, Appending
  <2> QED BY <1>2, <1>4, <2>2, <2>3, <2>6 DEF NInv
<1>9. CASE Begun
  <2>1. /\ child'.event = child.event + 1 /\ past'.failures = past.failures
        /\ child.pc \notin Appending /\ child'.pc = "narrate"
    BY <1>9 DEF Begun
  <2>2. /\ Within(Legible, child.event) /\ Within(shown, child.event)
        /\ Ascending(Legible) /\ Ascending(shown)
        /\ \A i \in 1..Len(Legible) : i > emitted => Within(shown, Legible[i] - 1)
    BY DEF NInv, Ordered
  <2>3. child.event <= child.event + 1 /\ (child.event + 1) - 1 = child.event /\ child.event + 1 > 0
    BY <1>5
  <2>4. Within(Legible, child.event + 1) /\ Within(shown, child.event + 1)
    BY <1>5, <1>6, <2>2, <2>3, WithinMore
  <2>5. Ordered' BY <1>1, <1>3, <2>1, <2>2, <2>4 DEF Ordered
  <2>6. Fresh' BY <1>1, <1>3, <2>1, <2>2, <2>3 DEF Fresh
  <2>7. Told' = Told BY <1>1, <1>3, <2>1 DEF Told
  <2>8. Accounted' BY <1>3, <1>5, <2>1, <2>7 DEF NInv, Accounted, Appending
  <2> QED BY <1>2, <1>4, <2>5, <2>6, <2>8 DEF NInv
<1> QED BY <1>7, <1>8, <1>9

\* The log is opened for an event: a new line, or the spoiled one.
LEMMA OpenLineNInv == ASSUME NInv, SInv', OpenLine PROVE NInv'
<1>1. /\ child.pc = "narrate" /\ log' = Opened(log, child.event)
      /\ child' = [child EXCEPT !.pc = "writing"]
      /\ UNCHANGED <<platform, stopFile, sup, emitted, shown, past>>
  BY DEF OpenLine
<1>2. child'.pc = "writing" /\ child'.event = child.event
  BY <1>1 DEF NInv, SInv, ProcessesOk, Children
<1>3. /\ Legible \in Seq(Nat) /\ Len(Legible) \in Nat /\ Len(shown) \in Nat /\ emitted \in Nat
      /\ child.event \in Nat /\ past.failures \in Nat /\ Told \in Int
  BY Numbers DEF NInv
<1>4. /\ child.event > 0 /\ Within(Legible, child.event - 1) /\ Within(shown, child.event - 1)
      /\ Told >= child.event - 1 + Owed
  BY <1>1 DEF NInv, Fresh, Accounted
<1>5. /\ Within(Legible, child.event) /\ Within(shown, child.event)
      /\ Ascending(Legible) /\ Ascending(shown)
      /\ \A i \in 1..Len(Legible) : i > emitted => Within(shown, Legible[i] - 1)
      /\ log \in Seq(Lines) /\ platform \in Platforms /\ shown \in Seq(Nat)
  BY DEF NInv, Ordered, ChannelOk
<1>6. Drained'
  <2>1. sup.watching BY <1>1 DEF NInv, SInv, Watched, Gone
  <2> QED BY <1>1, <2>1 DEF Drained
<1>7. CASE log # <<>> /\ log[Len(log)].open
  <2> DEFINE l == [Last(log) EXCEPT !.text = "spoiled"]
             front == readRunEvents(Front(log))
  <2>1. Last(log) \in Lines BY <1>5, <1>7, LastAndFront
  <2>2. l \in Lines /\ l.text = "spoiled" /\ l.open /\ Last(log).open
    BY <1>7, <2>1 DEF Lines, Last
  <2>3. log' = [log EXCEPT ![Len(log)] = l]
    BY <1>1, <1>7 DEF Opened, Last
  <2> HIDE DEF l
  <2>4. /\ front \in Seq(Nat) /\ Last(log).event \in Nat
        /\ Legible = IF Last(log).text = "whole" THEN Append(front, Last(log).event) ELSE front
        /\ Legible' = front /\ log' \in Seq(Lines) /\ log' # <<>> /\ Last(log') = l
    BY <1>5, <1>7, <2>2, <2>3, ReadRewritten DEF Legible
  <2> HIDE DEF front
  <2>5. Last(log)' = l BY <2>4 DEF Last
  <2>6. /\ Ascending(front) /\ Within(front, child.event)
        /\ \A i \in 1..Len(front) : i \in 1..Len(Legible) /\ Legible[i] = front[i]
        /\ Len(front) = IF Last(log).text = "whole" THEN Len(Legible) - 1 ELSE Len(Legible)
    <3>1. CASE Last(log).text = "whole"
      <4>1. Legible = Append(front, Last(log).event) BY <2>4, <3>1
      <4>2. /\ Ascending(front) /\ Within(front, child.event) /\ Len(Legible) = Len(front) + 1
            /\ \A i \in 1..Len(front) : Legible[i] = front[i]
        BY <1>3, <1>5, <2>4, <4>1, OneLess
      <4>3. Len(front) \in Nat BY <2>4, LenProperties
      <4> QED BY <3>1, <4>2, <4>3
    <3>2. CASE Last(log).text # "whole" BY <1>5, <2>4, <3>2
    <3> QED BY <3>1, <3>2
  <2>7. Ordered' BY <1>1, <1>2, <1>5, <2>4, <2>6 DEF Ordered
  <2>8. Fresh' BY <1>2, <2>2, <2>4, <2>5 DEF Fresh
  <2>9. Told' = (IF Last(log).text = "whole" THEN Told - 1 ELSE Told)
    BY <1>1, <1>3, <2>4, <2>6 DEF Told
  <2>10. Owed = IF Last(log).text = "whole" THEN 2 ELSE 1 BY <1>7, <2>2 DEF Owed
  <2>11. Told' >= child.event BY <1>3, <1>4, <2>9, <2>10
  <2>12. Accounted' BY <1>2, <2>2, <2>5, <2>11 DEF Accounted, Appending
  <2>13. ChannelOk' BY <1>1, <1>3, <1>5, <2>4 DEF ChannelOk
  <2> QED BY <1>6, <2>7, <2>8, <2>12, <2>13 DEF NInv
<1>8. CASE ~(log # <<>> /\ log[Len(log)].open)
  <2> DEFINE l == [event |-> child.event, text |-> "partial", open |-> TRUE]
  <2>1. l \in Lines /\ l.text = "partial" /\ l.open /\ l.event = child.event BY <1>3 DEF Lines
  <2>2. log' = Append(log, l) BY <1>1, <1>8 DEF Opened
  <2> HIDE DEF l
  <2>3. log' \in Seq(Lines) /\ log' # <<>> /\ Last(log') = l BY <1>5, <2>1, <2>2, LastOfAppend
  <2>4. Legible' = Legible BY <1>5, <2>1, <2>2, ReadAppend DEF Legible
  <2>5. Last(log)' = l BY <2>3 DEF Last
  <2>6. Ordered' BY <1>1, <1>2, <1>5, <2>4 DEF Ordered
  <2>7. Fresh' BY <1>1, <1>2, <1>4, <2>1, <2>3, <2>4, <2>5 DEF Fresh
  <2>8. Told' = Told BY <1>1, <2>4 DEF Told
  <2>9. Owed = 0 BY <1>8 DEF Owed, Last
  <2>10. Accounted' BY <1>2, <1>3, <1>4, <2>1, <2>5, <2>8, <2>9 DEF Accounted, Appending
  <2>11. ChannelOk' BY <1>1, <1>3, <1>5, <2>3 DEF ChannelOk
  <2> QED BY <1>6, <2>6, <2>7, <2>10, <2>11 DEF NInv
<1> QED BY <1>7, <1>8

\* The event can be read, and is later than all that was.
LEMMA FillLineNInv == ASSUME NInv, SInv', FillLine PROVE NInv'
<1>1. /\ child.pc = "writing" /\ log[Len(log)].text = "partial"
      /\ log' = [log EXCEPT ![Len(log)].text = "whole"]
      /\ UNCHANGED <<platform, stopFile, child, sup, emitted, shown, past>>
  BY DEF FillLine
<1>2. /\ Legible \in Seq(Nat) /\ Len(Legible) \in Nat /\ Len(shown) \in Nat /\ emitted \in Nat
      /\ child.event \in Nat /\ past.failures \in Nat /\ Told \in Int
  BY Numbers DEF NInv
<1>3. /\ child.event > 0 /\ Within(Legible, child.event - 1) /\ Within(shown, child.event - 1)
      /\ log # <<>> /\ Last(log).open /\ Last(log).event = child.event
      /\ Last(log).text = "partial" /\ Told >= child.event - 1
  BY <1>1 DEF NInv, Fresh, Accounted, Last
<1>4. /\ Within(shown, child.event) /\ Ascending(Legible) /\ Ascending(shown)
      /\ \A i \in 1..Len(Legible) : i > emitted => Within(shown, Legible[i] - 1)
      /\ log \in Seq(Lines) /\ platform \in Platforms /\ shown \in Seq(Nat)
  BY DEF NInv, Ordered, ChannelOk
<1>5. Drained'
  <2>1. sup.watching BY <1>1 DEF NInv, SInv, Watched, Gone
  <2> QED BY <1>1, <2>1 DEF Drained
<1> DEFINE l == [Last(log) EXCEPT !.text = "whole"]
           front == readRunEvents(Front(log))
<1>6. Last(log) \in Lines BY <1>3, <1>4, LastAndFront
<1>7. l \in Lines /\ l.text = "whole" /\ l.open /\ l.event = child.event
  BY <1>3, <1>6 DEF Lines
<1>8. log' = [log EXCEPT ![Len(log)] = l] BY <1>1 DEF Last
<1> HIDE DEF l
<1>9. /\ front \in Seq(Nat) /\ Legible = front /\ Legible' = Append(front, l.event)
      /\ log' \in Seq(Lines) /\ log' # <<>> /\ Last(log') = l
  BY <1>3, <1>4, <1>7, <1>8, ReadRewritten DEF Legible
<1>10. Last(log)' = l /\ Legible' = Append(Legible, child.event) BY <1>7, <1>9 DEF Last
<1> HIDE DEF front
<1>11. /\ Legible' \in Seq(Nat) /\ Len(Legible') = Len(Legible) + 1
       /\ Legible'[Len(Legible) + 1] = child.event
       /\ \A i \in 1..Len(Legible) : Legible'[i] = Legible[i]
       /\ Ascending(Legible') /\ Within(Legible', child.event)
  BY <1>2, <1>3, <1>4, <1>10, OneMore
<1>12. \A i \in 1..Len(Legible') : i > emitted => Within(shown, Legible'[i] - 1)
  <2>1. ASSUME NEW i \in 1..Len(Legible'), i > emitted PROVE Within(shown, Legible'[i] - 1)
    <3>1. CASE i = Len(Legible) + 1 BY <1>3, <1>11, <3>1
    <3>2. CASE i # Len(Legible) + 1
      <4>1. i \in 1..Len(Legible) BY <1>2, <1>11, <3>2
      <4> QED BY <1>4, <1>11, <2>1, <4>1
    <3> QED BY <3>1, <3>2
  <2> QED BY <2>1
<1>13. Ordered' BY <1>1, <1>4, <1>11, <1>12 DEF Ordered
<1>14. Fresh' BY <1>1, <1>7, <1>9, <1>10 DEF Fresh
<1>15. Told' = Told + 1 BY <1>1, <1>2, <1>11 DEF Told
<1>16. Accounted' BY <1>1, <1>2, <1>3, <1>7, <1>10, <1>15 DEF Accounted, Appending
<1>17. ChannelOk' BY <1>1, <1>2, <1>4, <1>9 DEF ChannelOk
<1> QED BY <1>5, <1>13, <1>14, <1>16, <1>17 DEF NInv

\* Closing the line changes nothing that can be read.
LEMMA CloseLineNInv == ASSUME NInv, SInv', CloseLine PROVE NInv'
<1>1. /\ child.pc = "writing" /\ log[Len(log)].text # "partial"
      /\ log' = [log EXCEPT ![Len(log)].open = FALSE] /\ child' = AfterEvent(child)
      /\ UNCHANGED <<platform, stopFile, sup, emitted, shown, past>>
  BY DEF CloseLine
<1>2. child'.event = child.event /\ child'.pc \notin Appending
  BY <1>1 DEF NInv, SInv, ProcessesOk, Children, AfterEvent, AfterStart, AfterEnd, Exited, Appending
<1>3. /\ Legible \in Seq(Nat) /\ Len(Legible) \in Nat /\ Len(shown) \in Nat /\ emitted \in Nat
      /\ child.event \in Nat /\ past.failures \in Nat /\ Told \in Int
  BY Numbers DEF NInv
<1>4. log # <<>> /\ Last(log).open /\ Last(log).text # "partial" /\ Told >= child.event
  BY <1>1 DEF NInv, Fresh, Accounted, Last
<1>5. /\ log \in Seq(Lines) /\ platform \in Platforms /\ shown \in Seq(Nat)
  BY DEF NInv, ChannelOk
<1>6. Drained'
  <2>1. sup.watching BY <1>1 DEF NInv, SInv, Watched, Gone
  <2> QED BY <1>1, <2>1 DEF Drained
<1> DEFINE l == [Last(log) EXCEPT !.open = FALSE]
<1>7. Last(log) \in Lines BY <1>4, <1>5, LastAndFront
<1>8. /\ l \in Lines /\ l.text = Last(log).text /\ ~l.open /\ l.event = Last(log).event
  BY <1>7 DEF Lines
<1>9. log' = [log EXCEPT ![Len(log)] = l] BY <1>1 DEF Last
<1> HIDE DEF l
<1>10. /\ Legible' = Legible /\ log' \in Seq(Lines) /\ log' # <<>> /\ Last(log') = l
  <2> DEFINE front == readRunEvents(Front(log))
  <2>1. /\ Legible = IF Last(log).text = "whole" THEN Append(front, Last(log).event) ELSE front
        /\ Legible' = IF l.text = "whole" THEN Append(front, l.event) ELSE front
        /\ log' \in Seq(Lines) /\ log' # <<>> /\ Last(log') = l
    BY <1>4, <1>5, <1>8, <1>9, ReadRewritten DEF Legible
  <2> HIDE DEF front
  <2> QED BY <1>8, <2>1
<1>11. Last(log)' = l BY <1>10 DEF Last
<1>12. Ordered' BY <1>1, <1>2, <1>10 DEF NInv, Ordered
<1>13. Fresh' BY <1>2 DEF Fresh, Appending
<1>14. Told' = Told BY <1>1, <1>10 DEF Told
<1>15. Owed' = 0 BY <1>8, <1>11 DEF Owed
<1>16. Accounted' BY <1>2, <1>3, <1>4, <1>14, <1>15 DEF Accounted, Appending
<1>17. ChannelOk' BY <1>1, <1>3, <1>5, <1>10 DEF ChannelOk
<1> QED BY <1>6, <1>12, <1>13, <1>16, <1>17 DEF NInv

\* Reading shows what is later than all that was shown.
LEMMA ReadShows ==
  ASSUME NInv, Read
  PROVE  /\ shown' \in Seq(Nat) /\ Ascending(shown') /\ Within(shown', child.event)
         /\ IsPrefix(shown, shown') /\ Legible' = Legible /\ emitted' = Len(Legible)
         /\ Len(shown') = Len(shown) + (IF emitted < Len(Legible) THEN Len(Legible) - emitted ELSE 0)
<1>1. /\ shown' = shown \o SubSeq(Legible, emitted + 1, Len(Legible))
      /\ emitted' = Len(Legible) /\ Legible' = Legible
  BY DEF Read, Drain, Unseen, Legible
<1>2. Legible \in Seq(Nat) /\ emitted \in Nat /\ child.event \in Nat /\ shown \in Seq(Nat)
  BY Numbers DEF NInv, ChannelOk
<1>3. /\ Ascending(Legible) /\ Within(Legible, child.event)
      /\ Ascending(shown) /\ Within(shown, child.event)
      /\ \A i \in 1..Len(Legible) : i > emitted => Within(shown, Legible[i] - 1)
  BY DEF NInv, Ordered
<1> DEFINE u == shown \o SubSeq(Legible, emitted + 1, Len(Legible))
<1>4. /\ u \in Seq(Nat) /\ Ascending(u) /\ Within(u, child.event) /\ IsPrefix(shown, u)
      /\ Len(u) = Len(shown) + (IF emitted < Len(Legible) THEN Len(Legible) - emitted ELSE 0)
  <2> HIDE DEF Legible
  <2> QED BY <1>2, <1>3, ShownMore
<1> QED BY <1>1, <1>4

\* Reading, from the log's end or between two steps of an append, preserves the invariant.
LEMMA ReadNInv == ASSUME NInv, SInv', Read PROVE NInv'
<1>1. /\ shown' \in Seq(Nat) /\ Ascending(shown') /\ Within(shown', child.event)
      /\ Legible' = Legible /\ emitted' = Len(Legible)
      /\ Len(shown') = Len(shown) + (IF emitted < Len(Legible) THEN Len(Legible) - emitted ELSE 0)
  BY ReadShows
<1>2. UNCHANGED <<platform, log>> /\ child' = child /\ past'.failures = past.failures
  BY DEF Read
<1>3. /\ Legible \in Seq(Nat) /\ Len(Legible) \in Nat /\ Len(shown) \in Nat /\ emitted \in Nat
      /\ child.event \in Nat /\ past.failures \in Nat /\ Told \in Int /\ Owed \in {0, 1, 2}
  BY Numbers DEF NInv
<1>4. ChannelOk' BY <1>1, <1>2, <1>3 DEF NInv, ChannelOk
<1>5. \A i \in 1..Len(Legible) : ~(i > Len(Legible)) BY <1>3
<1>6. Ordered' BY <1>1, <1>2, <1>5 DEF NInv, Ordered
<1>7. Told' >= Told /\ Owed' = Owed
  <2>1. Told' = (Len(shown') + Len(Legible)) - Len(Legible) + 2 * past.failures BY <1>1, <1>2 DEF Told
  <2> QED BY <1>1, <1>2, <1>3, <2>1 DEF Told, Owed
<1>8. Told' \in Int BY <1>1, <1>2, <1>3 DEF Told
<1>9. Accounted' BY <1>2, <1>3, <1>7, <1>8 DEF NInv, Accounted, Appending
<1>10. Fresh'
  <2>1. child.pc = "narrate" \/ (child.pc = "writing" /\ Last(log).text = "partial") =>
          Within(shown', child.event - 1)
    <3>1. SUFFICES ASSUME child.pc = "narrate" \/ (child.pc = "writing" /\ Last(log).text = "partial")
                   PROVE  Within(shown', child.event - 1)
      OBVIOUS
    <3>2. Within(Legible, child.event - 1) /\ Within(shown, child.event - 1) /\ child.event > 0
      BY <3>1 DEF NInv, Fresh
    <3>3. child.event - 1 \in Nat BY <1>3, <3>2
    <3>4. /\ Ascending(Legible) /\ Ascending(shown) /\ shown \in Seq(Nat)
          /\ \A i \in 1..Len(Legible) : i > emitted => Within(shown, Legible[i] - 1)
      BY DEF NInv, Ordered, ChannelOk
    <3>5. shown' = shown \o SubSeq(Legible, emitted + 1, Len(Legible))
      BY DEF Read, Drain, Unseen, Legible
    <3> HIDE DEF Legible
    <3>6. Within(shown \o SubSeq(Legible, emitted + 1, Len(Legible)), child.event - 1)
      BY <1>3, <3>2, <3>3, <3>4, ShownMore
    <3> QED BY <3>5, <3>6
  <2> QED BY <1>1, <1>2, <2>1 DEF NInv, Fresh
<1>11. Drained' BY <1>1 DEF Drained
<1> QED BY <1>4, <1>6, <1>9, <1>10, <1>11 DEF NInv

\* A run starts with an empty channel.
LEMMA StartRunNInv == ASSUME NInv, SInv', StartRun PROVE NInv'
<1>1. /\ log' = <<>> /\ emitted' = 0 /\ shown' = <<>> /\ past' = NewPast /\ platform' = platform
      /\ sup'.watching /\ child'.event = 0 /\ child'.pc \notin Appending
  BY DEF StartRun, NewChild, Appending
<1>2. Legible' = <<>> BY <1>1, ReadEmpty DEF Legible
<1>3. ChannelOk' BY <1>1 DEF NInv, ChannelOk
<1>4. Ordered' BY <1>1, <1>2 DEF Ordered, Ascending, Within
<1>5. Fresh' BY <1>1 DEF Fresh, Appending
<1>6. Owed' = 0 BY <1>1 DEF Owed
<1>7. Told' = 0 BY <1>1, <1>2 DEF Told, NewPast
<1>8. Accounted' BY <1>1, <1>6, <1>7 DEF Accounted, Appending
<1>9. Drained' BY <1>1 DEF Drained
<1> QED BY <1>3, <1>4, <1>5, <1>8, <1>9 DEF NInv

\* It holds before the first run.
LEMMA InitNInv == ASSUME Init PROVE NInv
<1>1. SInv BY InitSInv
<1>2. /\ log = <<>> /\ emitted = 0 /\ shown = <<>> /\ past.failures = 0 /\ platform \in Platforms
      /\ child.event = 0 /\ child.pc \notin Appending
  BY DEF Init, NewChild, NewPast, Appending
<1>3. Legible = <<>> BY <1>2, ReadEmpty DEF Legible
<1>4. ChannelOk BY <1>2 DEF ChannelOk
<1>5. Ordered BY <1>2, <1>3 DEF Ordered, Ascending, Within
<1>6. Fresh BY <1>2 DEF Fresh, Appending
<1>7. Owed = 0 BY <1>2 DEF Owed
<1>8. Told = 0 BY <1>2, <1>3 DEF Told
<1>9. Accounted BY <1>2, <1>7, <1>8 DEF Accounted, Appending
<1>10. Drained BY <1>2, <1>3 DEF Drained
<1> QED BY <1>1, <1>4, <1>5, <1>6, <1>9, <1>10 DEF NInv

\* The invariant holds in every state of every session.
LEMMA Narration == Spec => []NInv
<1>1. NInv /\ SInv' /\ [Next]_vars => NInv'
  <2> SUFFICES ASSUME NInv, SInv', [Next]_vars PROVE NInv' OBVIOUS
  <2>1. SInv BY DEF NInv
  <2>2. CASE OpenLine BY <2>2, OpenLineNInv
  <2>3. CASE FillLine BY <2>3, FillLineNInv
  <2>4. CASE CloseLine BY <2>4, CloseLineNInv
  <2>5. CASE ChildStep /\ ~OpenLine /\ ~FillLine /\ ~CloseLine
    BY <2>1, <2>5, ChildShapes, UntouchedNInv
  <2>6. CASE Tick \/ PressEsc \/ PressCtrlC \/ ChildCloses
    BY <2>1, <2>6, SupervisorShapes, UntouchedNInv, ReadNInv
  <2>7. CASE StartRun BY <2>7, StartRunNInv
  <2>8. CASE UNCHANGED vars BY <2>8, UntouchedNInv
  <2> QED BY <2>2, <2>3, <2>4, <2>5, <2>6, <2>7, <2>8 DEF Next
<1> QED BY InitNInv, Invariance, <1>1, PTL DEF Spec

\* What the processes and the channel hold is of its kind, and a run restarts at most three times.
THEOREM SupervisionTypes == Spec => []TypeOk
<1>1. NInv => TypeOk BY DEF NInv, SInv, ChannelOk, TypeOk
<1> QED BY <1>1, Narration, PTL

\* Nothing of a run's narration is lost but what failing appends cost, two events each at most.
THEOREM NarrationIsAccountedFor == Spec => []NarrationArrives
<1>1. NInv => NarrationArrives
  <2> SUFFICES ASSUME NInv, Returned PROVE Len(shown) >= child.event - 2 * past.failures
    BY DEF NarrationArrives
  <2>1. /\ Len(Legible) \in Nat /\ Len(shown) \in Nat /\ emitted \in Nat
        /\ child.event \in Nat /\ past.failures \in Nat /\ Told \in Int /\ Owed \in {0, 1, 2}
    BY Numbers DEF NInv
  <2>2. child.pc \notin Appending BY DEF NInv, SInv, Watched, Returned, Gone, Appending
  <2>3. Told >= child.event + Owed /\ emitted = Len(Legible)
    BY <2>2 DEF NInv, Accounted, Drained, Returned
  <2> QED BY <2>1, <2>3 DEF Told
<1> QED BY <1>1, Narration, PTL

\* The supervised run implements the feed its watcher is promised.
THEOREM FeedIsImplemented == Spec => ImplementsFeed
<1>1. Init => Feed!Init BY DEF Init, NewChild, Feed!Init
<1>2. NInv /\ [Next]_vars => [Feed!Next]_(Feed!vars)
  <2> SUFFICES ASSUME NInv, [Next]_vars PROVE [Feed!Next]_(Feed!vars) OBVIOUS
  <2>1. SInv /\ child \in Children BY DEF NInv, SInv, ProcessesOk
  <2>2. CASE Quiet \/ GivenUp \/ UNCHANGED vars
    BY <2>2 DEF Quiet, GivenUp, vars, Feed!vars
  <2>3. CASE OpenLine \/ FillLine \/ CloseLine
    BY <2>1, <2>3 DEF OpenLine, FillLine, CloseLine, Children, AfterEvent, AfterStart, AfterEnd,
       Exited, Feed!vars
  <2>4. CASE Begun BY <2>4 DEF Begun, Feed!Next, Feed!Emit
  <2>5. CASE Read
    <3>1. Ascending(shown') /\ Within(shown', child.event) /\ IsPrefix(shown, shown')
      BY <2>5, ReadShows
    <3>2. child'.event = child.event BY <2>5 DEF Read
    <3>3. \A i \in 1..Len(shown') :
            /\ shown'[i] \in 1..child.event
            /\ \A j \in 1..(i - 1) : shown'[j] < shown'[i]
      <4>1. Len(shown') \in Nat BY <2>5, ReadShows, LenProperties
      <4>2. \A i \in 1..Len(shown') : \A j \in 1..(i - 1) : j \in 1..Len(shown') /\ j < i BY <4>1
      <4> QED BY <3>1, <4>2 DEF Ascending, Within
    <3>4. Feed!Hear BY <3>1, <3>2, <3>3 DEF Feed!Hear, IsPrefix, Feed!IsPrefix
    <3> QED BY <3>4 DEF Feed!Next
  <2>6. CASE StartRun BY <2>6 DEF StartRun, NewChild, Feed!Next, Feed!NewRun
  <2>7. CASE ChildStep BY <2>1, <2>2, <2>3, <2>4, <2>7, ChildShapes
  <2>8. CASE Tick \/ PressEsc \/ PressCtrlC \/ ChildCloses
    BY <2>1, <2>2, <2>5, <2>8, SupervisorShapes
  <2> QED BY <2>2, <2>6, <2>7, <2>8 DEF Next
<1> QED BY <1>1, <1>2, Narration, PTL DEF Spec, ImplementsFeed, Feed!Spec
=============================================================================
