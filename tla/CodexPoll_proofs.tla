--------------------------- MODULE CodexPoll_proofs ---------------------------
(***************************************************************************)
(* Proofs about CodexPoll, for any logs, kinds of entries and bounds: what  *)
(* a sequence of polls has read of a log is what one reading of it gives.   *)
(***************************************************************************)
EXTENDS CodexPoll, TLAPS, FiniteSetTheorems, NaturalsInduction, WellFoundedInduction

-----------------------------------------------------------------------------
(* What reading a log gives. *)

(* Lines of log l up to the k-th of some kinds, but for the lost ones; and  *)
(* those after the first anchor.                                           *)
Seen(l, k, lost, kinds) == {i \in 1..k : i \notin lost /\ logs[l][i] \in kinds}
TurnOf(l, k, lost, kinds) ==
  {i \in Seen(l, k, lost, kinds) : \E a \in Seen(l, k, lost, {"anchor"}) : a < i}

IsLast(x, l, T) ==
  IF T = {} THEN x = NoText ELSE \E i \in T : x = <<l, i>> /\ \A j \in T : j <= i

(* A reading of k lines, but for the lost ones, that met no end of a turn. *)
ScanOk(l, k, lost, anchor, final, said) ==
  /\ anchor <=> Seen(l, k, lost, {"anchor"}) # {}
  /\ TurnOf(l, k, lost, Terminals) = {}
  /\ IsLast(final, l, TurnOf(l, k, lost, {"final"}))
  /\ IsLast(said, l, TurnOf(l, k, lost, {"said", "final"}))

(* What is read of a log that is read straight, and not again from its     *)
(* start with the anchor seen.                                             *)
Reading(straight, l, k, lost, anchor, final, said) ==
  straight => ScanOk(l, k, lost, anchor, final, said)

(* The number of lines that begin before an offset. *)
Begun(offset) == (offset + 1) \div 2

-----------------------------------------------------------------------------
(* Trackers, and the items of a poll. *)

Decisions == [terminal : BOOLEAN, status : Statuses, reply : Texts]
Detectors ==
  [family : {"protocol_turn"}, started : BOOLEAN, tool : BOOLEAN,
   hash : Seq(Texts), since : {NoTime}, decision : Decisions]
Trackers == [detector : Detectors, candidates : [Priorities -> Texts], started : Nat]

Quiet(t) == ~t.detector.started /\ \A p \in Priorities : t.candidates[p] = NoText

TrackerOk(t, said) ==
  /\ t \in Trackers /\ ~t.detector.decision.terminal
  /\ said = NoText => Quiet(t)

Items ==
  [kind : ItemKinds, text : Texts, done : {FALSE}, status : {"none", "cancelled", "failed"}]

(* Items that end nothing.  One of them carries a text only if something    *)
(* was said since the session was last changed.                            *)
Mild(i, said) ==
  \/ i.kind \in {"rotate", "anchor_seen"} /\ i.text = NoText
  \/ i.kind = "chunk" /\ said # NoText
AllMild(items, said) ==
  items \in Seq(Items) /\ \A n \in 1..Len(items) : Mild(items[n], said)

-----------------------------------------------------------------------------
(* The invariant. *)

LogsInv ==
  /\ logs \in [Logs -> Seq(EntryKinds \cup {"meta"})]
  /\ half \subseteq Logs /\ \A l \in half : logs[l] # <<>>
  /\ current \in Logs
  /\ IsFiniteSet(Entries) /\ Cardinality(Entries) <= MaxEntries

Submissions ==
  [log : Logs \cup {NoLog}, offset : Nat, anchor : BOOLEAN, accepted : BOOLEAN,
   fallback : Logs \cup {NoLog}, final : Texts, said : Texts]

SubInv ==
  /\ sub.log \in Logs /\ sub.offset \in 0..Length(sub.log)
  /\ \E lost \in SUBSET (1..Begun(sub.offset)) :
       /\ \A i \in lost : <<sub.log, i>> \in torn
       /\ Reading(~astray, sub.log, Begun(sub.offset), lost, sub.anchor, sub.final, sub.said)

RunningInv ==
  /\ SubInv
  /\ AllMild(pending, sub.said) /\ AllMild(replay, sub.said)
  /\ tracker # NoTime => TrackerOk(tracker, sub.said)
  /\ anchored => sub.accepted

IInv ==
  /\ LogsInv /\ sub \in Submissions /\ anchored \in BOOLEAN /\ astray \in BOOLEAN
  /\ TypeOK /\ DeliveredStaysDelivered /\ AnswerMatchesLog
  /\ job = Running => RunningInv

-----------------------------------------------------------------------------
(* Numbers. *)

(* A set of naturals that is not empty has a least element. *)
LEMMA LeastNatural ==
  ASSUME NEW T \in SUBSET Nat, T # {}
  PROVE  \E x \in T : \A y \in T : x <= y
<1> DEFINE R == OpToRel(<, Nat)
<1>1. PICK x \in T : \A y \in T : ~(<<y, x>> \in R)
  <2>1. IsWellFoundedOn(R, Nat)
    BY NatLessThanWellFounded
  <2> HIDE DEF R
  <2> QED BY <2>1, WFMin
<1>2. ASSUME NEW y \in T PROVE x <= y
  <2>1. <<y, x>> \notin R BY <1>1
  <2>2. ~(y < x) BY <2>1 DEF OpToRel
  <2> QED BY <2>2
<1> QED BY <1>2

(* A set of numbers below a bound has a greatest element. *)
LEMMA GreatestNatural ==
  ASSUME NEW k \in Nat, NEW T \in SUBSET (1..k), T # {}
  PROVE  \E x \in T : \A y \in T : y <= x
<1> DEFINE U == {n \in 0..k : k - n \in T}
<1>1. U \in SUBSET Nat OBVIOUS
<1>2. U # {}
  <2>1. PICK x \in T : TRUE OBVIOUS
  <2>2. k - x \in U OBVIOUS
  <2> QED BY <2>2
<1>3. \A y \in T : k - y \in U OBVIOUS
<1>4. \A n \in U : n \in 0..k /\ k - n \in T OBVIOUS
<1> HIDE DEF U
<1>5. PICK m \in U : \A n \in U : m <= n BY <1>1, <1>2, LeastNatural
<1>6. k - m \in T /\ \A y \in T : y <= k - m BY <1>3, <1>4, <1>5
<1> QED BY <1>6

LEMMA MinIs ==
  ASSUME NEW T \in SUBSET Nat, NEW x \in T, \A y \in T : x <= y
  PROVE  Min(T) = x
<1>1. \A z \in T : (\A y \in T : z <= y) => z = x OBVIOUS
<1> QED BY <1>1 DEF Min

LEMMA MaxIs ==
  ASSUME NEW T \in SUBSET Nat, NEW x \in T, \A y \in T : y <= x
  PROVE  Max(T) = x
<1>1. \A z \in T : (\A y \in T : z >= y) => z = x OBVIOUS
<1> QED BY <1>1 DEF Max

-----------------------------------------------------------------------------
(* The two loops: over the lines of a log and over the items of a poll. *)

LoopStep(reading, x, e) == IF reading THEN HandleEntry(x, e) ELSE IngestItem(x, e, 0)
IsLoop(f, reading, x, seq, k) ==
  f = [n \in 0..k |-> IF n = 0 THEN x ELSE LoopStep(reading, f[n - 1], seq[n])]

(* There is such a function, for every number of rounds. *)
LEMMA LoopExists ==
  ASSUME NEW r, NEW t, NEW seq, NEW K \in Nat
  PROVE  \E f : IsLoop(f, r, t, seq, K)
<1> DEFINE T == {k \in Nat : ~\E f : IsLoop(f, r, t, seq, k)}
<1>1. SUFFICES ASSUME T # {} PROVE FALSE OBVIOUS
<1>2. T \in SUBSET Nat OBVIOUS
<1> HIDE DEF T
<1>3. PICK x \in T : \A y \in T : x <= y BY <1>1, <1>2, LeastNatural
<1>4. x \in Nat BY <1>2
<1>5. CASE x = 0
  <2> DEFINE f == [n \in 0..0 |-> t]
  <2>1. f = [n \in 0..0 |-> IF n = 0 THEN t ELSE LoopStep(r, f[n - 1], seq[n])] OBVIOUS
  <2> HIDE DEF f
  <2>2. IsLoop(f, r, t, seq, 0) BY <2>1 DEF IsLoop
  <2> QED BY <1>5, <2>2 DEF T
<1>6. CASE x # 0
  <2>1. x - 1 \in Nat /\ x - 1 \notin T BY <1>3, <1>4, <1>6
  <2>2. PICK f : IsLoop(f, r, t, seq, x - 1) BY <2>1 DEF T
  <2> DEFINE g == [n \in 0..x |-> IF n = x THEN LoopStep(r, f[x - 1], seq[x]) ELSE f[n]]
  <2>3. /\ f = [n \in 0..(x - 1) |-> IF n = 0 THEN t ELSE LoopStep(r, f[n - 1], seq[n])]
        /\ g = [n \in 0..x |-> g[n]]
    BY <2>2 DEF IsLoop
  <2>4. ASSUME NEW n \in 0..x
        PROVE  g[n] = IF n = 0 THEN t ELSE LoopStep(r, g[n - 1], seq[n])
    <3>1. CASE n = 0
      BY <1>4, <1>6, <2>3, <3>1
    <3>2. CASE n # 0 /\ n # x
      <4>1. n \in 0..(x - 1) /\ n - 1 \in 0..x /\ n - 1 # x BY <1>4, <3>2
      <4>2. g[n] = f[n] /\ g[n - 1] = f[n - 1] BY <3>2, <4>1
      <4>3. f[n] = LoopStep(r, f[n - 1], seq[n]) BY <2>3, <3>2, <4>1
      <4> QED BY <3>2, <4>2, <4>3
    <3>3. CASE n = x
      <4>1. n - 1 \in 0..x /\ n - 1 # x BY <1>4, <1>6, <3>3
      <4>2. g[n] = LoopStep(r, f[n - 1], seq[n]) /\ g[n - 1] = f[n - 1] BY <3>3, <4>1
      <4> QED BY <1>6, <3>3, <4>2
    <3> QED BY <3>1, <3>2, <3>3
  <2>5. g = [n \in 0..x |-> IF n = 0 THEN t ELSE LoopStep(r, g[n - 1], seq[n])]
    <3> HIDE DEF g
    <3> QED BY <2>3, <2>4
  <2> HIDE DEF g
  <2>6. IsLoop(g, r, t, seq, x) BY <2>5 DEF IsLoop
  <2> QED BY <2>6, <1>3 DEF T
<1> QED BY <1>5, <1>6

LEMMA IngestLoop ==
  ASSUME NEW t, NEW items, Len(items) \in Nat
  PROVE  LET f == IngestRounds(t, items, 0)
         IN  f[0] = t /\ \A n \in 1..Len(items) : f[n] = IngestItem(f[n - 1], items[n], 0)
<1> DEFINE K == Len(items)
           f == IngestRounds(t, items, 0)
<1>1. f = CHOOSE g : g = [n \in 0..K |-> IF n = 0 THEN t ELSE IngestItem(g[n - 1], items[n], 0)]
  BY DEF IngestRounds
<1> HIDE DEF f, K
<1>2. K \in Nat BY DEF K
<1>3. PICK g : IsLoop(g, FALSE, t, items, K) BY <1>2, LoopExists
<1>4. g = [n \in 0..K |-> IF n = 0 THEN t ELSE IngestItem(g[n - 1], items[n], 0)]
  BY <1>3 DEF IsLoop, LoopStep
<1>5. f = [n \in 0..K |-> IF n = 0 THEN t ELSE IngestItem(f[n - 1], items[n], 0)]
  BY <1>1, <1>4
<1>6. f[0] = t BY <1>2, <1>5
<1>7. \A n \in 1..K : f[n] = IngestItem(f[n - 1], items[n], 0) BY <1>2, <1>5
<1> QED BY <1>6, <1>7 DEF f, K

LEMMA ReadLoop ==
  ASSUME NEW p, NEW es, Len(es) \in Nat
  PROVE  LET f == ReadRounds(p, es)
         IN  f[0] = p /\ \A n \in 1..Len(es) : f[n] = HandleEntry(f[n - 1], es[n])
<1> DEFINE K == Len(es)
           f == ReadRounds(p, es)
<1>1. f = CHOOSE g : g = [n \in 0..K |-> IF n = 0 THEN p ELSE HandleEntry(g[n - 1], es[n])]
  BY DEF ReadRounds
<1> HIDE DEF f, K
<1>2. K \in Nat BY DEF K
<1>3. PICK g : IsLoop(g, TRUE, p, es, K) BY <1>2, LoopExists
<1>4. g = [n \in 0..K |-> IF n = 0 THEN p ELSE HandleEntry(g[n - 1], es[n])]
  BY <1>3 DEF IsLoop, LoopStep
<1>5. f = [n \in 0..K |-> IF n = 0 THEN p ELSE HandleEntry(f[n - 1], es[n])]
  BY <1>1, <1>4
<1>6. f[0] = p BY <1>2, <1>5
<1>7. \A n \in 1..K : f[n] = HandleEntry(f[n - 1], es[n]) BY <1>2, <1>5
<1> QED BY <1>6, <1>7 DEF f, K

-----------------------------------------------------------------------------
(* One item. *)

LEMMA RecordOk ==
  ASSUME NEW d \in Detectors, NEW i \in Items, i.kind # "snapshot"
  PROVE  LET c == Record(ConsumeCommonItem(d, i), i, 0)
             counts == i.kind \in {"chunk", "final", "result", "boundary", "aborted"}
                       /\ i.text # NoText
         IN  /\ c \in Detectors /\ c.decision = d.decision
             /\ counts => c.started
             /\ ~counts => c.started = (d.started /\ i.kind # "rotate")
<1> DEFINE b == ConsumeCommonItem(d, i)
<1>1. /\ b \in Detectors /\ b.decision = d.decision
      /\ b.started = (d.started /\ i.kind # "rotate")
      /\ i.kind \in {"chunk", "final", "result", "boundary", "aborted"} => b = d
  <2>1. CASE i.kind = "tool_call" BY <2>1 DEF ConsumeCommonItem, Detectors
  <2>2. CASE i.kind = "tool_result" BY <2>2 DEF ConsumeCommonItem, Detectors
  <2>3. CASE i.kind = "rotate"
    <3>1. <<>> \in Seq(Texts) OBVIOUS
    <3>2. b = [d EXCEPT !.started = FALSE, !.tool = FALSE, !.hash = <<>>, !.since = NoTime]
      BY <2>3 DEF ConsumeCommonItem
    <3> HIDE DEF b
    <3> QED BY <2>3, <3>1, <3>2 DEF Detectors
  <2>4. CASE i.kind \notin {"tool_call", "tool_result", "rotate"}
    BY <2>4 DEF ConsumeCommonItem, Detectors
  <2> QED BY <2>1, <2>2, <2>3, <2>4
<1> HIDE DEF b
<1>2. b.family = "protocol_turn" /\ i.text \in Texts BY <1>1 DEF Detectors, Items
<1>3. ReplyKinds(b.family) = {"chunk", "final", "result", "boundary", "aborted"}
  BY <1>2 DEF ReplyKinds
<1>4. CASE i.kind \notin ReplyKinds(b.family) \/ i.text = NoText
  BY <1>1, <1>3, <1>4 DEF Record, RecordReply, b
<1>5. CASE i.kind \in ReplyKinds(b.family) /\ i.text # NoText
  <2>1. Record(b, i, 0) = [b EXCEPT !.started = TRUE, !.hash = <<i.text>>]
    BY <1>5 DEF Record, RecordReply, Fingerprint
  <2>2. <<i.text>> \in Seq(Texts) BY <1>2
  <2>3. Record(b, i, 0) \in Detectors /\ Record(b, i, 0).decision = b.decision
        /\ Record(b, i, 0).started
    BY <1>1, <2>1, <2>2 DEF Detectors
  <2> QED BY <1>1, <1>3, <1>5, <2>3 DEF b
<1> QED BY <1>4, <1>5

LEMMA TickIs ==
  ASSUME NEW t \in Trackers
  PROVE  TickTracker(t, 0) = t
<1> DEFINE d == t.detector
<1>1. d \in Detectors /\ d.family = "protocol_turn" BY DEF Trackers, Detectors
<1>2. TickDetector(d, 0) = d BY <1>1 DEF TickDetector
<1>3. FinalizeTimeout(d) = d BY <1>1 DEF FinalizeTimeout
<1>4. TickTracker(t, 0) = [t EXCEPT !.detector = d] BY <1>2, <1>3 DEF TickTracker, d
<1> QED BY <1>4 DEF Trackers

LEMMA NewTrackerOk ==
  /\ StartTracker("protocol_turn", 0) \in Trackers
  /\ ~StartTracker("protocol_turn", 0).detector.decision.terminal
  /\ Quiet(StartTracker("protocol_turn", 0))
<1>1. Pending \in Decisions BY DEF Pending, Decisions, Statuses, Texts
<1>2. NoCandidates \in [Priorities -> Texts] BY DEF NoCandidates, Texts
<1>3. NewDetector("protocol_turn") \in Detectors BY <1>1 DEF NewDetector, Detectors
<1> QED BY <1>2, <1>3 DEF StartTracker, NewDetector, Trackers, Pending, Quiet, NoCandidates

LEMMA CandidatesOk ==
  ASSUME NEW cs \in [Priorities -> Texts], NEW i \in Items
  PROVE  LET ds == IngestCandidate(cs, i)
         IN  ds \in [Priorities -> Texts] /\ (i.text = NoText => ds = cs)
<1>1. i.text \in Texts BY DEF Items
<1>2. Priority(i.kind) # 0 => Priority(i.kind) \in Priorities BY DEF Priority, Priorities
<1>3. CASE i.text = NoText \/ Priority(i.kind) = 0 BY <1>3 DEF IngestCandidate
<1>4. CASE ~(i.text = NoText \/ Priority(i.kind) = 0)
  <2>1. IngestCandidate(cs, i) = [cs EXCEPT ![Priority(i.kind)] = i.text]
    BY <1>4 DEF IngestCandidate
  <2> HIDE DEF IngestCandidate
  <2> QED BY <1>1, <1>2, <1>4, <2>1
<1> QED BY <1>3, <1>4

LEMMA BestOk ==
  ASSUME NEW cs \in [Priorities -> Texts]
  PROVE  /\ BestCandidate(cs) \in Texts
         /\ (\A p \in Priorities : cs[p] = NoText) => BestCandidate(cs) = NoText
<1> DEFINE ps == {p \in Priorities : cs[p] # NoText}
<1>1. CASE ps = {} BY <1>1 DEF BestCandidate, Texts
<1>2. CASE ps # {}
  <2>1. ps \in SUBSET Nat BY DEF Priorities
  <2>2. \E x \in ps : \A y \in ps : x <= y BY <1>2, <2>1, LeastNatural
  <2>3. Min(ps) \in ps BY <2>2 DEF Min
  <2>4. BestCandidate(cs) = cs[Min(ps)] BY <1>2 DEF BestCandidate
  <2> HIDE DEF BestCandidate
  <2> QED BY <2>3, <2>4
<1> QED BY <1>1, <1>2

(* An item that ends nothing; a change of session makes the tracker quiet.  *)
LEMMA MildOk ==
  ASSUME NEW t \in Trackers, ~t.detector.decision.terminal, NEW said,
         NEW i \in Items, Mild(i, said)
  PROVE  LET u == IngestItem(t, i, 0)
         IN  /\ u \in Trackers /\ ~u.detector.decision.terminal
             /\ said = NoText /\ (Quiet(t) \/ i.kind = "rotate") => Quiet(u)
<1> DEFINE d  == t.detector
           r  == Record(ConsumeCommonItem(d, i), i, 0)
           cs == IF i.kind = "rotate" THEN NoCandidates ELSE t.candidates
           ds == IngestCandidate(cs, i)
           c  == Ingest(d, i, 0)
           u  == IngestItem(t, i, 0)
<1>1. d \in Detectors /\ t.candidates \in [Priorities -> Texts] BY DEF Trackers
<1>2. i.kind \in {"rotate", "anchor_seen", "chunk"} BY DEF Mild
<1>3. /\ r \in Detectors /\ r.decision = d.decision
      /\ said = NoText => r.started = (d.started /\ i.kind # "rotate")
  BY <1>1, <1>2, RecordOk DEF Mild
<1> HIDE DEF r
<1>4. Verdict(r, i) = {} BY <1>2, <1>3 DEF Verdict, Detectors
<1>5. c = [r EXCEPT !.decision = Pending] BY <1>1, <1>4 DEF Ingest, r, Detectors
<1>6. Pending \in Decisions BY DEF Pending, Decisions, Statuses, Texts
<1>7. c \in Detectors /\ c.started = r.started /\ ~c.decision.terminal
  <2> HIDE DEF c
  <2>1. c \in Detectors /\ c.started = r.started /\ c.decision = Pending
    BY <1>3, <1>5, <1>6 DEF Detectors
  <2> QED BY <2>1 DEF Pending
<1>8. cs \in [Priorities -> Texts] BY <1>1 DEF NoCandidates, Texts
<1>9. ds \in [Priorities -> Texts] /\ (i.text = NoText => ds = cs) BY <1>8, CandidatesOk
<1>10. u = [t EXCEPT !.candidates = ds, !.detector = c] BY DEF IngestItem, Trackers
<1> HIDE DEF c, ds, u
<1>11. u \in Trackers /\ u.detector = c /\ u.candidates = ds BY <1>7, <1>9, <1>10 DEF Trackers
<1>12. ASSUME said = NoText, Quiet(t) \/ i.kind = "rotate" PROVE Quiet(u)
  <2>1. ~r.started BY <1>3, <1>12 DEF Quiet
  <2>2. \A p \in Priorities : cs[p] = NoText BY <1>12 DEF Quiet, NoCandidates
  <2>3. i.text = NoText BY <1>12 DEF Mild
  <2> QED BY <1>7, <1>9, <1>11, <2>1, <2>2, <2>3 DEF Quiet
<1> QED BY <1>7, <1>11, <1>12 DEF u

(* The decision a tracker comes to at the end of a turn. *)
TurnEnds(i, said) ==
  /\ i.kind \in {"boundary", "aborted"}
  /\ i.text = NoText => said = NoText
  /\ i.kind = "aborted" => i.status \in {"cancelled", "failed"}
StatusOf(i) ==
  IF i.kind = "aborted" THEN i.status
  ELSE IF i.text = NoText THEN "incomplete" ELSE "completed"

LEMMA CurrentIs ==
  ASSUME NEW u, NEW status, NEW x, u.detector.decision = Decided(status, x)
  PROVE  CurrentDecision(u) = Decided(status, IF x = NoText THEN BestCandidate(u.candidates) ELSE x)
<1> DEFINE best == BestCandidate(u.candidates)
<1>1. CurrentDecision(u) =
        [Decided(status, x) EXCEPT !.reply = IF Decided(status, x).reply = NoText THEN best
                                             ELSE Decided(status, x).reply]
  BY DEF CurrentDecision
<1> HIDE DEF best
<1>2. CurrentDecision(u) = Decided(status, IF x = NoText THEN best ELSE x)
  BY <1>1 DEF Decided
<1> QED BY <1>2 DEF best

LEMMA EndOk ==
  ASSUME NEW t, NEW said, TrackerOk(t, said), NEW i \in Items, TurnEnds(i, said), NEW x
  PROVE  LET d == EffectiveDecision(TickTracker(IngestItem(t, i, 0), 0), x)
         IN  d.terminal /\ d.status = StatusOf(i) /\ d.reply = i.text
<1> DEFINE d  == t.detector
           r  == Record(ConsumeCommonItem(d, i), i, 0)
           ds == IngestCandidate(t.candidates, i)
           c  == Ingest(d, i, 0)
           u  == IngestItem(t, i, 0)
<1>0. i.kind \in {"boundary", "aborted"} /\ i.text \in Texts BY DEF TurnEnds, Items
<1>1. d \in Detectors /\ t.candidates \in [Priorities -> Texts] /\ t \in Trackers
  BY DEF TrackerOk, Trackers
<1>2. /\ r \in Detectors
      /\ i.text # NoText => r.started
      /\ i.text = NoText => r.started = d.started
  <2>1. i.kind \notin {"snapshot", "rotate"} BY <1>0
  <2>2. r \in Detectors /\ (i.text # NoText => r.started)
        /\ (i.text = NoText => r.started = (d.started /\ i.kind # "rotate"))
    BY <1>0, <1>1, <2>1, RecordOk
  <2>3. d.started \in BOOLEAN BY <1>1 DEF Detectors
  <2> QED BY <2>1, <2>2, <2>3
<1> HIDE DEF r
<1>3. i.text = NoText => ~r.started /\ \A p \in Priorities : t.candidates[p] = NoText
  BY <1>2 DEF TurnEnds, TrackerOk, Quiet
<1>4. Verdict(r, i) = {StatusOf(i)} /\ StatusOf(i) \in Statuses
  BY <1>0, <1>2, <1>3 DEF Verdict, Detectors, StatusOf, TurnEnds, Statuses
<1>5. c = [r EXCEPT !.decision = Decided(StatusOf(i), i.text)]
  <2>1. i.kind \in ReplyKinds(d.family) BY <1>0, <1>1 DEF ReplyKinds, Detectors
  <2>2. (CHOOSE s \in {StatusOf(i)} : TRUE) = StatusOf(i) OBVIOUS
  <2> QED BY <1>4, <2>1, <2>2 DEF Ingest, r
<1>6. Decided(StatusOf(i), i.text) \in Decisions BY <1>0, <1>4 DEF Decided, Decisions
<1>7. c \in Detectors /\ c.decision = Decided(StatusOf(i), i.text)
  BY <1>2, <1>5, <1>6 DEF Detectors
<1>8. ds \in [Priorities -> Texts] /\ (i.text = NoText => ds = t.candidates)
  BY <1>1, CandidatesOk
<1>9. u = [t EXCEPT !.candidates = ds, !.detector = c] BY <1>0, <1>1 DEF IngestItem, Trackers
<1> HIDE DEF c, ds, u
<1>10. u \in Trackers /\ u.detector = c /\ u.candidates = ds BY <1>1, <1>7, <1>8, <1>9 DEF Trackers
<1>11. TickTracker(u, 0) = u BY <1>10, TickIs
<1>12. i.text = NoText => BestCandidate(u.candidates) = NoText
  BY <1>3, <1>8, <1>10, BestOk
<1>13. EffectiveDecision(u, x) = CurrentDecision(u)
  BY <1>7, <1>10 DEF EffectiveDecision, Decided
<1>14. CurrentDecision(u) =
         Decided(StatusOf(i), IF i.text = NoText THEN BestCandidate(u.candidates) ELSE i.text)
  BY <1>7, <1>10, CurrentIs
<1> QED BY <1>11, <1>12, <1>13, <1>14 DEF u, Decided

(* The failure of a delivery is the decision of the tracker too. *)
LEMMA ErrorOk ==
  ASSUME NEW t, NEW said, TrackerOk(t, said), NEW x
  PROVE  LET d == EffectiveDecision(TickTracker(
                    IngestItem(t, Item("error", NoText, "none"), 0), 0), x)
         IN  d.terminal /\ d.status = "failed" /\ d.reply \in Texts
<1> DEFINE i  == Item("error", NoText, "none")
           d  == t.detector
           r  == Record(ConsumeCommonItem(d, i), i, 0)
           ds == IngestCandidate(t.candidates, i)
           c  == Ingest(d, i, 0)
           u  == IngestItem(t, i, 0)
<1>0. i \in Items /\ i.kind = "error" /\ i.text = NoText
  BY DEF Item, Items, ItemKinds, Texts
<1>1. d \in Detectors /\ t.candidates \in [Priorities -> Texts] /\ t \in Trackers
  BY DEF TrackerOk, Trackers
<1> HIDE DEF i
<1>2. r \in Detectors BY <1>0, <1>1, RecordOk
<1> HIDE DEF r
<1>4. Verdict(r, i) = {"failed"} BY <1>0 DEF Verdict
<1>5. c = [r EXCEPT !.decision = Decided("failed", NoText)]
  <2>1. i.kind \notin ReplyKinds(d.family) BY <1>0, <1>1 DEF ReplyKinds, Detectors
  <2>2. (CHOOSE s \in {"failed"} : TRUE) = "failed" OBVIOUS
  <2> QED BY <1>4, <2>1, <2>2 DEF Ingest, r
<1>6. Decided("failed", NoText) \in Decisions BY DEF Decided, Decisions, Statuses, Texts
<1>7. c \in Detectors /\ c.decision = Decided("failed", NoText)
  BY <1>2, <1>5, <1>6 DEF Detectors
<1>8. ds \in [Priorities -> Texts] BY <1>0, <1>1, CandidatesOk
<1>9. u = [t EXCEPT !.candidates = ds, !.detector = c] BY <1>0, <1>1 DEF IngestItem, Trackers
<1> HIDE DEF c, ds, u
<1>10. u \in Trackers /\ u.detector = c /\ u.candidates = ds BY <1>1, <1>7, <1>8, <1>9 DEF Trackers
<1>11. TickTracker(u, 0) = u BY <1>10, TickIs
<1>12. BestCandidate(u.candidates) \in Texts BY <1>8, <1>10, BestOk
<1>13. EffectiveDecision(u, x) = CurrentDecision(u)
  BY <1>7, <1>10 DEF EffectiveDecision, Decided
<1>14. CurrentDecision(u) = Decided("failed", BestCandidate(u.candidates))
  BY <1>7, <1>10, CurrentIs
<1> QED BY <1>11, <1>12, <1>13, <1>14 DEF u, i, Decided

-----------------------------------------------------------------------------
(* One line. *)

Polls ==
  [anchor : BOOLEAN, final : Texts, said : Texts, message : Texts, buffer : {NoText, Pane},
   items : Seq(Items), ended : {"no"} \cup Terminals]

(* What a poll does not forget: that the session was changed, and that      *)
(* something was said.                                                     *)
Kept(p, rotated, old) ==
  /\ rotated => Len(p.items) >= 1 /\ p.items[1].kind = "rotate"
  /\ old # NoText => p.said # NoText

Open(p, l, k, lost, straight) ==
  /\ p.message = NoText
  /\ Reading(straight, l, k, lost, p.anchor, p.final, p.said)
  /\ AllMild(p.items, p.said)

(* The item of the end of a turn; `x` is the text of the line that ends it. *)
EndText(p, x) ==
  IF p.ended \in Aborts /\ SelectedReply(p) = NoText /\ p.ended \in Telling THEN x
  ELSE SelectedReply(p)
EndItem(p, i, x) ==
  /\ i \in Items /\ i.text = EndText(p, x)
  /\ IF p.ended \in Aborts THEN i.kind = "aborted" /\ i.status = AbortStatus(p.ended)
     ELSE i.kind = "boundary"

(* The turn ended at line e. *)
EndsAt(p, l, e, lost, straight) ==
  /\ e \notin lost /\ logs[l][e] = p.ended
  /\ p.message = IF p.ended = "doneMsg" THEN <<l, e>> ELSE NoText
  /\ Reading(straight, l, e - 1, lost, TRUE, p.final, p.said)
Ended(p, l, k, lost, straight) ==
  \E e \in 1..k :
    /\ EndsAt(p, l, e, lost, straight)
    /\ \E items \in Seq(Items), i \in Items :
         p.items = Append(items, i) /\ AllMild(items, p.said) /\ EndItem(p, i, <<l, e>>)

PollOk(p, l, k, lost, straight, rotated, old) ==
  /\ p \in Polls /\ Kept(p, rotated, old)
  /\ IF p.ended = "no" THEN Open(p, l, k, lost, straight) ELSE Ended(p, l, k, lost, straight)

LEMMA TurnNext ==
  ASSUME NEW l, NEW k \in Nat, NEW lost, k + 1 \notin lost, NEW kinds
  PROVE  /\ logs[l][k + 1] \notin kinds =>
              Seen(l, k + 1, lost, kinds) = Seen(l, k, lost, kinds)
         /\ logs[l][k + 1] \in kinds =>
              Seen(l, k + 1, lost, kinds) = Seen(l, k, lost, kinds) \cup {k + 1}
         /\ logs[l][k + 1] \notin kinds \/ Seen(l, k, lost, {"anchor"}) = {} =>
              TurnOf(l, k + 1, lost, kinds) = TurnOf(l, k, lost, kinds)
         /\ logs[l][k + 1] \in kinds /\ Seen(l, k, lost, {"anchor"}) # {} =>
              TurnOf(l, k + 1, lost, kinds) = TurnOf(l, k, lost, kinds) \cup {k + 1}
<1> DEFINE as == Seen(l, k, lost, {"anchor"})
           at == Seen(l, k + 1, lost, {"anchor"})
           ts == Seen(l, k, lost, kinds)
           tt == Seen(l, k + 1, lost, kinds)
           hit == logs[l][k + 1] \in kinds
           old == TurnOf(l, k, lost, kinds)
           new == TurnOf(l, k + 1, lost, kinds)
<1>0. 1..(k + 1) = (1..k) \cup {k + 1} OBVIOUS
<1>1. /\ \A i \in ts : i \in 1..k
      /\ \A a \in as : a \in 1..k
      /\ \A a : a \in at => a \in as \/ a = k + 1
      /\ \A a \in as : a \in at
      /\ \A i : i \in tt <=> i \in ts \/ (i = k + 1 /\ hit)
  BY <1>0 DEF Seen
<1>2. /\ \A i : i \in new <=> i \in tt /\ \E a \in at : a < i
      /\ \A i : i \in old <=> i \in ts /\ \E a \in as : a < i
  BY DEF TurnOf
<1>3. new \subseteq tt /\ old \subseteq ts BY DEF TurnOf
<1> HIDE DEF as, at, ts, tt, hit, old, new
<1>4. ASSUME NEW i \in ts PROVE i \in new <=> i \in old
  <2>1. i \in 1..k /\ i \in tt BY <1>1
  <2>2. ASSUME NEW a \in at, a < i PROVE a \in as
    <3>1. a # k + 1 BY <2>1, <2>2
    <3> QED BY <1>1, <3>1
  <2> QED BY <1>1, <1>2, <2>1, <2>2
<1>5. ASSUME hit PROVE k + 1 \in new <=> as # {}
  <2>1. ASSUME NEW a \in as PROVE a \in at /\ a < k + 1
    <3>1. a \in 1..k /\ a \in at BY <1>1
    <3> QED BY <3>1
  <2>2. ASSUME NEW a \in at, a < k + 1 PROVE a \in as
    <3>1. a # k + 1 BY <2>2
    <3> QED BY <1>1, <3>1
  <2> QED BY <1>1, <1>2, <1>5, <2>1, <2>2
<1>6. /\ ~hit => tt = ts
      /\ hit => tt = ts \cup {k + 1}
  BY <1>1
<1>7. ~hit \/ as = {} => new = old
  <2>1. CASE ~hit BY <1>3, <1>4, <1>6, <2>1
  <2>2. CASE hit /\ as = {} BY <1>3, <1>4, <1>5, <1>6, <2>2
  <2> QED BY <2>1, <2>2
<1>8. hit /\ as # {} => new = old \cup {k + 1}
  BY <1>3, <1>4, <1>5, <1>6
<1> QED BY <1>6, <1>7, <1>8 DEF as, at, ts, tt, hit, old, new

LEMMA LastNext ==
  ASSUME NEW x, NEW l, NEW k \in Nat, NEW T \in SUBSET (1..k)
  PROVE  IsLast(<<l, k + 1>>, l, T \cup {k + 1})
BY DEF IsLast

LEMMA TurnRange ==
  ASSUME NEW l, NEW k \in Nat, NEW lost, NEW kinds
  PROVE  TurnOf(l, k, lost, kinds) \in SUBSET (1..k)
BY DEF TurnOf, Seen

(* A line that says nothing, before or after the anchor; one that speaks;   *)
(* one that is lost.                                                       *)
LEMMA ScanQuiet ==
  ASSUME NEW l, NEW k \in Nat, NEW lost, k + 1 \notin lost, NEW a, NEW f, NEW s,
         ScanOk(l, k, lost, a, f, s), logs[l][k + 1] # "anchor",
         ~a \/ logs[l][k + 1] \notin {"said", "final"} \cup Terminals
  PROVE  ScanOk(l, k + 1, lost, a, f, s)
<1>1. Seen(l, k + 1, lost, {"anchor"}) = Seen(l, k, lost, {"anchor"})
  <2> DEFINE ks == {"anchor"}
  <2>1. logs[l][k + 1] \notin ks OBVIOUS
  <2> HIDE DEF ks
  <2>2. Seen(l, k + 1, lost, ks) = Seen(l, k, lost, ks) BY <2>1, TurnNext
  <2> QED BY <2>2 DEF ks
<1>2. a <=> Seen(l, k, lost, {"anchor"}) # {} BY DEF ScanOk
<1>3. ASSUME NEW kinds \in SUBSET ({"said", "final"} \cup Terminals)
      PROVE  TurnOf(l, k + 1, lost, kinds) = TurnOf(l, k, lost, kinds)
  <2>1. logs[l][k + 1] \notin kinds \/ Seen(l, k, lost, {"anchor"}) = {} BY <1>2
  <2> QED BY <2>1, TurnNext
<1>4. /\ TurnOf(l, k + 1, lost, Terminals) = TurnOf(l, k, lost, Terminals)
      /\ TurnOf(l, k + 1, lost, {"final"}) = TurnOf(l, k, lost, {"final"})
      /\ TurnOf(l, k + 1, lost, {"said", "final"}) = TurnOf(l, k, lost, {"said", "final"})
  BY <1>3
<1> QED BY <1>1, <1>4 DEF ScanOk

LEMMA ScanAnchor ==
  ASSUME NEW l, NEW k \in Nat, NEW lost, k + 1 \notin lost, NEW a, NEW f, NEW s,
         ScanOk(l, k, lost, a, f, s), logs[l][k + 1] = "anchor"
  PROVE  ScanOk(l, k + 1, lost, TRUE, f, s)
<1>1. k + 1 \in Seen(l, k + 1, lost, {"anchor"})
  <2> DEFINE ks == {"anchor"}
  <2>1. logs[l][k + 1] \in ks OBVIOUS
  <2> HIDE DEF ks
  <2>2. Seen(l, k + 1, lost, ks) = Seen(l, k, lost, ks) \cup {k + 1} BY <2>1, TurnNext
  <2> QED BY <2>2 DEF ks
<1>2. ASSUME NEW kinds, "anchor" \notin kinds
      PROVE  TurnOf(l, k + 1, lost, kinds) = TurnOf(l, k, lost, kinds)
  BY <1>2, TurnNext
<1>3. /\ TurnOf(l, k + 1, lost, Terminals) = TurnOf(l, k, lost, Terminals)
      /\ TurnOf(l, k + 1, lost, {"final"}) = TurnOf(l, k, lost, {"final"})
      /\ TurnOf(l, k + 1, lost, {"said", "final"}) = TurnOf(l, k, lost, {"said", "final"})
  BY <1>2 DEF Terminals, Aborts
<1> QED BY <1>1, <1>3 DEF ScanOk

LEMMA ScanSpeaks ==
  ASSUME NEW l, NEW k \in Nat, NEW lost, k + 1 \notin lost, NEW f, NEW s,
         ScanOk(l, k, lost, TRUE, f, s), logs[l][k + 1] \in {"said", "final"}
  PROVE  ScanOk(l, k + 1, lost, TRUE,
                IF logs[l][k + 1] = "final" THEN <<l, k + 1>> ELSE f, <<l, k + 1>>)
<1>1. Seen(l, k, lost, {"anchor"}) # {} /\ Seen(l, k + 1, lost, {"anchor"}) # {}
  <2>1. Seen(l, k, lost, {"anchor"}) # {} BY DEF ScanOk
  <2> QED BY <2>1, TurnNext
<1>2. TurnOf(l, k + 1, lost, Terminals) = {}
  <2>1. TurnOf(l, k, lost, Terminals) = {} BY DEF ScanOk
  <2>2. logs[l][k + 1] \notin Terminals BY DEF Terminals, Aborts
  <2> QED BY <2>1, <2>2, TurnNext
<1>3. IsLast(<<l, k + 1>>, l, TurnOf(l, k + 1, lost, {"said", "final"}))
  <2>1. TurnOf(l, k + 1, lost, {"said", "final"}) =
          TurnOf(l, k, lost, {"said", "final"}) \cup {k + 1}
    <3> DEFINE ks == {"said", "final"}
    <3>1. logs[l][k + 1] \in ks OBVIOUS
    <3> HIDE DEF ks
    <3> QED BY <1>1, <3>1, TurnNext
  <2> DEFINE T == TurnOf(l, k, lost, {"said", "final"})
  <2>2. T \in SUBSET (1..k) BY TurnRange
  <2> HIDE DEF T
  <2>3. IsLast(<<l, k + 1>>, l, T \cup {k + 1}) BY <2>2, LastNext
  <2> QED BY <2>1, <2>3 DEF T
<1>4. CASE logs[l][k + 1] = "final"
  <2>1. TurnOf(l, k + 1, lost, {"final"}) = TurnOf(l, k, lost, {"final"}) \cup {k + 1}
    <3> DEFINE ks == {"final"}
    <3>1. logs[l][k + 1] \in ks BY <1>4
    <3> HIDE DEF ks
    <3>2. TurnOf(l, k + 1, lost, ks) = TurnOf(l, k, lost, ks) \cup {k + 1}
      BY <1>1, <3>1, TurnNext
    <3> QED BY <3>2 DEF ks
  <2>2. IsLast(<<l, k + 1>>, l, TurnOf(l, k + 1, lost, {"final"}))
    <3>1. TurnOf(l, k, lost, {"final"}) \in SUBSET (1..k) BY TurnRange
    <3> QED BY <2>1, <3>1, LastNext
  <2> QED BY <1>1, <1>2, <1>3, <1>4, <2>2 DEF ScanOk
<1>5. CASE logs[l][k + 1] # "final"
  <2>1. TurnOf(l, k + 1, lost, {"final"}) = TurnOf(l, k, lost, {"final"})
    <3> DEFINE ks == {"final"}
    <3>1. logs[l][k + 1] \notin ks BY <1>5
    <3> HIDE DEF ks
    <3>2. TurnOf(l, k + 1, lost, ks) = TurnOf(l, k, lost, ks) BY <3>1, TurnNext
    <3> QED BY <3>2 DEF ks
  <2> QED BY <1>1, <1>2, <1>3, <1>5, <2>1 DEF ScanOk
<1> QED BY <1>4, <1>5

LEMMA ScanLost ==
  ASSUME NEW l, NEW k \in Nat, NEW lost \in SUBSET (1..k), NEW a, NEW f, NEW s,
         ScanOk(l, k, lost, a, f, s)
  PROVE  ScanOk(l, k + 1, lost \cup {k + 1}, a, f, s)
<1>1. ASSUME NEW kinds
      PROVE  /\ Seen(l, k + 1, lost \cup {k + 1}, kinds) = Seen(l, k, lost, kinds)
             /\ TurnOf(l, k + 1, lost \cup {k + 1}, kinds) = TurnOf(l, k, lost, kinds)
  <2>1. ASSUME NEW ks
        PROVE  Seen(l, k + 1, lost \cup {k + 1}, ks) = Seen(l, k, lost, ks)
    BY DEF Seen
  <2> QED BY <2>1 DEF TurnOf
<1> QED BY <1>1 DEF ScanOk

LEMMA MildGrows ==
  ASSUME NEW items, NEW s, AllMild(items, s), NEW z, s # NoText => z # NoText,
         NEW i \in Items, Mild(i, z)
  PROVE  AllMild(Append(items, i), z)
<1>1. items \in Seq(Items) BY DEF AllMild
<1>2. ASSUME NEW n \in 1..Len(items) PROVE Mild(items[n], z)
  BY DEF AllMild, Mild
<1>3. Append(items, i) \in Seq(Items) BY <1>1
<1>4. ASSUME NEW n \in 1..Len(Append(items, i)) PROVE Mild(Append(items, i)[n], z)
  BY <1>1, <1>2
<1> QED BY <1>3, <1>4 DEF AllMild

LEMMA ReplyOk ==
  ASSUME NEW p \in Polls
  PROVE  SelectedReply(p) \in Texts /\ (SelectedReply(p) = NoText => p.said = NoText)
<1>1. NoText \in Texts /\ Pane \in Texts BY DEF Texts
<1> QED BY <1>1 DEF SelectedReply, Polls

EntryAt(l, i) == [kind |-> logs[l][i], text |-> <<l, i>>]

(* HandleEntry keeps a poll in order. *)
LEMMA HandleStep ==
  ASSUME NEW l \in Logs, NEW k \in 0..MaxEntries, logs[l][k + 1] \in EntryKinds \cup {"meta"},
         NEW lost, k + 1 \notin lost, NEW p, NEW straight,
         NEW rotated, NEW old,
         PollOk(p, l, k, lost, straight, rotated, old)
  PROVE  PollOk(HandleEntry(p, EntryAt(l, k + 1)), l, k + 1, lost, straight, rotated, old)
<1> DEFINE e == EntryAt(l, k + 1)
           q == HandleEntry(p, e)
<1>1. MaxEntries \in Nat /\ NoText \notin Logs \X Nat BY CodexAssumption
<1>2. /\ k \in Nat /\ e.kind = logs[l][k + 1] /\ e.text = <<l, k + 1>>
      /\ e.text # NoText /\ e.text \in Texts
  <2>1. k + 1 \in 1..(MaxEntries + 1) BY <1>1
  <2>2. <<l, k + 1>> \in Logs \X Nat BY <1>1
  <2> QED BY <1>1, <2>1, <2>2 DEF EntryAt, Texts
<1>3. p \in Polls /\ Kept(p, rotated, old) BY DEF PollOk
<1>4. NoText \in Texts BY DEF Texts
<1>5. CASE p.ended # "no"
  <2>1. q = p BY <1>5 DEF HandleEntry
  <2>2. Ended(p, l, k, lost, straight) BY <1>5 DEF PollOk
  <2>3. \A n \in 1..k : n \in 1..(k + 1) BY <1>2
  <2>4. Ended(p, l, k + 1, lost, straight) BY <2>2, <2>3 DEF Ended
  <2> QED BY <1>3, <1>5, <2>1, <2>4 DEF PollOk
<1> SUFFICES ASSUME p.ended = "no" PROVE PollOk(q, l, k + 1, lost, straight, rotated, old)
  BY <1>5
<1>6. Open(p, l, k, lost, straight) /\ p.items \in Seq(Items) BY <1>3 DEF PollOk, Polls
<1>7. Reading(straight, l, k, lost, p.anchor, p.final, p.said) /\ p.message = NoText
      /\ AllMild(p.items, p.said)
  BY <1>6 DEF Open
<1> HIDE DEF e
<1>8. CASE e.kind \in {"meta", "user"} \/ (e.kind # "anchor" /\ ~p.anchor)
           \/ (e.kind = "anchor" /\ p.anchor)
  <2>1. q = p BY <1>8 DEF HandleEntry, HandleUserEntry
  <2>2. Reading(straight, l, k + 1, lost, p.anchor, p.final, p.said)
    <3>1. CASE e.kind = "anchor" BY <1>2, <1>7, <1>8, <3>1, ScanAnchor DEF Reading
    <3>2. CASE e.kind # "anchor"
      <4>1. ~p.anchor \/ logs[l][k + 1] \notin {"said", "final"} \cup Terminals
        BY <1>2, <1>8, <3>2 DEF Terminals, Aborts
      <4> QED BY <1>2, <1>7, <3>2, <4>1, ScanQuiet DEF Reading
    <3> QED BY <3>1, <3>2
  <2> QED BY <1>3, <1>7, <2>1, <2>2 DEF PollOk, Open
<1>9. CASE e.kind = "anchor" /\ ~p.anchor
  <2> DEFINE i == Item("anchor_seen", NoText, "none")
  <2>1. i \in Items /\ Mild(i, p.said) BY <1>4 DEF Item, Items, ItemKinds, Mild
  <2> HIDE DEF i
  <2>2. q = [p EXCEPT !.anchor = TRUE, !.items = Append(p.items, i)]
    BY <1>9 DEF HandleEntry, HandleUserEntry, i
  <2>3. Append(p.items, i) \in Seq(Items) BY <1>6, <2>1
  <2> HIDE DEF q
  <2>4. /\ q \in Polls /\ q.ended = "no" /\ q.message = NoText /\ q.anchor = TRUE
        /\ q.final = p.final /\ q.said = p.said /\ q.items = Append(p.items, i)
    BY <1>3, <1>7, <2>2, <2>3 DEF Polls
  <2>5. Reading(straight, l, k + 1, lost, TRUE, p.final, p.said)
    BY <1>2, <1>7, <1>9, ScanAnchor DEF Reading
  <2>6. AllMild(q.items, p.said) BY <1>7, <2>1, <2>4, MildGrows
  <2>7. Kept(q, rotated, old) BY <1>3, <1>6, <2>1, <2>4 DEF Kept
  <2> QED BY <2>4, <2>5, <2>6, <2>7 DEF PollOk, Open
<1>10. CASE e.kind \in {"said", "final"} /\ p.anchor
  <2> DEFINE i == Item("chunk", e.text, "none")
             f == IF e.kind = "final" THEN e.text ELSE p.final
  <2>1. i \in Items /\ Mild(i, e.text) BY <1>2 DEF Item, Items, ItemKinds, Mild
  <2> HIDE DEF i
  <2>2. q = [p EXCEPT !.said = e.text, !.final = f, !.items = Append(p.items, i)]
    BY <1>10 DEF HandleEntry, HandleAssistantEntry, i, Terminals, Aborts
  <2>3. Append(p.items, i) \in Seq(Items) BY <1>6, <2>1
  <2>4. f \in Texts BY <1>2, <1>3 DEF Polls
  <2>5. Reading(straight, l, k + 1, lost, TRUE, f, e.text)
    <3>1. p.anchor = TRUE BY <1>3, <1>10 DEF Polls
    <3> QED BY <1>2, <1>7, <1>10, <3>1, ScanSpeaks DEF Reading
  <2> HIDE DEF q, f
  <2>6. /\ q \in Polls /\ q.ended = "no" /\ q.message = NoText /\ q.anchor = TRUE
        /\ q.final = f /\ q.said = e.text /\ q.items = Append(p.items, i)
    <3>1. p.anchor = TRUE BY <1>3, <1>10 DEF Polls
    <3> QED BY <1>2, <1>3, <1>7, <2>2, <2>3, <2>4, <3>1 DEF Polls
  <2>7. AllMild(q.items, e.text) BY <1>2, <1>7, <2>1, <2>6, MildGrows
  <2>8. Kept(q, rotated, old) BY <1>2, <1>3, <1>6, <2>1, <2>6 DEF Kept
  <2> QED BY <2>5, <2>6, <2>7, <2>8 DEF PollOk, Open
<1>11. CASE e.kind \in Terminals /\ p.anchor
  <2> DEFINE m == IF e.kind = "doneMsg" THEN e.text ELSE NoText
             h == [p EXCEPT !.message = m, !.ended = e.kind]
             x == IF SelectedReply(h) = NoText /\ e.kind \in Telling THEN e.text
                  ELSE SelectedReply(h)
             i == IF e.kind \in Aborts THEN Item("aborted", x, AbortStatus(e.kind))
                  ELSE Item("boundary", SelectedReply(h), "none")
  <2>1. m \in Texts BY <1>2, <1>4
  <2>2. h \in Polls BY <1>3, <1>11, <2>1 DEF Polls
  <2>3. SelectedReply(h) \in Texts /\ x \in Texts BY <1>2, <2>2, ReplyOk
  <2>4. /\ i \in Items /\ (i.text = IF e.kind \in Aborts THEN x ELSE SelectedReply(h))
        /\ IF e.kind \in Aborts THEN i.kind = "aborted" /\ i.status = AbortStatus(e.kind)
           ELSE i.kind = "boundary"
    <3> HIDE DEF h, x
    <3> QED BY <2>3 DEF Item, Items, ItemKinds, AbortStatus
  <2>5. q = [h EXCEPT !.items = Append(h.items, i)]
    <3>1. [p EXCEPT !.message = IF e.kind = "doneMsg" THEN e.text ELSE p.message, !.ended = e.kind]
            = h
      BY <1>7
    <3>2. q = HandleTerminalEntry(p, e) BY <1>11 DEF HandleEntry, Terminals, Aborts
    <3> HIDE DEF h, q
    <3> QED BY <3>1, <3>2 DEF HandleTerminalEntry
  <2>6. /\ h.items = p.items /\ h.said = p.said /\ h.final = p.final /\ h.anchor = TRUE
        /\ h.message = m /\ h.ended = e.kind /\ h.buffer = p.buffer
    BY <1>3, <1>11 DEF Polls
  <2> HIDE DEF h, i, m, x
  <2>7. Append(h.items, i) \in Seq(Items) BY <1>6, <2>4, <2>6
  <2> HIDE DEF q
  <2>8. /\ q \in Polls /\ q.ended = e.kind /\ q.message = m /\ q.anchor = TRUE
        /\ q.final = p.final /\ q.said = p.said /\ q.items = Append(p.items, i)
        /\ q.buffer = h.buffer
    BY <2>2, <2>5, <2>6, <2>7 DEF Polls
  <2>9. SelectedReply(q) = SelectedReply(h) BY <2>6, <2>8 DEF SelectedReply
  <2>10. EndItem(q, i, e.text)
    <3>1. i.text = EndText(q, e.text) BY <2>4, <2>8, <2>9 DEF EndText, x
    <3> QED BY <2>4, <2>8, <3>1 DEF EndItem
  <2>11. EndsAt(q, l, k + 1, lost, straight)
    <3>1. (k + 1) - 1 = k BY <1>2
    <3>2. p.anchor = TRUE BY <1>3, <1>11 DEF Polls
    <3> QED BY <1>2, <1>7, <2>8, <3>1, <3>2 DEF EndsAt, m
  <2>12. k + 1 \in 1..(k + 1) BY <1>2
  <2>13. Ended(q, l, k + 1, lost, straight)
    BY <1>2, <1>6, <1>7, <2>4, <2>8, <2>10, <2>11, <2>12 DEF Ended
  <2>14. Kept(q, rotated, old) BY <1>3, <1>6, <2>4, <2>8 DEF Kept
  <2>15. q.ended # "no" BY <1>11, <2>8 DEF Terminals, Aborts
  <2> QED BY <2>8, <2>13, <2>14, <2>15 DEF PollOk
<1>12. e.kind \in {"anchor", "meta", "user", "said", "final"} \cup Terminals
  BY <1>2 DEF EntryKinds, Openers
<1>13. p.anchor \in BOOLEAN BY <1>3 DEF Polls
<1> QED BY <1>8, <1>9, <1>10, <1>11, <1>12, <1>13

-----------------------------------------------------------------------------
(* A log. *)

LEMMA LogFacts ==
  ASSUME LogsInv, NEW l \in Logs
  PROVE  /\ logs[l] \in Seq(EntryKinds \cup {"meta"})
         /\ Len(logs[l]) \in Nat /\ Len(logs[l]) <= MaxEntries + 1
         /\ l \in half => Len(logs[l]) >= 1
<1>1. logs[l] \in Seq(EntryKinds \cup {"meta"}) /\ Len(logs[l]) \in Nat BY DEF LogsInv
<1>2. l \in half => Len(logs[l]) >= 1
  <2>1. l \in half => logs[l] # <<>> BY DEF LogsInv
  <2> QED BY <1>1, <2>1
<1>3. Len(logs[l]) <= MaxEntries + 1
  <2> DEFINE n == Len(logs[l])
             f == [i \in 2..n |-> <<l, i>>]
  <2>1. f \in Injection(2..n, Entries)
    <3>1. \A i \in 2..n : f[i] \in Entries BY DEF Entries
    <3>2. f \in [2..n -> Entries] BY <3>1
    <3>3. \A i, j \in 2..n : f[i] = f[j] => i = j OBVIOUS
    <3> QED BY <3>2, <3>3 DEF Injection, IsInjective
  <2>2. IsFiniteSet(Entries) /\ Cardinality(Entries) <= MaxEntries BY DEF LogsInv
  <2>3. Cardinality(2..n) <= Cardinality(Entries) BY <2>1, <2>2, FS_Injection
  <2>4. Cardinality(2..n) = IF 2 > n THEN 0 ELSE n - 2 + 1 BY <1>1, FS_Interval
  <2>5. Cardinality(Entries) \in Nat /\ MaxEntries \in Nat
    BY <2>2, FS_CardinalityType, CodexAssumption
  <2>6. Cardinality(2..n) <= MaxEntries BY <2>2, <2>3, <2>4, <2>5, <1>1
  <2> HIDE DEF n
  <2> QED BY <1>1, <2>4, <2>5, <2>6 DEF n
<1> QED BY <1>1, <1>2, <1>3

(* Numbers of lines and offsets. *)
LEMMA LineNumbers ==
  ASSUME NEW n \in Nat, NEW offset \in Nat
  PROVE  /\ Begun(offset) \in Nat
         /\ offset <= 2 * n => Begun(offset) <= n
         /\ Begun(2 * n) = n /\ (n >= 1 => Begun(2 * n - 1) = n)
         /\ \A i \in Nat \ {0} : 2 * (i - 1) >= offset <=> i > Begun(offset)
BY DEF Begun

(* The lines of a log that are whole, and those a read gets. *)
LEMMA WholeLines ==
  ASSUME LogsInv, NEW l \in Logs
  PROVE  LET m == IF l \in half THEN Len(logs[l]) - 1 ELSE Len(logs[l])
         IN  m \in Nat /\ m <= Len(logs[l]) /\ Complete(l) = 1..m
             /\ Length(l) = Len(logs[l]) + m /\ Length(l) \in Nat /\ Begun(Length(l)) = Len(logs[l])
<1> DEFINE n == Len(logs[l])
           m == IF l \in half THEN n - 1 ELSE n
<1>1. n \in Nat /\ (l \in half => n >= 1) /\ DOMAIN logs[l] = 1..n BY LogFacts
<1>2. Complete(l) = {i \in 1..n : l \notin half \/ i < n} BY <1>1 DEF Complete
<1>3. Length(l) = 2 * n - (IF l \in half THEN 1 ELSE 0) BY DEF Length
<1> HIDE DEF n
<1>4. m \in Nat /\ m <= n /\ Length(l) = n + m /\ Length(l) \in Nat BY <1>1, <1>3
<1>5. Complete(l) = 1..m
  <2>1. CASE l \in half BY <1>1, <1>2, <2>1
  <2>2. CASE l \notin half BY <1>1, <1>2, <2>2
  <2> QED BY <2>1, <2>2
<1>6. Begun(Length(l)) = n
  <2>1. CASE l \in half
    <3>1. Length(l) = 2 * n - 1 BY <1>1, <1>3, <2>1
    <3> QED BY <1>1, <2>1, <3>1, LineNumbers
  <2>2. CASE l \notin half
    <3>1. Length(l) = 2 * n BY <1>1, <1>3, <2>2
    <3> QED BY <1>1, <3>1, LineNumbers
  <2> QED BY <2>1, <2>2
<1> QED BY <1>4, <1>5, <1>6 DEF n

LEMMA EntriesRead ==
  ASSUME LogsInv, NEW l \in Logs \ cut, NEW offset \in 0..Length(l)
  PROVE  LET b  == Begun(offset)
             es == ReadLogEntries(l, offset)
         IN  \E k \in Nat :
               /\ b <= k /\ k <= Len(logs[l]) /\ Len(es) = k - b
               /\ \A j \in 1..(k - b) : es[j] = EntryAt(l, b + j)
               /\ k = Len(logs[l]) \/ (k + 1 = Len(logs[l]) /\ <<l, k + 1>> \in TornBy(l, offset))
<1> DEFINE n == Len(logs[l])
           m == IF l \in half THEN n - 1 ELSE n
           b == Begun(offset)
           k == IF b <= m THEN m ELSE b
           ls == {i \in Complete(l) : l \notin cut /\ 2 * (i - 1) >= offset}
           es == ReadLogEntries(l, offset)
<1>1. n \in Nat /\ (l \in half => n >= 1) /\ DOMAIN logs[l] = 1..n BY LogFacts
<1>2. m \in Nat /\ m <= n /\ Complete(l) = 1..m /\ Length(l) = n + m BY WholeLines
<1>3. offset \in Nat /\ offset <= 2 * n
  <2> HIDE DEF n, m
  <2> QED BY <1>1, <1>2
<1>4. b \in Nat /\ b <= n /\ \A i \in Nat \ {0} : 2 * (i - 1) >= offset <=> i > b
  BY <1>1, <1>3, LineNumbers
<1> HIDE DEF b
<1>5. m = n \/ (l \in half /\ m + 1 = n) BY <1>1
<1> HIDE DEF n, m
<1>6. ls = (b + 1)..m BY <1>2, <1>4
<1>7. Cardinality(ls) = k - b
  <2>1. Cardinality((b + 1)..m) = IF b + 1 > m THEN 0 ELSE m - (b + 1) + 1
    BY <1>2, <1>4, FS_Interval
  <2> HIDE DEF ls
  <2>2. Cardinality(ls) = IF b + 1 > m THEN 0 ELSE m - (b + 1) + 1 BY <1>6, <2>1
  <2> QED BY <1>2, <1>4, <2>2
<1>8. k \in Nat /\ b <= k /\ k <= n BY <1>2, <1>4
<1> HIDE DEF ls, k
<1>9. es = [j \in 1..(k - b) |-> EntryAt(l, b + j)]
  <2>1. es = [j \in 1..Cardinality(ls) |->
                LET i == j + (offset + 1) \div 2 IN [kind |-> logs[l][i], text |-> <<l, i>>]]
    BY DEF ReadLogEntries, ls
  <2>2. es = [j \in 1..(k - b) |-> EntryAt(l, j + b)]
    BY <1>7, <2>1 DEF EntryAt, b, Begun
  <2>3. \A j \in 1..(k - b) : j + b = b + j BY <1>4, <1>8
  <2> HIDE DEF es
  <2> QED BY <2>2, <2>3
<1>10. Len(es) = k - b
  <2>1. k - b \in Nat BY <1>4, <1>8
  <2> HIDE DEF es
  <2> QED BY <1>9, <2>1
<1>11. \A j \in 1..(k - b) : es[j] = EntryAt(l, b + j)
  <2> HIDE DEF es
  <2> QED BY <1>9
<1>12. ASSUME k # n PROVE k + 1 = n /\ <<l, k + 1>> \in TornBy(l, offset)
  <2>1. k = m /\ b <= m /\ m + 1 = n BY <1>2, <1>4, <1>5, <1>12 DEF k
  <2>2. k + 1 \in 1..n /\ k + 1 \notin 1..m /\ k + 1 > b BY <1>2, <1>4, <2>1
  <2>3. k + 1 \in DOMAIN logs[l] \ Complete(l) /\ 2 * ((k + 1) - 1) >= offset
    BY <1>1, <1>2, <1>4, <1>8, <2>2
  <2> QED BY <2>1, <2>3 DEF TornBy
<1> QED BY <1>8, <1>10, <1>11, <1>12 DEF n, b, es

-----------------------------------------------------------------------------
(* All lines, all items. *)

LEMMA ReadAllOk ==
  ASSUME LogsInv, NEW l \in Logs \ cut, NEW offset \in 0..Length(l),
         NEW lost \in SUBSET (1..Begun(offset)), NEW p, NEW straight,
         NEW rotated, NEW old,
         PollOk(p, l, Begun(offset), lost, straight, rotated, old)
  PROVE  \E k \in Nat :
           /\ Begun(offset) <= k /\ k <= Len(logs[l])
           /\ PollOk(ReadAll(p, ReadLogEntries(l, offset)), l, k, lost, straight, rotated, old)
           /\ k = Len(logs[l]) \/ (k + 1 = Len(logs[l]) /\ <<l, k + 1>> \in TornBy(l, offset))
<1> DEFINE b  == Begun(offset)
           es == ReadLogEntries(l, offset)
           f  == ReadRounds(p, es)
<1>1. PICK k \in Nat :
        /\ b <= k /\ k <= Len(logs[l]) /\ Len(es) = k - b
        /\ \A j \in 1..(k - b) : es[j] = EntryAt(l, b + j)
        /\ k = Len(logs[l]) \/ (k + 1 = Len(logs[l]) /\ <<l, k + 1>> \in TornBy(l, offset))
  BY EntriesRead
<1>2. b \in Nat
  <2>1. offset \in Nat BY WholeLines
  <2> QED BY <2>1, LineNumbers
<1>3. Len(es) \in Nat BY <1>1, <1>2
<1>4. f[0] = p /\ \A j \in 1..(k - b) : f[j] = HandleEntry(f[j - 1], es[j])
  <2> HIDE DEF es
  <2> QED BY <1>1, <1>3, ReadLoop
<1>5. ReadAll(p, es) = f[k - b] BY <1>1 DEF ReadAll
<1>6. /\ Len(logs[l]) \in Nat /\ Len(logs[l]) <= MaxEntries + 1 /\ MaxEntries \in Nat
      /\ \A i \in 1..Len(logs[l]) : logs[l][i] \in EntryKinds \cup {"meta"}
  BY LogFacts, CodexAssumption
<1>7. \A i \in lost : i \in 1..b OBVIOUS
<1> HIDE DEF es, f
<1> DEFINE Good(j) == PollOk(f[j], l, b + j, lost, straight, rotated, old)
           bad == {j \in 0..(k - b) : ~Good(j)}
<1>8. bad = {}
  <2> SUFFICES ASSUME bad # {} PROVE FALSE OBVIOUS
  <2>1. bad \in SUBSET Nat OBVIOUS
  <2>2. PICK x \in bad : \A y \in bad : x <= y BY <2>1, LeastNatural
  <2>3. x \in 0..(k - b) /\ ~Good(x) OBVIOUS
  <2>4. b + 0 = b BY <1>2
  <2>5. x # 0 BY <1>4, <2>3, <2>4 DEF b
  <2>6. x - 1 \in 0..(k - b) /\ x \in 1..(k - b) /\ x - 1 < x BY <1>1, <1>2, <2>3, <2>5
  <2>7. Good(x - 1)
    <3>1. x - 1 \notin bad BY <2>2, <2>6
    <3> HIDE DEF Good
    <3> QED BY <2>6, <3>1
  <2> DEFINE c == b + (x - 1)
  <2>8. c \in 0..MaxEntries /\ c + 1 = b + x /\ c + 1 \in 1..Len(logs[l]) /\ c + 1 > b
    <3> DEFINE n == Len(logs[l])
    <3>1. b <= k /\ k <= n /\ n \in Nat /\ n <= MaxEntries + 1 /\ MaxEntries \in Nat
      BY <1>1, <1>6
    <3>2. x \in Nat /\ x >= 1 /\ x <= k - b BY <1>2, <2>6
    <3> HIDE DEF n
    <3>3. c \in Nat /\ c + 1 = b + x /\ c + 1 <= k /\ c + 1 > b BY <1>2, <3>1, <3>2
    <3> HIDE DEF c
    <3>4. c <= MaxEntries /\ c + 1 \in 1..n BY <3>1, <3>3
    <3> QED BY <3>1, <3>3, <3>4 DEF n
  <2>9. c + 1 \notin lost /\ logs[l][c + 1] \in EntryKinds \cup {"meta"}
    BY <1>2, <1>6, <1>7, <2>8
  <2>10. f[x] = HandleEntry(f[x - 1], EntryAt(l, c + 1)) BY <1>1, <1>4, <2>6, <2>8
  <2>11. PollOk(f[x - 1], l, c, lost, straight, rotated, old) BY <2>7
  <2> HIDE DEF c
  <2>12. PollOk(HandleEntry(f[x - 1], EntryAt(l, c + 1)), l, c + 1, lost, straight, rotated, old)
    BY <2>8, <2>9, <2>11, HandleStep
  <2> QED BY <2>3, <2>8, <2>10, <2>12
<1>9. k - b \in 0..(k - b) /\ b + (k - b) = k BY <1>1, <1>2
<1>10. Good(k - b)
  <2> HIDE DEF Good
  <2> QED BY <1>8, <1>9
<1>11. PollOk(f[k - b], l, k, lost, straight, rotated, old) BY <1>9, <1>10
<1> QED BY <1>1, <1>5, <1>11 DEF b, es

(* A read that fails changes nothing. *)
LEMMA ReadFails ==
  ASSUME NEW l \in cut, NEW offset, NEW p
  PROVE  ReadAll(p, ReadLogEntries(l, offset)) = p
<1> DEFINE ls == {i \in Complete(l) : l \notin cut /\ 2 * (i - 1) >= offset}
           es == ReadLogEntries(l, offset)
<1>1. ls = {} OBVIOUS
<1>2. es = [j \in 1..Cardinality(ls) |->
              LET i == j + (offset + 1) \div 2 IN [kind |-> logs[l][i], text |-> <<l, i>>]]
  BY DEF ReadLogEntries
<1>3. Cardinality(ls) = 0
  <2> HIDE DEF ls
  <2> QED BY <1>1, FS_EmptySet
<1>4. Len(es) = 0
  <2> HIDE DEF ls, es
  <2> QED BY <1>2, <1>3
<1> HIDE DEF es
<1>5. ReadRounds(p, es)[0] = p BY <1>4, ReadLoop
<1> QED BY <1>4, <1>5 DEF ReadAll, es

(* A reading that goes on is one of every line up to the new offset. *)
LEMMA NothingMissed ==
  ASSUME LogsInv, NEW l \in Logs \ cut, NEW offset \in 0..Length(l),
         NEW lost \in SUBSET (1..Begun(offset)), NEW a, NEW f, NEW s, NEW k \in Nat,
         Begun(offset) <= k, k <= Len(logs[l]), ScanOk(l, k, lost, a, f, s),
         k = Len(logs[l]) \/ (k + 1 = Len(logs[l]) /\ <<l, k + 1>> \in TornBy(l, offset))
  PROVE  \E now \in SUBSET (1..Begun(Length(l))) :
           /\ \A i \in now : i \in lost \/ <<l, i>> \in TornBy(l, offset)
           /\ ScanOk(l, Begun(Length(l)), now, a, f, s)
<1>1. Begun(Length(l)) = Len(logs[l]) BY WholeLines
<1>2. Begun(offset) \in Nat
  <2>1. offset \in Nat BY WholeLines
  <2> QED BY <2>1, LineNumbers
<1>3. lost \in SUBSET (1..k) BY <1>2
<1>4. CASE k = Len(logs[l]) BY <1>1, <1>3, <1>4
<1>5. CASE k # Len(logs[l])
  <2>1. ScanOk(l, k + 1, lost \cup {k + 1}, a, f, s) BY <1>3, ScanLost
  <2>2. lost \cup {k + 1} \in SUBSET (1..(k + 1)) BY <1>3
  <2>3. \A i \in lost \cup {k + 1} : i \in lost \/ <<l, i>> \in TornBy(l, offset) BY <1>5
  <2> QED BY <1>1, <1>5, <2>1, <2>2, <2>3
<1> QED BY <1>4, <1>5

LEMMA MildAll ==
  ASSUME NEW t, NEW old, TrackerOk(t, old), NEW items \in Seq(Items), NEW said,
         NEW k \in 0..Len(items), \A n \in 1..k : Mild(items[n], said),
         (old # NoText => said # NoText) \/ (k >= 1 /\ items[1].kind = "rotate")
  PROVE  TrackerOk(IngestRounds(t, items, 0)[k], said)
<1> DEFINE f == IngestRounds(t, items, 0)
<1>1. Len(items) \in Nat OBVIOUS
<1>2. f[0] = t /\ \A n \in 1..Len(items) : f[n] = IngestItem(f[n - 1], items[n], 0)
  BY <1>1, IngestLoop
<1> HIDE DEF f
<1> DEFINE fresh == (old # NoText => said # NoText)
           Good(n) == /\ f[n] \in Trackers /\ ~f[n].detector.decision.terminal
                      /\ said = NoText /\ (n >= 1 \/ fresh) => Quiet(f[n])
           bad == {n \in 0..k : ~Good(n)}
<1>3. bad = {}
  <2> SUFFICES ASSUME bad # {} PROVE FALSE OBVIOUS
  <2>1. bad \in SUBSET Nat OBVIOUS
  <2>2. PICK x \in bad : \A y \in bad : x <= y BY <2>1, LeastNatural
  <2>3. x \in 0..k /\ ~Good(x) OBVIOUS
  <2>4. Good(0) BY <1>2 DEF TrackerOk
  <2>5. x # 0
    <3> HIDE DEF Good
    <3> QED BY <2>3, <2>4
  <2>6. x - 1 \in 0..k /\ x \in 1..k /\ x - 1 < x /\ x \in 1..Len(items)
    BY <1>1, <2>3, <2>5
  <2>7. Good(x - 1)
    <3>1. x - 1 \notin bad BY <2>2, <2>6
    <3> HIDE DEF Good
    <3> QED BY <2>6, <3>1
  <2>8. items[x] \in Items /\ Mild(items[x], said) BY <2>6
  <2>9. f[x] = IngestItem(f[x - 1], items[x], 0) BY <1>2, <2>6
  <2>10. /\ f[x] \in Trackers /\ ~f[x].detector.decision.terminal
         /\ said = NoText /\ (Quiet(f[x - 1]) \/ items[x].kind = "rotate") => Quiet(f[x])
    BY <2>7, <2>8, <2>9, MildOk
  <2>11. said = NoText => Quiet(f[x - 1]) \/ items[x].kind = "rotate"
    <3>1. CASE x - 1 >= 1 BY <2>7, <3>1
    <3>2. CASE ~(x - 1 >= 1)
      <4>1. x = 1 BY <2>6, <3>2
      <4> QED BY <2>7, <4>1
    <3> QED BY <3>1, <3>2
  <2> QED BY <2>3, <2>10, <2>11
<1>4. Good(k)
  <2> HIDE DEF Good
  <2> QED BY <1>3
<1>5. said = NoText => Quiet(f[k]) BY <1>4
<1> QED BY <1>4, <1>5 DEF TrackerOk, f

-----------------------------------------------------------------------------
(* The answer of a turn that ended is one that one reading of the log gives. *)

LEMMA TurnIs ==
  ASSUME NEW l, NEW n \in Nat, NEW e \in 1..n, NEW lost,
         NEW a \in Seen(l, e - 1, lost, {"anchor"}),
         \A b \in Seen(l, n, lost, {"anchor"}) : a <= b, NEW kinds
  PROVE  {j \in {i \in Seen(l, n, lost, kinds) : i > a} : j < e} = TurnOf(l, e - 1, lost, kinds)
<1>1. a \in 1..(e - 1) BY DEF Seen
<1>2. \A j : j \in Seen(l, e - 1, lost, kinds) <=> j \in Seen(l, n, lost, kinds) /\ j < e
  BY DEF Seen
<1>3. \A b \in Seen(l, e - 1, lost, {"anchor"}) : b \in Seen(l, n, lost, {"anchor"})
  BY DEF Seen
<1>4. \A b \in Seen(l, e - 1, lost, {"anchor"}) : a <= b /\ b \in Nat
  BY <1>3 DEF Seen
<1>5. \A j \in Seen(l, n, lost, kinds) : j \in Nat BY DEF Seen
<1>6. ASSUME NEW j \in Seen(l, e - 1, lost, kinds)
      PROVE  j > a <=> \E b \in Seen(l, e - 1, lost, {"anchor"}) : b < j
  <2>1. j \in Nat /\ a \in Nat BY <1>1, <1>2, <1>5
  <2>2. ASSUME NEW b \in Seen(l, e - 1, lost, {"anchor"}), b < j PROVE j > a
    BY <1>4, <2>1, <2>2
  <2> QED BY <2>1, <2>2
<1> QED BY <1>2, <1>6 DEF TurnOf

LEMMA AnswerIs ==
  ASSUME LogsInv, NEW l \in Logs, NEW lost, NEW p \in Polls, p.ended \in Terminals,
         NEW e \in 1..Len(logs[l]), EndsAt(p, l, e, lost, TRUE),
         NEW i, EndItem(p, i, <<l, e>>)
  PROVE  [status |-> StatusOf(i), reply |-> i.text, by |-> "log"] \in Answers(l, lost)
<1> DEFINE n == Len(logs[l])
           seen(kinds) == {x \in DOMAIN logs[l] : logs[l][x] \in kinds /\ x \notin lost}
           anchor == Min(seen({"anchor"}))
           after(kinds) == {x \in seen(kinds) : x > anchor}
           end == Min(after(Terminals))
           turn(kinds) == {x \in after(kinds) : x < end}
           reply == IF logs[l][end] = "doneMsg" THEN {<<l, end>>}
                    ELSE IF turn({"final"}) # {} THEN {<<l, Max(turn({"final"}))>>}
                    ELSE IF turn({"said"})  # {} THEN {<<l, Max(turn({"said"}))>>}
                    ELSE {Pane, IF logs[l][end] \in Telling THEN <<l, end>> ELSE NoText}
           status(r) == IF logs[l][end] \in Aborts THEN AbortStatus(logs[l][end])
                        ELSE IF r = NoText THEN "incomplete" ELSE "completed"
<1>1. Answers(l, lost) =
        IF seen({"anchor"}) = {} \/ after(Terminals) = {} THEN {}
        ELSE {[status |-> status(r), reply |-> r, by |-> "log"] : r \in reply}
  BY DEF Answers
<1>2. n \in Nat /\ DOMAIN logs[l] = 1..n BY LogFacts
<1>3. ASSUME NEW kinds PROVE seen(kinds) = Seen(l, n, lost, kinds)
  BY <1>2 DEF Seen
<1>4. ScanOk(l, e - 1, lost, TRUE, p.final, p.said) /\ e \notin lost /\ logs[l][e] = p.ended
      /\ p.message = IF p.ended = "doneMsg" THEN <<l, e>> ELSE NoText
  BY DEF EndsAt, Reading
<1>5. PICK a \in seen({"anchor"}) : \A b \in seen({"anchor"}) : a <= b
  <2>1. Seen(l, e - 1, lost, {"anchor"}) # {} BY <1>4 DEF ScanOk
  <2>2. Seen(l, e - 1, lost, {"anchor"}) \subseteq Seen(l, n, lost, {"anchor"})
    BY <1>2 DEF Seen
  <2>3. Seen(l, n, lost, {"anchor"}) \in SUBSET Nat BY DEF Seen
  <2>4. seen({"anchor"}) # {} /\ seen({"anchor"}) \in SUBSET Nat BY <1>3, <2>1, <2>2, <2>3
  <2> HIDE DEF seen
  <2> QED BY <2>4, LeastNatural
<1>6. anchor = a
  <2>1. seen({"anchor"}) \in SUBSET Nat BY <1>2
  <2> HIDE DEF seen
  <2> QED BY <1>5, <2>1, MinIs
<1>7. a \in Seen(l, e - 1, lost, {"anchor"})
  <2>1. PICK b \in Seen(l, e - 1, lost, {"anchor"}) : TRUE BY <1>4 DEF ScanOk
  <2>2. b \in 1..(e - 1) /\ b \in Seen(l, n, lost, {"anchor"}) BY <1>2 DEF Seen
  <2>3. a <= b /\ a \in Seen(l, n, lost, {"anchor"}) BY <1>3, <1>5, <2>2
  <2> QED BY <2>2, <2>3 DEF Seen
<1>8. \A b \in Seen(l, n, lost, {"anchor"}) : a <= b BY <1>3, <1>5
<1> HIDE DEF seen, anchor
<1>9. e \in after(Terminals)
  <2>1. a \in 1..(e - 1) BY <1>7 DEF Seen
  <2>2. e \in Seen(l, n, lost, Terminals) BY <1>4 DEF Seen
  <2> QED BY <1>2, <1>3, <1>6, <2>1, <2>2
<1>10. end = e
  <2>1. after(Terminals) \in SUBSET Nat BY <1>3 DEF Seen
  <2>2. {x \in after(Terminals) : x < e} = {}
    <3>1. TurnOf(l, e - 1, lost, Terminals) = {} BY <1>4 DEF ScanOk
    <3>2. {j \in {x \in Seen(l, n, lost, Terminals) : x > a} : j < e} =
            TurnOf(l, e - 1, lost, Terminals)
      BY <1>2, <1>7, <1>8, TurnIs
    <3> QED BY <1>3, <1>6, <3>1, <3>2
  <2> HIDE DEF after
  <2>3. \A x \in after(Terminals) : e <= x BY <1>2, <2>1, <2>2
  <2> QED BY <1>9, <2>1, <2>3, MinIs
<1>11. ASSUME NEW kinds PROVE turn(kinds) = TurnOf(l, e - 1, lost, kinds)
  <2>1. {j \in {x \in Seen(l, n, lost, kinds) : x > a} : j < e} = TurnOf(l, e - 1, lost, kinds)
    BY <1>2, <1>7, <1>8, TurnIs
  <2> HIDE DEF end
  <2> QED BY <1>3, <1>6, <1>10, <2>1
<1> HIDE DEF after, end, turn
<1> DEFINE F == TurnOf(l, e - 1, lost, {"final"})
           S == TurnOf(l, e - 1, lost, {"said"})
           B == TurnOf(l, e - 1, lost, {"said", "final"})
<1>12. turn({"final"}) = F /\ turn({"said"}) = S BY <1>11
<1>13. /\ IsLast(p.final, l, F) /\ IsLast(p.said, l, B)
       /\ F \in SUBSET Nat /\ S \in SUBSET Nat /\ (F = {} => B = S)
  <2>1. IsLast(p.final, l, F) /\ IsLast(p.said, l, B) BY <1>4 DEF ScanOk
  <2>2. F \in SUBSET Nat /\ S \in SUBSET Nat BY DEF TurnOf, Seen
  <2>3. F = {} => B = S BY DEF TurnOf, Seen
  <2> QED BY <2>1, <2>2, <2>3
<1> HIDE DEF F, S, B
<1>14. \A x \in Nat : <<l, x>> # NoText BY CodexAssumption
<1>15. /\ i.text = EndText(p, <<l, e>>)
       /\ SelectedReply(p) # NoText \/ p.ended \notin Aborts \/ p.ended \notin Telling =>
            i.text = SelectedReply(p)
  BY DEF EndItem, EndText
<1>16. p.buffer \in {NoText, Pane} BY DEF Polls
<1>17. i.text \in reply
  <2>1. CASE p.ended = "doneMsg"
    <3>1. p.message = <<l, e>> /\ p.message # NoText BY <1>2, <1>4, <1>14, <2>1
    <3>2. p.ended \notin Aborts BY <2>1 DEF Aborts
    <3> QED BY <1>4, <1>10, <1>15, <2>1, <3>1, <3>2 DEF SelectedReply
  <2>2. CASE p.ended # "doneMsg" /\ F # {}
    <3>1. PICK x \in F : p.final = <<l, x>> /\ \A y \in F : y <= x BY <1>13, <2>2 DEF IsLast
    <3>2. Max(F) = x BY <1>13, <3>1, MaxIs
    <3>3. p.final # NoText BY <1>13, <1>14, <3>1
    <3>4. SelectedReply(p) = <<l, Max(F)>> BY <1>4, <2>2, <3>1, <3>2, <3>3 DEF SelectedReply
    <3>5. reply = {<<l, Max(F)>>} BY <1>4, <1>10, <1>12, <2>2
    <3>6. SelectedReply(p) # NoText BY <3>1, <3>2, <3>3, <3>4
    <3> QED BY <1>15, <3>4, <3>5, <3>6
  <2>3. CASE p.ended # "doneMsg" /\ F = {} /\ S # {}
    <3>1. IsLast(p.said, l, S) /\ p.final = NoText BY <1>13, <2>3 DEF IsLast
    <3>2. PICK x \in S : p.said = <<l, x>> /\ \A y \in S : y <= x BY <3>1, <2>3 DEF IsLast
    <3>3. Max(S) = x BY <1>13, <3>2, MaxIs
    <3>4. p.said # NoText BY <1>13, <1>14, <3>2
    <3>5. SelectedReply(p) = <<l, Max(S)>>
      BY <1>4, <2>3, <3>1, <3>2, <3>3, <3>4 DEF SelectedReply
    <3>6. reply = {<<l, Max(S)>>} BY <1>4, <1>10, <1>12, <2>3
    <3>7. SelectedReply(p) # NoText BY <3>2, <3>3, <3>4, <3>5
    <3> QED BY <1>15, <3>5, <3>6, <3>7
  <2>4. CASE p.ended # "doneMsg" /\ F = {} /\ S = {}
    <3>1. p.final = NoText /\ p.said = NoText BY <1>13, <2>4 DEF IsLast
    <3>2. SelectedReply(p) = p.buffer BY <1>4, <2>4, <3>1 DEF SelectedReply
    <3>3. reply = {Pane, IF p.ended \in Telling THEN <<l, e>> ELSE NoText}
      BY <1>4, <1>10, <1>12, <2>4
    <3>4. p.ended \in Telling => p.ended \in Aborts BY <2>4 DEF Telling, Aborts
    <3>5. i.text = IF p.buffer = NoText /\ p.ended \in Telling THEN <<l, e>> ELSE p.buffer
      BY <1>15, <3>2, <3>4 DEF EndText
    <3> HIDE DEF reply
    <3> QED BY <1>16, <3>3, <3>5
  <2> QED BY <2>1, <2>2, <2>3, <2>4
<1>18. status(i.text) = StatusOf(i)
  <2>1. CASE p.ended \notin Aborts
    <3>1. i.kind = "boundary" BY <2>1 DEF EndItem
    <3> QED BY <1>4, <1>10, <2>1, <3>1 DEF StatusOf
  <2>2. CASE p.ended \in Aborts
    <3>1. i.kind = "aborted" /\ i.status = AbortStatus(p.ended) BY <2>2 DEF EndItem
    <3> QED BY <1>4, <1>10, <2>2, <3>1 DEF StatusOf
  <2> QED BY <2>1, <2>2
<1>19. seen({"anchor"}) # {} /\ after(Terminals) # {} BY <1>5, <1>9
<1> HIDE DEF reply, status
<1>20. Answers(l, lost) = {[status |-> status(r), reply |-> r, by |-> "log"] : r \in reply}
  BY <1>1, <1>19
<1> QED BY <1>17, <1>18, <1>20

-----------------------------------------------------------------------------
(* A poll. *)

LEMMA RefreshOk ==
  ASSUME LogsInv, sub \in Submissions, SubInv,
         sub.fallback # NoLog => HasAnchor(sub.fallback, half),
         NEW guess \in SUBSET (half \ cut)
  PROVE  LET s == RefreshRuntimeState(sub, guess)
         IN  /\ s \in Submissions /\ s.log \in Logs /\ s.offset \in 0..Length(s.log)
             /\ s.anchor = sub.anchor /\ s.accepted = sub.accepted
             /\ s.final = sub.final /\ s.said = sub.said
             /\ s.log = sub.log => s = sub
             /\ s.log # sub.log => s.offset = 0
             /\ s.fallback # NoLog => HasAnchor(s.fallback, half)
<1> DEFINE fb     == FallbackLogs(sub, guess)
           target == IF fb # {} THEN CHOOSE l \in fb : TRUE ELSE current
           kept   == IF fb # {} /\ target # sub.log THEN target ELSE sub.fallback
           s      == RefreshRuntimeState(sub, guess)
<1>1. sub.log \in Logs /\ sub.offset \in 0..Length(sub.log) /\ current \in Logs
  BY DEF SubInv, LogsInv
<1>2. sub.fallback \in Logs \cup {NoLog} BY DEF Submissions
<1>3. \A l : HasAnchor(l, guess) => HasAnchor(l, half) BY DEF HasAnchor
<1>4. \A l \in fb : l \in Logs /\ HasAnchor(l, half)
  BY <1>2, <1>3 DEF FallbackLogs, AnchorFallbackLogs
<1>5. s = IF target = sub.log THEN sub
          ELSE [sub EXCEPT !.log = target, !.offset = 0, !.fallback = kept]
  BY DEF RefreshRuntimeState
<1> HIDE DEF fb
<1>6. fb # {} => target \in fb OBVIOUS
<1>7. target \in Logs /\ (fb # {} => HasAnchor(target, half)) BY <1>1, <1>4, <1>6
<1> HIDE DEF target
<1>8. kept \in Logs \cup {NoLog} /\ (kept # NoLog => HasAnchor(kept, half))
  BY <1>2, <1>7
<1> HIDE DEF kept, s
<1>9. CASE target = sub.log
  <2>1. s = sub BY <1>5, <1>9
  <2> QED BY <1>1, <2>1 DEF s
<1>10. CASE target # sub.log
  <2>1. s = [sub EXCEPT !.log = target, !.offset = 0, !.fallback = kept] BY <1>5, <1>10
  <2>2. /\ s \in Submissions /\ s.log = target /\ s.offset = 0 /\ s.fallback = kept
        /\ s.anchor = sub.anchor /\ s.accepted = sub.accepted
        /\ s.final = sub.final /\ s.said = sub.said
    BY <1>7, <1>8, <2>1 DEF Submissions
  <2>3. 0 \in 0..Length(target)
    <3>1. Length(target) \in Nat BY <1>7, WholeLines
    <3> QED BY <3>1
  <2> QED BY <1>7, <1>8, <1>10, <2>2, <2>3 DEF s
<1> QED BY <1>9, <1>10

LEMMA PollStarts ==
  ASSUME sub \in Submissions, SubInv, NEW s, NEW buffer \in {NoText, Pane},
         s.log = sub.log => s = sub, s.log # sub.log => s.offset = 0
  PROVE  \E lost \in SUBSET (1..Begun(s.offset)) :
           /\ \A i \in lost : <<s.log, i>> \in torn
           /\ PollOk(SessionRotation(PollState(sub, buffer), sub.log, s.log), s.log,
                     Begun(s.offset), lost, ~(s.log = sub.log /\ astray), s.log # sub.log,
                     IF s.log = sub.log THEN sub.said ELSE NoText)
<1> DEFINE p0 == PollState(sub, buffer)
           p  == SessionRotation(p0, sub.log, s.log)
<1>1. /\ p0 \in Polls /\ p0.ended = "no" /\ p0.message = NoText /\ p0.items = <<>>
      /\ p0.anchor = sub.anchor /\ p0.final = sub.final /\ p0.said = sub.said
  <2>1. <<>> \in Seq(Items) /\ NoText \in Texts BY DEF Texts
  <2> QED BY <2>1 DEF PollState, Polls, Submissions
<1> HIDE DEF p0
<1>2. CASE s.log = sub.log
  <2>1. p = p0 /\ s = sub BY <1>2 DEF SessionRotation
  <2> HIDE DEF p
  <2>2. PICK lost \in SUBSET (1..Begun(sub.offset)) :
          /\ \A i \in lost : <<sub.log, i>> \in torn
          /\ Reading(~astray, sub.log, Begun(sub.offset), lost, sub.anchor, sub.final, sub.said)
    BY DEF SubInv
  <2>3. AllMild(p.items, p.said)
    <3>1. p.items = <<>> BY <1>1, <2>1
    <3>2. <<>> \in Seq(Items) /\ 1..Len(<<>>) = {} OBVIOUS
    <3> QED BY <3>1, <3>2 DEF AllMild
  <2>4. Kept(p, FALSE, sub.said) BY <1>1, <2>1 DEF Kept
  <2>5. PollOk(p, s.log, Begun(s.offset), lost, ~(s.log = sub.log /\ astray), FALSE, sub.said)
    BY <1>1, <1>2, <2>1, <2>2, <2>3, <2>4 DEF PollOk, Open, Reading
  <2>6. (s.log # sub.log) = FALSE BY <1>2
  <2> QED BY <1>2, <2>1, <2>2, <2>5, <2>6 DEF p, p0
<1>3. CASE s.log # sub.log
  <2> DEFINE i == Item("rotate", NoText, "none")
  <2>1. p = [p0 EXCEPT !.anchor = FALSE, !.final = NoText, !.said = NoText, !.buffer = NoText,
                       !.items = <<i>>]
    BY <1>3 DEF SessionRotation
  <2>2. NoText \in Texts /\ i \in Items /\ i.kind = "rotate" /\ i.text = NoText
    BY DEF Item, Items, ItemKinds, Texts
  <2> HIDE DEF p, i
  <2>3. <<i>> \in Seq(Items) /\ Len(<<i>>) = 1 /\ <<i>>[1] = i BY <2>2
  <2>4. /\ p \in Polls /\ p.ended = "no" /\ p.message = NoText /\ p.items = <<i>>
        /\ p.anchor = FALSE /\ p.final = NoText /\ p.said = NoText
    BY <1>1, <2>1, <2>2, <2>3 DEF Polls
  <2>5. s.offset = 0 /\ Begun(0) = 0 BY <1>3 DEF Begun
  <2>6. ScanOk(s.log, 0, {}, FALSE, NoText, NoText)
    BY DEF ScanOk, TurnOf, Seen, IsLast
  <2>7. AllMild(p.items, p.said) BY <2>2, <2>3, <2>4 DEF AllMild, Mild
  <2>8. Kept(p, TRUE, NoText) BY <2>2, <2>3, <2>4 DEF Kept
  <2>9. PollOk(p, s.log, Begun(s.offset), {}, ~(s.log = sub.log /\ astray), TRUE, NoText)
    BY <2>4, <2>5, <2>6, <2>7, <2>8 DEF PollOk, Open, Reading
  <2>10. (s.log # sub.log) = TRUE BY <1>3
  <2> QED BY <1>3, <2>9, <2>10 DEF p, p0
<1> QED BY <1>2, <1>3

(* Whether the log is read straight after a poll. *)
Straight(s) == ~(s.log = sub.log /\ (astray \/ (s.log \in cut /\ sub.anchor)))

PollResult(s, p) ==
  /\ p \in Polls
  /\ (sub.said # NoText => p.said # NoText)
     \/ (Len(p.items) >= 1 /\ p.items[1].kind = "rotate")
  /\ p.ended = "no" =>
       /\ AllMild(p.items, p.said)
       /\ \E now \in SUBSET (1..Begun(NewOffset(s.log))) :
            /\ \A i \in now : <<s.log, i>> \in torn \cup TornBy(s.log, s.offset)
            /\ Reading(Straight(s), s.log, Begun(NewOffset(s.log)), now, p.anchor, p.final, p.said)
  /\ p.ended # "no" =>
       \E lost \in SUBSET (1..Len(logs[s.log])), e \in 1..Len(logs[s.log]) :
         /\ \A i \in lost : <<s.log, i>> \in torn
         /\ EndsAt(p, s.log, e, lost, Straight(s))
         /\ \E items \in Seq(Items), i \in Items :
              p.items = Append(items, i) /\ AllMild(items, p.said) /\ EndItem(p, i, <<s.log, e>>)

(* Before the anchor a reading has found nothing, so it may start again.    *)
LEMMA NothingYet ==
  ASSUME NEW l, NEW k, NEW lost, NEW a, NEW f, NEW x, ScanOk(l, k, lost, a, f, x), ~a
  PROVE  ScanOk(l, 0, {}, a, f, x)
<1>1. Seen(l, k, lost, {"anchor"}) = {} BY DEF ScanOk
<1>2. \A kinds : TurnOf(l, k, lost, kinds) = {} BY <1>1 DEF TurnOf
<1>3. f = NoText /\ x = NoText BY <1>2 DEF ScanOk, IsLast
<1>4. \A kinds : Seen(l, 0, {}, kinds) = {} BY DEF Seen
<1>5. \A kinds : TurnOf(l, 0, {}, kinds) = {} BY <1>4 DEF TurnOf
<1> QED BY <1>3, <1>4, <1>5 DEF ScanOk, IsLast

LEMMA PollFinds ==
  ASSUME LogsInv, sub \in Submissions, SubInv, astray \in BOOLEAN,
         sub.fallback # NoLog => HasAnchor(sub.fallback, half),
         NEW guess \in SUBSET (half \ cut), NEW buffer \in {NoText, Pane}
  PROVE  LET s == RefreshRuntimeState(sub, guess) IN PollResult(s, PollLogs(s, buffer))
<1> DEFINE s   == RefreshRuntimeState(sub, guess)
           p0  == SessionRotation(PollState(sub, buffer), sub.log, s.log)
           p   == PollLogs(s, buffer)
           str == ~(s.log = sub.log /\ astray)
           rot == s.log # sub.log
           old == IF s.log = sub.log THEN sub.said ELSE NoText
<1>1. /\ s.log \in Logs /\ s.offset \in 0..Length(s.log)
      /\ s.log = sub.log => s = sub
      /\ s.log # sub.log => s.offset = 0
  BY RefreshOk
<1>2. p = ReadAll(p0, ReadLogEntries(s.log, s.offset)) BY DEF PollLogs
<1>3. p0.anchor = (s.log = sub.log /\ sub.anchor) /\ p0.ended = "no"
  BY DEF SessionRotation, PollState, Submissions
<1> HIDE DEF s
<1>4. PICK lost \in SUBSET (1..Begun(s.offset)) :
        /\ \A i \in lost : <<s.log, i>> \in torn
        /\ PollOk(p0, s.log, Begun(s.offset), lost, str, rot, old)
  BY <1>1, PollStarts
<1> HIDE DEF p, p0, str, rot, old
<1>5. ASSUME NEW x, Kept(x, rot, old)
      PROVE  (sub.said # NoText => x.said # NoText)
             \/ (Len(x.items) >= 1 /\ x.items[1].kind = "rotate")
  BY <1>5 DEF Kept, rot, old
<1>6. CASE s.log \in cut
  <2>1. p = p0 BY <1>2, <1>6, ReadFails
  <2>2. p \in Polls /\ Kept(p, rot, old) /\ Open(p, s.log, Begun(s.offset), lost, str)
    BY <1>3, <1>4, <2>1 DEF PollOk
  <2>3. NewOffset(s.log) = 0 /\ Begun(0) = 0 BY <1>6 DEF NewOffset, Begun
  <2>4. Reading(Straight(s), s.log, 0, {}, p.anchor, p.final, p.said)
    <3> SUFFICES ASSUME Straight(s) PROVE ScanOk(s.log, 0, {}, p.anchor, p.final, p.said)
      BY DEF Reading
    <3>1. str /\ ~p.anchor BY <1>3, <1>6, <2>1 DEF Straight, str
    <3>2. ScanOk(s.log, Begun(s.offset), lost, p.anchor, p.final, p.said)
      BY <2>2, <3>1 DEF Open, Reading
    <3> QED BY <3>1, <3>2, NothingYet
  <2>5. {} \in SUBSET (1..Begun(NewOffset(s.log))) OBVIOUS
  <2> QED BY <1>3, <1>5, <2>1, <2>2, <2>3, <2>4, <2>5 DEF PollResult, Open, p, s
<1>7. CASE s.log \notin cut
  <2>1. Straight(s) = str /\ NewOffset(s.log) = Length(s.log)
    BY <1>7 DEF Straight, str, NewOffset
  <2>2. PICK k \in Nat :
          /\ Begun(s.offset) <= k /\ k <= Len(logs[s.log])
          /\ PollOk(p, s.log, k, lost, str, rot, old)
          /\ \/ k = Len(logs[s.log])
             \/ k + 1 = Len(logs[s.log]) /\ <<s.log, k + 1>> \in TornBy(s.log, s.offset)
    BY <1>1, <1>2, <1>4, <1>7, ReadAllOk
  <2>3. p \in Polls /\ Kept(p, rot, old) BY <2>2 DEF PollOk
  <2>4. ASSUME p.ended = "no"
        PROVE  /\ AllMild(p.items, p.said)
               /\ \E now \in SUBSET (1..Begun(Length(s.log))) :
                    /\ \A i \in now : <<s.log, i>> \in torn \cup TornBy(s.log, s.offset)
                    /\ Reading(str, s.log, Begun(Length(s.log)), now, p.anchor, p.final, p.said)
    <3>1. AllMild(p.items, p.said) /\ Reading(str, s.log, k, lost, p.anchor, p.final, p.said)
      BY <2>2, <2>4 DEF PollOk, Open
    <3>2. CASE str
      <4>1. ScanOk(s.log, k, lost, p.anchor, p.final, p.said) BY <3>1, <3>2 DEF Reading
      <4>2. PICK now \in SUBSET (1..Begun(Length(s.log))) :
              /\ \A i \in now : i \in lost \/ <<s.log, i>> \in TornBy(s.log, s.offset)
              /\ ScanOk(s.log, Begun(Length(s.log)), now, p.anchor, p.final, p.said)
        BY <1>1, <1>7, <2>2, <4>1, NothingMissed
      <4> QED BY <1>4, <3>1, <4>2 DEF Reading
    <3>3. CASE ~str
      <4>1. {} \in SUBSET (1..Begun(Length(s.log))) OBVIOUS
      <4> QED BY <3>1, <3>3, <4>1 DEF Reading
    <3> QED BY <3>2, <3>3
  <2>5. ASSUME p.ended # "no"
        PROVE  \E los \in SUBSET (1..Len(logs[s.log])), e \in 1..Len(logs[s.log]) :
                 /\ \A i \in los : <<s.log, i>> \in torn
                 /\ EndsAt(p, s.log, e, los, str)
                 /\ \E items \in Seq(Items), i \in Items :
                      /\ p.items = Append(items, i) /\ AllMild(items, p.said)
                      /\ EndItem(p, i, <<s.log, e>>)
    <3>1. Ended(p, s.log, k, lost, str) BY <2>2, <2>5 DEF PollOk
    <3>2. PICK e \in 1..k :
            /\ EndsAt(p, s.log, e, lost, str)
            /\ \E items \in Seq(Items), i \in Items :
                 /\ p.items = Append(items, i) /\ AllMild(items, p.said)
                 /\ EndItem(p, i, <<s.log, e>>)
      BY <3>1 DEF Ended
    <3>3. Len(logs[s.log]) \in Nat /\ Begun(s.offset) \in Nat
      <4>1. Length(s.log) \in Nat BY <1>1, WholeLines
      <4>2. s.offset \in Nat BY <1>1, <4>1
      <4> QED BY <1>1, <4>2, LogFacts, LineNumbers
    <3>4. e \in 1..Len(logs[s.log]) /\ lost \in SUBSET (1..Len(logs[s.log])) BY <2>2, <3>3
    <3> QED BY <1>4, <3>2, <3>4
  <2> HIDE DEF PollResult
  <2>6. PollResult(s, p) BY <1>5, <2>1, <2>3, <2>4, <2>5 DEF PollResult
  <2> QED BY <2>6 DEF p, s
<1> QED BY <1>6, <1>7

-----------------------------------------------------------------------------
(* What the tracker makes of a poll. *)

StartOf == IF tracker = NoTime THEN StartTracker("protocol_turn", 0) ELSE tracker

LEMMA StartOk ==
  ASSUME tracker # NoTime => TrackerOk(tracker, sub.said)
  PROVE  TrackerOk(StartOf, sub.said)
BY NewTrackerOk DEF StartOf, TrackerOk

LEMMA GoesOn ==
  ASSUME NEW start, NEW old, TrackerOk(start, old), NEW items, NEW said, AllMild(items, said),
         (old # NoText => said # NoText) \/ (Len(items) >= 1 /\ items[1].kind = "rotate")
  PROVE  LET t == TickTracker(IngestAll(start, items, 0), 0)
         IN  TrackerOk(t, said) /\ \A x : EffectiveDecision(t, x) = x
<1> DEFINE u == IngestAll(start, items, 0)
<1>1. items \in Seq(Items) /\ Len(items) \in Nat /\ \A n \in 1..Len(items) : Mild(items[n], said)
  BY DEF AllMild
<1>2. Len(items) \in 0..Len(items) BY <1>1
<1>3. u = IngestRounds(start, items, 0)[Len(items)] BY DEF IngestAll
<1> HIDE DEF u
<1>4. TrackerOk(u, said) BY <1>1, <1>2, <1>3, MildAll
<1>5. TickTracker(u, 0) = u BY <1>4, TickIs DEF TrackerOk
<1>6. \A x : EffectiveDecision(u, x) = x BY <1>4 DEF EffectiveDecision, TrackerOk
<1> QED BY <1>4, <1>5, <1>6 DEF u

LEMMA Ends ==
  ASSUME NEW start, NEW old, TrackerOk(start, old), NEW p \in Polls, p.ended \in Terminals,
         (old # NoText => p.said # NoText) \/ (Len(p.items) >= 1 /\ p.items[1].kind = "rotate"),
         NEW items \in Seq(Items), NEW i, p.items = Append(items, i), AllMild(items, p.said),
         NEW y, y # NoText, EndItem(p, i, y), NEW x
  PROVE  LET d == EffectiveDecision(TickTracker(IngestAll(start, p.items, 0), 0), x)
         IN  d.terminal /\ d.status = StatusOf(i) /\ d.reply = i.text
<1> DEFINE k == Len(items)
           f == IngestRounds(start, p.items, 0)
<1>1. i \in Items /\ k \in Nat BY DEF EndItem
<1>2. /\ p.items \in Seq(Items) /\ Len(p.items) = k + 1 /\ p.items[k + 1] = i
      /\ \A n \in 1..k : p.items[n] = items[n]
  BY <1>1
<1>3. \A n \in 1..k : Mild(p.items[n], p.said) BY <1>2 DEF AllMild
<1>4. TurnEnds(i, p.said)
  <2>1. i.text = NoText => p.said = NoText BY ReplyOk DEF EndItem, EndText
  <2> QED BY <2>1 DEF TurnEnds, EndItem, Terminals, Aborts, AbortStatus
<1>5. k \in 0..Len(p.items) BY <1>1, <1>2
<1>6. (old # NoText => p.said # NoText) \/ (k >= 1 /\ p.items[1].kind = "rotate")
  <2>1. i.kind # "rotate" BY <1>4 DEF TurnEnds
  <2>2. k = 0 => p.items[1] = i BY <1>2
  <2> QED BY <1>1, <2>1, <2>2
<1> HIDE DEF k
<1>7. TrackerOk(f[k], p.said) BY <1>2, <1>3, <1>5, <1>6, MildAll
<1>8. f[k + 1] = IngestItem(f[k], i, 0)
  <2>1. Len(p.items) \in Nat /\ k + 1 \in 1..Len(p.items) /\ (k + 1) - 1 = k BY <1>1, <1>2
  <2> HIDE DEF f
  <2>2. \A n \in 1..Len(p.items) : f[n] = IngestItem(f[n - 1], p.items[n], 0)
    BY <2>1, IngestLoop DEF f
  <2> QED BY <1>2, <2>1, <2>2
<1>9. IngestAll(start, p.items, 0) = IngestItem(f[k], i, 0) BY <1>2, <1>8 DEF IngestAll
<1> HIDE DEF f
<1> QED BY <1>1, <1>4, <1>7, <1>9, EndOk

-----------------------------------------------------------------------------
(* A step that leaves the logs alone. *)

LEMMA LogsKept ==
  ASSUME logs' = logs, half' = half
  PROVE  /\ \A l : Length(l)' = Length(l)
         /\ \A l, g : HasAnchor(l, g)' = HasAnchor(l, g)
         /\ \A l, k, lost, a, f, s : ScanOk(l, k, lost, a, f, s)' = ScanOk(l, k, lost, a, f, s)
         /\ \A l, lost : Answers(l, lost)' = Answers(l, lost)
         /\ Entries' = Entries
         /\ current' \in Logs /\ LogsInv => LogsInv'
<1>1. \A l : Length(l)' = Length(l) BY DEF Length
<1>2. \A l, g : HasAnchor(l, g)' = HasAnchor(l, g) BY DEF HasAnchor, Complete
<1>3. \A l, k, lost, a, f, s : ScanOk(l, k, lost, a, f, s)' = ScanOk(l, k, lost, a, f, s)
  BY DEF ScanOk, TurnOf, Seen
<1>4. \A l, lost : Answers(l, lost)' = Answers(l, lost) BY DEF Answers
<1>5. Entries' = Entries BY DEF Entries
<1>6. current' \in Logs /\ LogsInv => LogsInv' BY <1>5 DEF LogsInv
<1> QED BY <1>1, <1>2, <1>3, <1>4, <1>5, <1>6

LEMMA JobEnds ==
  ASSUME IInv, logs' = logs, half' = half, current' = current, anchored' \in BOOLEAN,
         astray' \in BOOLEAN,
         sub' = StartSubmission(NoLog), NEW status \in Statuses, NEW x \in Texts, NEW by,
         job' = [status |-> status, reply |-> x, by |-> by],
         by = "delivery" => ~anchored',
         by = "log" /\ ~astray' =>
           \E l \in Logs : \E lost \in SUBSET {i \in 1..MaxEntries + 1 : <<l, i>> \in torn'} :
             job' \in Answers(l, lost)
  PROVE  IInv'
<1>1. LogsInv' BY LogsKept DEF IInv, LogsInv
<1>2. /\ sub' \in Submissions /\ sub'.fallback = NoLog /\ sub'.final = NoText
      /\ sub'.anchor = FALSE /\ sub'.accepted = FALSE
  BY DEF StartSubmission, Submissions, Texts
<1>3. job'.status = status /\ job'.reply = x /\ job'.by = by OBVIOUS
<1>4. job' # Running /\ status # "running" BY <1>3 DEF Running, Statuses
<1>5. NoText \in Texts BY DEF Texts
<1>6. TypeOK' BY <1>2, <1>3, <1>4, <1>5 DEF TypeOK, Texts
<1>7. DeliveredStaysDelivered' BY <1>3 DEF DeliveredStaysDelivered
<1>8. AnswerMatchesLog' BY <1>3, LogsKept DEF AnswerMatchesLog
<1> QED BY <1>1, <1>2, <1>4, <1>6, <1>7, <1>8 DEF IInv, Running, Submissions, Texts

LEMMA JobGoesOn ==
  ASSUME IInv, job = Running, job' = job, logs' = logs, half' = half, current' \in Logs,
         sub' \in Submissions, anchored' \in BOOLEAN, astray' \in BOOLEAN,
         sub'.fallback # NoLog => HasAnchor(sub'.fallback, half),
         sub'.anchor => sub'.accepted, sub'.accepted <=> anchored',
         sub'.log \in Logs, sub'.offset \in 0..Length(sub'.log),
         \E lost \in SUBSET (1..Begun(sub'.offset)) :
           /\ \A i \in lost : <<sub'.log, i>> \in torn'
           /\ Reading(~astray', sub'.log, Begun(sub'.offset), lost, sub'.anchor, sub'.final, sub'.said),
         AllMild(pending', sub'.said), AllMild(replay', sub'.said),
         tracker' # NoTime => TrackerOk(tracker', sub'.said)
  PROVE  IInv'
<1>1. LogsInv' BY LogsKept DEF IInv
<1>2. job'.by = "none" /\ job'.reply = NoText /\ job'.status = "running" BY DEF Running
<1>3. /\ Length(sub.log)' = Length(sub'.log)
      /\ HasAnchor(sub.fallback, half)' = HasAnchor(sub'.fallback, half)
  BY DEF Length, HasAnchor, Complete
<1>4. TypeOK'
  <2>1. sub'.final \in Texts /\ NoText \in Texts BY DEF Submissions, Texts
  <2> QED BY <1>2, <1>3, <2>1 DEF TypeOK, Texts
<1>5. DeliveredStaysDelivered' /\ AnswerMatchesLog'
  BY <1>2 DEF DeliveredStaysDelivered, AnswerMatchesLog
<1>6. SubInv'
  <2>1. PICK lost \in SUBSET (1..Begun(sub'.offset)) :
          /\ \A i \in lost : <<sub'.log, i>> \in torn'
          /\ Reading(~astray', sub'.log, Begun(sub'.offset), lost, sub'.anchor, sub'.final, sub'.said)
    OBVIOUS
  <2>2. Reading(~astray, sub.log, Begun(sub.offset), lost, sub.anchor, sub.final, sub.said)'
    BY <2>1 DEF Reading, ScanOk, TurnOf, Seen, Begun, IsLast
  <2>3. lost \in SUBSET (1..Begun(sub.offset)') BY <2>1 DEF Begun
  <2> QED BY <1>3, <2>1, <2>2, <2>3 DEF SubInv
<1>7. AllMild(pending, sub.said)' /\ AllMild(replay, sub.said)' BY DEF AllMild, Mild, Items, Texts
<1>8. (tracker # NoTime => TrackerOk(tracker, sub.said))'
  BY DEF TrackerOk, Quiet, Trackers, Detectors, Decisions, Texts
<1> QED BY <1>1, <1>4, <1>5, <1>6, <1>7, <1>8 DEF IInv, RunningInv, Submissions, Texts

(* What the invariant says of a running job. *)
LEMMA WhileRunning ==
  ASSUME IInv, job = Running
  PROVE  /\ LogsInv /\ sub \in Submissions /\ SubInv
         /\ anchored \in BOOLEAN /\ astray \in BOOLEAN
         /\ sub.fallback # NoLog => HasAnchor(sub.fallback, half)
         /\ sub.anchor => sub.accepted
         /\ sub.accepted <=> anchored
         /\ sub.accepted \in BOOLEAN /\ sub.anchor \in BOOLEAN
         /\ AllMild(pending, sub.said) /\ AllMild(replay, sub.said)
         /\ tracker # NoTime => TrackerOk(tracker, sub.said)
         /\ TrackerOk(StartOf, sub.said)
BY StartOk DEF IInv, RunningInv, TypeOK, Submissions

-----------------------------------------------------------------------------
(* The actions. *)

LEMMA DeliverReplayKeeps == ASSUME IInv, DeliverReplay PROVE IInv'
<1>1. job = Running /\ Conclude(sub, replay, Pending, "log") /\ replay' = <<>> /\ replay # <<>>
      /\ UNCHANGED <<provider, pending, torn, anchored, astray, restarts>>
  BY DEF DeliverReplay, past
<1> DEFINE t == TickTracker(IngestAll(StartOf, replay, 0), 0)
<1>2. TrackerOk(t, sub.said) /\ EffectiveDecision(t, Pending) = Pending
  BY <1>1, WhileRunning, GoesOn
<1>3. tracker' = t /\ job' = job /\ sub' = sub
  BY <1>1, <1>2 DEF Conclude, StartOf, Pending
<1> HIDE DEF t
<1>4. SubInv /\ current \in Logs BY <1>1, WhileRunning DEF LogsInv
<1>5. AllMild(<<>>, sub.said)
  <2>1. <<>> \in Seq(Items) /\ 1..Len(<<>>) = {} OBVIOUS
  <2> QED BY <2>1 DEF AllMild
<1> QED BY <1>1, <1>2, <1>3, <1>4, <1>5, WhileRunning, JobGoesOn DEF SubInv, provider

LEMMA FailDeliveryKeeps == ASSUME IInv, FailDelivery PROVE IInv'
<1> DEFINE i == Item("error", NoText, "none")
           x == Decided("failed", NoText)
<1>1. job = Running /\ Conclude(sub, <<i>>, x, "delivery")
      /\ UNCHANGED <<provider, pending, replay, torn, anchored, astray, restarts>>
  BY DEF FailDelivery, past
<1>2. ~sub.accepted BY DEF FailDelivery, DeliveryFailed
<1>3. ~anchored /\ anchored' \in BOOLEAN /\ astray' \in BOOLEAN BY <1>1, <1>2, WhileRunning
<1> DEFINE t == TickTracker(IngestAll(StartOf, <<i>>, 0), 0)
           d == EffectiveDecision(t, x)
<1>4. IngestAll(StartOf, <<i>>, 0) = IngestItem(StartOf, i, 0)
  <2> DEFINE f == IngestRounds(StartOf, <<i>>, 0)
  <2> HIDE DEF i
  <2>1. Len(<<i>>) = 1 /\ <<i>>[1] = i /\ 1 \in 1..1 /\ 1 - 1 = 0 OBVIOUS
  <2>2. f[0] = StartOf /\ \A n \in 1..Len(<<i>>) : f[n] = IngestItem(f[n - 1], <<i>>[n], 0)
    BY <2>1, IngestLoop
  <2> HIDE DEF f
  <2>3. f[1] = IngestItem(StartOf, i, 0) BY <2>1, <2>2
  <2> QED BY <2>1, <2>3 DEF IngestAll, f
<1>5. d.terminal /\ d.status = "failed" /\ d.reply \in Texts
  <2>1. TrackerOk(StartOf, sub.said) BY <1>1, WhileRunning
  <2> QED BY <1>4, <2>1, ErrorOk
<1>6. <<i>> # <<>> OBVIOUS
<1>7. job' = [status |-> d.status, reply |-> d.reply, by |-> "delivery"]
      /\ sub' = StartSubmission(NoLog)
  <2> HIDE DEF i, x
  <2> QED BY <1>1, <1>5, <1>6 DEF Conclude, StartOf
<1> HIDE DEF d, i
<1>8. d.status \in Statuses BY <1>5 DEF Statuses
<1> QED BY <1>1, <1>3, <1>5, <1>7, <1>8, JobEnds DEF provider

LEMMA PollPaneKeeps == ASSUME IInv, PollPane PROVE IInv'
<1> DEFINE x == Decided("completed", Pane)
           t == TickTracker(IngestAll(StartOf, <<>>, 0), 0)
           d == EffectiveDecision(t, x)
<1>1. job = Running /\ Conclude(sub, <<>>, x, "pane")
      /\ UNCHANGED <<provider, pending, replay, torn, anchored, astray, restarts>>
  BY DEF PollPane, past
<1>2. AllMild(<<>>, sub.said)
  <2>1. <<>> \in Seq(Items) /\ 1..Len(<<>>) = {} OBVIOUS
  <2> QED BY <2>1 DEF AllMild
<1>3. d = x BY <1>1, <1>2, WhileRunning, GoesOn
<1>4. x.terminal /\ x.status = "completed" /\ x.reply = Pane BY DEF Decided
<1>5. job' = [status |-> d.status, reply |-> d.reply, by |-> "pane"]
      /\ sub' = StartSubmission(NoLog)
  <2>1. d.terminal BY <1>3, <1>4
  <2> HIDE DEF x
  <2> QED BY <1>1, <1>4, <2>1 DEF Conclude, StartOf
<1>6. job' = [status |-> "completed", reply |-> Pane, by |-> "pane"] BY <1>3, <1>4, <1>5
<1>7. "completed" \in Statuses /\ Pane \in Texts BY DEF Statuses, Texts
<1>8. anchored' \in BOOLEAN /\ astray' \in BOOLEAN BY <1>1, WhileRunning
<1> HIDE DEF d, t, x
<1> QED BY <1>1, <1>5, <1>6, <1>7, <1>8, JobEnds DEF provider

LEMMA RestartKeeps == ASSUME IInv, Restart PROVE IInv'
<1>1. job = Running /\ replay' = pending /\ tracker' = NoTime
      /\ UNCHANGED <<provider, sub, pending, job, torn, anchored, astray>>
  BY DEF Restart, past
<1>2. SubInv /\ current \in Logs BY <1>1, WhileRunning DEF LogsInv
<1> QED BY <1>1, <1>2, WhileRunning, JobGoesOn DEF SubInv, provider

LEMMA ChangeSessionKeeps == ASSUME IInv, ChangeSession PROVE IInv'
<1>1. job = Running /\ current' \in Logs
      /\ UNCHANGED <<logs, half, cut, sub, pending, replay, tracker, job, torn, anchored, astray, restarts>>
  BY DEF ChangeSession, past
<1>2. SubInv BY <1>1, WhileRunning
<1> QED BY <1>1, <1>2, WhileRunning, JobGoesOn DEF SubInv

LEMMA PollSessionKeeps == ASSUME IInv, PollSession PROVE IInv'
<1>1. job = Running /\ replay = <<>> /\ UNCHANGED <<provider, replay, restarts>>
  BY DEF PollSession
<1>2. PICK guess \in SUBSET (half \ cut), buffer \in {NoText, Pane} :
        LET s == RefreshRuntimeState(sub, guess)
            p == PollLogs(s, buffer)
            next == [s EXCEPT !.offset = NewOffset(s.log), !.anchor = p.anchor,
                              !.accepted = s.accepted \/ p.anchor,
                              !.final = p.final, !.said = p.said]
        IN  /\ pending' = p.items
            /\ torn' = torn \cup TornBy(s.log, s.offset)
            /\ anchored' = (anchored \/ p.anchor)
            /\ astray' = (s.log = sub.log /\ (astray \/ (s.log \in cut /\ sub.anchor)))
            /\ Conclude(next, p.items, TerminalDecision(p), "log")
  BY DEF PollSession
<1> DEFINE s == RefreshRuntimeState(sub, guess)
           p == PollLogs(s, buffer)
           next == [s EXCEPT !.offset = NewOffset(s.log), !.anchor = p.anchor,
                             !.accepted = s.accepted \/ p.anchor,
                             !.final = p.final, !.said = p.said]
           t == TickTracker(IngestAll(StartOf, p.items, 0), 0)
           x == TerminalDecision(p)
           d == EffectiveDecision(t, x)
<1>3. /\ pending' = p.items
      /\ torn' = torn \cup TornBy(s.log, s.offset)
      /\ anchored' = (anchored \/ p.anchor)
      /\ astray' \in BOOLEAN /\ Straight(s) = ~astray'
      /\ Conclude(next, p.items, x, "log")
  BY <1>2 DEF Straight
<1>4. /\ s \in Submissions /\ s.log \in Logs /\ s.offset \in 0..Length(s.log)
      /\ s.accepted = sub.accepted
      /\ s.fallback # NoLog => HasAnchor(s.fallback, half)
  BY <1>1, WhileRunning, RefreshOk
<1>5. PollResult(s, p) BY <1>1, WhileRunning, PollFinds
<1>6. Conclude(next, p.items, x, "log") =
        IF p.items = <<>> /\ ~x.terminal THEN UNCHANGED <<tracker, job>> /\ sub' = next
        ELSE IF d.terminal
             THEN /\ job' = [status |-> d.status, reply |-> d.reply, by |-> "log"]
                  /\ tracker' = NoTime /\ sub' = StartSubmission(NoLog)
        ELSE tracker' = t /\ job' = job /\ sub' = next
  BY DEF Conclude, StartOf
<1> HIDE DEF s, p
<1>11. /\ p \in Polls
       /\ (sub.said # NoText => p.said # NoText)
          \/ (Len(p.items) >= 1 /\ p.items[1].kind = "rotate")
       /\ p.ended = "no" => AllMild(p.items, p.said)
  BY <1>5 DEF PollResult
<1>7. TrackerOk(StartOf, sub.said) BY <1>1, WhileRunning
<1>8. LogsInv /\ current \in Logs BY <1>1, WhileRunning DEF LogsInv
<1>9. CASE p.ended = "no"
  <2>1. x = Pending /\ ~x.terminal BY <1>9 DEF TerminalDecision, Pending
  <2>2. TrackerOk(t, p.said) /\ d = x BY <1>11, <1>7, <1>9, GoesOn
  <2> HIDE DEF t, x, d, next
  <2>3. job' = job /\ sub' = next /\ ((tracker' = tracker /\ p.items = <<>>) \/ tracker' = t)
    BY <1>3, <1>6, <2>1, <2>2
  <2>4. tracker' # NoTime => TrackerOk(tracker', p.said)
    <3>1. CASE tracker' = tracker /\ p.items = <<>>
      <4>1. Len(p.items) = 0 BY <3>1
      <4>2. sub.said # NoText => p.said # NoText BY <1>11, <4>1
      <4>3. tracker # NoTime => TrackerOk(tracker, sub.said) BY <1>1, WhileRunning
      <4> QED BY <3>1, <4>2, <4>3 DEF TrackerOk
    <3> QED BY <2>2, <2>3, <3>1
  <2>5. NewOffset(s.log) \in Nat /\ NewOffset(s.log) \in 0..Length(s.log)
    <3>1. Length(s.log) \in Nat BY <1>4, <1>8, WholeLines
    <3> QED BY <3>1 DEF NewOffset
  <2>6. /\ next \in Submissions /\ next.log = s.log /\ next.offset = NewOffset(s.log)
        /\ next.anchor = p.anchor /\ next.accepted = (s.accepted \/ p.anchor)
        /\ next.fallback = s.fallback /\ next.final = p.final /\ next.said = p.said
    BY <1>4, <1>11, <2>5 DEF Submissions, Polls, next
  <2>7. PICK now \in SUBSET (1..Begun(NewOffset(s.log))) :
          /\ \A i \in now : <<s.log, i>> \in torn \cup TornBy(s.log, s.offset)
          /\ Reading(Straight(s), s.log, Begun(NewOffset(s.log)), now, p.anchor, p.final, p.said)
    BY <1>5, <1>9 DEF PollResult
  <2>8. \E lost \in SUBSET (1..Begun(sub'.offset)) :
          /\ \A i \in lost : <<sub'.log, i>> \in torn'
          /\ Reading(~astray', sub'.log, Begun(sub'.offset), lost, sub'.anchor, sub'.final, sub'.said)
    BY <1>3, <2>3, <2>6, <2>7
  <2>9. AllMild(pending', sub'.said) BY <1>3, <1>11, <1>9, <2>3, <2>6
  <2>10. AllMild(replay', sub'.said)
    <3>1. replay' = <<>> BY <1>1
    <3>2. <<>> \in Seq(Items) /\ 1..Len(<<>>) = {} OBVIOUS
    <3> QED BY <3>1, <3>2 DEF AllMild
  <2>11. sub'.offset \in 0..Length(sub'.log) BY <2>3, <2>5, <2>6
  <2>12. /\ anchored' \in BOOLEAN /\ astray' \in BOOLEAN /\ (sub'.anchor => sub'.accepted)
         /\ sub'.accepted <=> anchored'
    BY <1>1, <1>3, <1>4, <1>11, <2>3, <2>6, WhileRunning DEF Polls
  <2>13. logs' = logs /\ half' = half /\ current' \in Logs BY <1>1, <1>8 DEF provider
  <2>14. /\ sub' \in Submissions /\ sub'.log \in Logs
         /\ sub'.fallback # NoLog => HasAnchor(sub'.fallback, half)
         /\ tracker' # NoTime => TrackerOk(tracker', sub'.said)
    BY <1>4, <2>3, <2>4, <2>6
  <2> QED BY <1>1, <2>3, <2>8, <2>9, <2>10, <2>11, <2>12, <2>13, <2>14, JobGoesOn
<1>10. CASE p.ended # "no"
  <2>1. p.ended \in Terminals BY <1>11, <1>10 DEF Polls
  <2>3. PICK lost \in SUBSET (1..Len(logs[s.log])), e \in 1..Len(logs[s.log]) :
          /\ \A j \in lost : <<s.log, j>> \in torn
          /\ EndsAt(p, s.log, e, lost, Straight(s))
          /\ \E items \in Seq(Items), i \in Items :
               p.items = Append(items, i) /\ AllMild(items, p.said) /\ EndItem(p, i, <<s.log, e>>)
    BY <1>5, <1>10 DEF PollResult
  <2>2. PICK items \in Seq(Items), i \in Items :
          p.items = Append(items, i) /\ AllMild(items, p.said) /\ EndItem(p, i, <<s.log, e>>)
    BY <2>3
  <2> DEFINE y == <<s.log, e>>
  <2>12. y # NoText
    <3>1. Len(logs[s.log]) \in Nat BY <1>4, <1>8, LogFacts
    <3>2. e \in Nat BY <3>1
    <3> QED BY <1>4, <3>2, CodexAssumption
  <2> HIDE DEF x
  <2>4. d.terminal /\ d.status = StatusOf(i) /\ d.reply = i.text
    <3>1. EndItem(p, i, y) /\ y # NoText /\ p.items = Append(items, i) /\ AllMild(items, p.said)
      BY <2>2, <2>12
    <3>2. (sub.said # NoText => p.said # NoText)
          \/ (Len(p.items) >= 1 /\ p.items[1].kind = "rotate")
      BY <1>11
    <3>3. p \in Polls /\ items \in Seq(Items) BY <1>11
    <3> DEFINE old == sub.said
               start == StartOf
    <3>4. /\ TrackerOk(start, old)
          /\ (old # NoText => p.said # NoText)
             \/ (Len(p.items) >= 1 /\ p.items[1].kind = "rotate")
      BY <1>7, <3>2
    <3> HIDE DEF old, start, y
    <3>5. LET c == EffectiveDecision(TickTracker(IngestAll(start, p.items, 0), 0), x)
          IN  c.terminal /\ c.status = StatusOf(i) /\ c.reply = i.text
      BY ONLY <2>1, <3>1, <3>3, <3>4, Ends, ZenonT(60)
    <3> QED BY <3>5 DEF d, t, start
  <2>5. p.items # <<>> BY <2>2
  <2> HIDE DEF d, t, x, next
  <2>6. job' = [status |-> StatusOf(i), reply |-> i.text, by |-> "log"]
        /\ sub' = StartSubmission(NoLog)
    BY <1>3, <1>6, <2>4, <2>5
  <2>7. ~astray' => job' \in Answers(s.log, lost)
    <3> SUFFICES ASSUME ~astray' PROVE job' \in Answers(s.log, lost) OBVIOUS
    <3>1. Straight(s) = TRUE BY <1>3
    <3>2. EndsAt(p, s.log, e, lost, TRUE) BY <2>3, <3>1
    <3> QED BY <1>4, <1>11, <1>8, <2>1, <2>2, <2>6, <3>2, AnswerIs
  <2>8. lost \in SUBSET {j \in 1..MaxEntries + 1 : <<s.log, j>> \in torn'}
    <3>1. /\ Len(logs[s.log]) \in Nat /\ Len(logs[s.log]) <= MaxEntries + 1
          /\ MaxEntries \in Nat
      BY <1>4, <1>8, LogFacts, CodexAssumption
    <3>2. \A j \in lost : j \in 1..MaxEntries + 1 BY <3>1
    <3> QED BY <1>3, <2>3, <3>2
  <2>9. StatusOf(i) \in Statuses /\ i.text \in Texts
    BY <2>1, <2>2 DEF StatusOf, EndItem, Items, Statuses, AbortStatus
  <2>10. anchored' \in BOOLEAN /\ astray' \in BOOLEAN BY <1>1, <1>3, <1>11, WhileRunning DEF Polls
  <2>11. logs' = logs /\ half' = half /\ current' = current BY <1>1 DEF provider
  <2> QED BY <1>4, <2>6, <2>7, <2>8, <2>9, <2>10, <2>11, JobEnds
<1> QED BY <1>9, <1>10

(* A step that only makes logs longer. *)
LEMMA LogsGrow ==
  ASSUME IInv, job = Running, LogsInv',
         UNCHANGED <<sub, pending, replay, tracker, job, torn, anchored, astray>>,
         \A l \in Logs : /\ Len(logs[l]) <= Len(logs'[l]) /\ Length(l) <= Length(l)'
                         /\ \A i \in 1..Len(logs[l]) : logs'[l][i] = logs[l][i]
  PROVE  IInv'
<1>1. /\ LogsInv /\ sub \in Submissions /\ SubInv
      /\ anchored \in BOOLEAN /\ astray \in BOOLEAN
      /\ AllMild(pending, sub.said) /\ AllMild(replay, sub.said)
      /\ tracker # NoTime => TrackerOk(tracker, sub.said)
  BY WhileRunning
<1>2. \A l \in Logs : /\ Len(logs[l]) \in Nat /\ DOMAIN logs[l] = 1..Len(logs[l])
                      /\ Len(logs'[l]) \in Nat /\ DOMAIN logs'[l] = 1..Len(logs'[l])
  BY <1>1 DEF LogsInv
<1>3. sub.fallback # NoLog => HasAnchor(sub.fallback, half)'
  <2> SUFFICES ASSUME sub.fallback # NoLog PROVE HasAnchor(sub.fallback, half)'
    OBVIOUS
  <2> DEFINE l == sub.fallback
  <2>1. l \in Logs BY <1>1 DEF Submissions
  <2>2. PICK i \in 1..Len(logs[l]) : logs[l][i] = "anchor"
    BY <1>1, <1>2, <2>1, WhileRunning DEF HasAnchor
  <2>3. i \in DOMAIN logs'[l] /\ logs'[l][i] = "anchor" BY <1>2, <2>1, <2>2
  <2>4. i \in Complete(l)' \/ l \in half' BY <2>1, <2>3 DEF Complete
  <2> QED BY <2>3, <2>4 DEF HasAnchor
<1>4. SubInv'
  <2> DEFINE l == sub.log
             b == Begun(sub.offset)
  <2>1. l \in Logs /\ sub.offset \in 0..Length(l) BY <1>1 DEF SubInv
  <2>2. /\ Length(l) \in Nat /\ Length(l)' \in Int
        /\ b \in Nat /\ b <= Len(logs[l])
    <3>1. Length(l) \in Nat /\ Length(l) <= 2 * Len(logs[l])
      <4>1. Length(l) \in Nat BY <1>1, <2>1, WholeLines
      <4>2. Length(l) = 2 * Len(logs[l]) - (IF l \in half THEN 1 ELSE 0) BY DEF Length
      <4>3. Len(logs[l]) \in Nat BY <1>2, <2>1
      <4> DEFINE c == Len(logs[l])
                 h == IF l \in half THEN 1 ELSE 0
      <4>4. h \in {0, 1} /\ c \in Nat /\ Length(l) = 2 * c - h BY <4>2, <4>3
      <4> HIDE DEF c, h
      <4>5. 2 * c - h <= 2 * c BY <4>4
      <4> QED BY <4>1, <4>4, <4>5 DEF c
    <3>2. sub.offset \in Nat /\ sub.offset <= 2 * Len(logs[l]) BY <1>2, <2>1, <3>1
    <3>3. Length(l)' \in Int BY <1>2, <2>1 DEF Length
    <3> QED BY <1>2, <2>1, <3>1, <3>2, <3>3, LineNumbers
  <2>3. sub.offset \in 0..Length(l)' BY <2>1, <2>2
  <2>4. PICK lost \in SUBSET (1..b) :
          /\ \A i \in lost : <<l, i>> \in torn
          /\ Reading(~astray, l, b, lost, sub.anchor, sub.final, sub.said)
    BY <1>1 DEF SubInv
  <2>5. \A i \in 1..b : logs'[l][i] = logs[l][i] BY <1>2, <2>1, <2>2
  <2> HIDE DEF b
  <2>6. \A ks : Seen(l, b, lost, ks)' = Seen(l, b, lost, ks)
    BY <2>5 DEF Seen, b, Begun
  <2>7. \A ks : TurnOf(l, b, lost, ks)' = TurnOf(l, b, lost, ks)
    BY <2>6 DEF TurnOf
  <2>8. Reading(~astray, l, b, lost, sub.anchor, sub.final, sub.said)'
    BY <2>4, <2>6, <2>7 DEF Reading, ScanOk, IsLast
  <2>9. lost \in SUBSET (1..b') BY <2>4 DEF b, Begun
  <2> QED BY <2>1, <2>3, <2>4, <2>8, <2>9 DEF SubInv, b
<1>5. RunningInv'
  <2>1. AllMild(pending, sub.said)' /\ AllMild(replay, sub.said)'
    BY <1>1 DEF AllMild, Mild, Items, Texts
  <2>2. (tracker # NoTime => TrackerOk(tracker, sub.said))'
    BY <1>1 DEF TrackerOk, Quiet, Trackers, Detectors, Decisions, Texts
  <2>3. anchored => sub.accepted BY WhileRunning
  <2> QED BY <1>4, <2>1, <2>2, <2>3 DEF RunningInv
<1>6. TypeOK'
  <2>1. sub.log \in Logs /\ sub.offset \in 0..Length(sub.log)' BY <1>4 DEF SubInv
  <2> QED BY <1>3, <2>1 DEF IInv, TypeOK, Texts
<1>7. DeliveredStaysDelivered' /\ AnswerMatchesLog'
  BY DEF Running, DeliveredStaysDelivered, AnswerMatchesLog
<1> QED BY <1>1, <1>5, <1>6, <1>7 DEF IInv, Submissions, Texts

LEMMA WriteRestKeeps == ASSUME IInv, WriteRest PROVE IInv'
<1>1. /\ job = Running
      /\ UNCHANGED <<logs, current, rotations, sub, pending, replay, tracker, job, torn,
                     anchored, astray, restarts>>
  BY DEF WriteRest, past
<1>2. PICK m \in half : half' = half \ {m} BY DEF WriteRest
<1>3. LogsInv /\ current \in Logs BY DEF IInv, LogsInv
<1>4. LogsInv'
  <2>1. Entries' = Entries BY <1>1 DEF Entries
  <2> QED BY <1>1, <1>2, <1>3, <2>1 DEF LogsInv
<1>5. \A l \in Logs : Len(logs[l]) \in Nat BY <1>3 DEF LogsInv
<1>6. \A l \in Logs : Length(l) <= Length(l)' BY <1>1, <1>2, <1>5 DEF Length
<1>7. \A l \in Logs : /\ Len(logs[l]) <= Len(logs'[l]) /\ Length(l) <= Length(l)'
                      /\ \A i \in 1..Len(logs[l]) : logs'[l][i] = logs[l][i]
  BY <1>1, <1>5, <1>6
<1> QED BY <1>1, <1>4, <1>7, LogsGrow

LEMMA WriteMoreKeeps == ASSUME IInv, WriteMore PROVE IInv'
<1>1. /\ job = Running
      /\ UNCHANGED <<logs, half, current, sub, pending, replay, tracker, job, torn, anchored, astray>>
  BY DEF WriteMore, past
<1>2. SubInv /\ current \in Logs BY <1>1, WhileRunning DEF LogsInv
<1> QED BY <1>1, <1>2, WhileRunning, JobGoesOn DEF SubInv

LEMMA WriteKeeps == ASSUME IInv, Write PROVE IInv'
<1>1. /\ job = Running
      /\ UNCHANGED <<current, rotations, sub, pending, replay, tracker, job, torn, anchored, astray,
                     restarts>>
  BY DEF Write, past
<1>2. PICK m \in Logs \ half, whole \in BOOLEAN :
        /\ \E k \in NextKinds(m) : logs' = [logs EXCEPT ![m] = Append(logs[m], k)]
        /\ half' = IF whole THEN half ELSE half \cup {m}
  BY DEF Write
<1>3. PICK k \in NextKinds(m) : logs' = [logs EXCEPT ![m] = Append(logs[m], k)] BY <1>2
<1> DEFINE n == Len(logs[m])
<1>4. LogsInv /\ current \in Logs BY DEF IInv, LogsInv
<1>5. k \in EntryKinds \cup {"meta"} BY <1>3, CodexAssumption DEF NextKinds
<1>6. /\ logs' \in [Logs -> Seq(EntryKinds \cup {"meta"})]
      /\ n \in Nat /\ logs[m] \in Seq(EntryKinds \cup {"meta"})
      /\ Len(logs'[m]) = n + 1 /\ \A i \in 1..n : logs'[m][i] = logs[m][i]
      /\ \A l \in Logs \ {m} : logs'[l] = logs[l]
      /\ \A l \in Logs : Len(logs[l]) \in Nat
  BY <1>3, <1>4, <1>5 DEF LogsInv
<1>7. half' \subseteq Logs /\ \A l \in half' : logs'[l] # <<>>
  <2>1. logs'[m] # <<>> BY <1>6
  <2>2. half \subseteq Logs /\ \A l \in half : logs[l] # <<>> BY <1>4 DEF LogsInv
  <2> QED BY <1>2, <1>6, <2>1, <2>2
<1>8. IsFiniteSet(Entries') /\ Cardinality(Entries') <= MaxEntries
  <2>1. \A l, i : <<l, i>> \in Entries <=> l \in Logs /\ i \in 2..Len(logs[l])
    BY DEF Entries
  <2>2. \A l, i : <<l, i>> \in Entries' <=> l \in Logs /\ i \in 2..Len(logs'[l])
    BY DEF Entries
  <2>3. /\ \A y \in Entries : \E l \in Logs, i \in Int : y = <<l, i>>
        /\ \A y \in Entries' : \E l \in Logs, i \in Int : y = <<l, i>>
    BY DEF Entries
  <2>4. IsFiniteSet(Entries) /\ Cardinality(Entries) <= MaxEntries BY <1>4 DEF LogsInv
  <2>5. CASE n = 0
    <3>1. 2..n = {} /\ 2..(n + 1) = {} BY <2>5
    <3>2. \A l \in Logs, i \in Int : <<l, i>> \in Entries' <=> <<l, i>> \in Entries
      BY <1>6, <2>1, <2>2, <3>1
    <3>3. Entries' = Entries BY <2>3, <3>2
    <3> QED BY <2>4, <3>3
  <2>6. CASE n # 0
    <3>1. logs[m] # <<>> BY <2>6
    <3>2. ~(Cardinality(Entries) >= MaxEntries) BY <1>3, <3>1 DEF NextKinds
    <3>3. \A i \in Int : i \in 2..(n + 1) <=> i \in 2..n \/ i = n + 1 BY <1>6, <2>6
    <3>4. \A l \in Logs, i \in Int :
            <<l, i>> \in Entries' <=> <<l, i>> \in Entries \/ <<l, i>> = <<m, n + 1>>
      BY <1>6, <2>1, <2>2, <3>3
    <3>5. Entries' = Entries \cup {<<m, n + 1>>}
      <4>1. m \in Logs /\ n + 1 \in Int BY <1>6
      <4> QED BY <2>3, <3>4, <4>1
    <3>6. /\ IsFiniteSet(Entries') /\ Cardinality(Entries) \in Nat
          /\ Cardinality(Entries') <= Cardinality(Entries) + 1
      <4> DEFINE E == Entries
                 F == Entries'
                 y == <<m, n + 1>>
      <4>1. IsFiniteSet(E) /\ F = E \cup {y} BY <2>4, <3>5
      <4> HIDE DEF E, F, y
      <4>2. IsFiniteSet(F)
            /\ Cardinality(F) = IF y \in E THEN Cardinality(E) ELSE Cardinality(E) + 1
        BY <4>1, FS_AddElement
      <4>3. Cardinality(E) \in Nat BY <4>1, FS_CardinalityType
      <4>4. Cardinality(F) <= Cardinality(E) + 1 BY <4>2, <4>3
      <4> QED BY <4>2, <4>3, <4>4 DEF E, F
    <3>7. MaxEntries \in Nat /\ Cardinality(Entries') \in Nat
      BY <3>6, FS_CardinalityType, CodexAssumption
    <3> QED BY <3>2, <3>6, <3>7
  <2> QED BY <2>5, <2>6
<1>9. LogsInv' BY <1>1, <1>4, <1>6, <1>7, <1>8 DEF LogsInv
<1>10. ASSUME NEW l \in Logs PROVE Length(l) <= Length(l)'
  <2>1. CASE l = m
    <3>1. m \notin half BY <1>2
    <3>2. Length(m) = 2 * n BY <3>1 DEF Length
    <3>3. Length(m)' = 2 * Len(logs'[m]) - (IF m \in half' THEN 1 ELSE 0) BY DEF Length
    <3>4. Len(logs'[m]) = n + 1 /\ n \in Nat BY <1>6
    <3> HIDE DEF n
    <3>5. Length(m) <= Length(m)' BY <3>2, <3>3, <3>4
    <3> QED BY <2>1, <3>5
  <2>2. CASE l # m
    <3>1. logs'[l] = logs[l] /\ (l \in half' <=> l \in half) BY <1>2, <1>6, <2>2
    <3> QED BY <1>6, <3>1 DEF Length
  <2> QED BY <2>1, <2>2
<1>11. \A l \in Logs : /\ Len(logs[l]) <= Len(logs'[l]) /\ Length(l) <= Length(l)'
                       /\ \A i \in 1..Len(logs[l]) : logs'[l][i] = logs[l][i]
  <2> SUFFICES ASSUME NEW l \in Logs
               PROVE  /\ Len(logs[l]) <= Len(logs'[l])
                      /\ \A i \in 1..Len(logs[l]) : logs'[l][i] = logs[l][i]
    BY <1>10
  <2>1. CASE l = m BY <1>6, <2>1
  <2>2. CASE l # m
    <3>1. logs'[l] = logs[l] BY <1>6, <2>2
    <3> QED BY <1>6, <3>1
  <2> QED BY <2>1, <2>2
<1> QED BY <1>1, <1>9, <1>11, LogsGrow

-----------------------------------------------------------------------------
(* The theorems. *)

LEMMA InitHolds == Init => IInv
<1> SUFFICES ASSUME Init PROVE IInv OBVIOUS
<1>1. /\ logs = [l \in Logs |-> <<>>] /\ half = {} /\ current \in Logs
      /\ sub = StartSubmission(current) /\ pending = <<>> /\ replay = <<>>
      /\ tracker = StartTracker("protocol_turn", 0) /\ job = Running
      /\ anchored = FALSE /\ astray = FALSE
  BY DEF Init
<1>2. LogsInv
  <2>1. <<>> \in Seq(EntryKinds \cup {"meta"}) /\ Len(<<>>) = 0 /\ 2..0 = {} OBVIOUS
  <2>2. Entries = {} BY <1>1, <2>1 DEF Entries
  <2>3. IsFiniteSet(Entries) /\ Cardinality(Entries) = 0 BY <2>2, FS_EmptySet
  <2>4. MaxEntries \in Nat BY CodexAssumption
  <2> QED BY <1>1, <2>1, <2>3, <2>4 DEF LogsInv
<1>3. NoText \in Texts BY DEF Texts
<1>4. /\ sub \in Submissions /\ sub.log = current /\ sub.offset = 0 /\ sub.fallback = NoLog
      /\ sub.anchor = FALSE /\ sub.accepted = FALSE /\ sub.final = NoText /\ sub.said = NoText
  BY <1>1, <1>3 DEF StartSubmission, Submissions
<1>5. Length(current) \in Nat BY <1>2, <1>1, WholeLines
<1>6. SubInv
  <2>1. ScanOk(current, 0, {}, FALSE, NoText, NoText) BY DEF ScanOk, TurnOf, Seen, IsLast
  <2>2. Begun(0) = 0 BY DEF Begun
  <2>3. \E lost \in SUBSET (1..Begun(sub.offset)) :
          /\ \A i \in lost : <<sub.log, i>> \in torn
          /\ Reading(~astray, sub.log, Begun(sub.offset), lost, sub.anchor, sub.final, sub.said)
    BY <1>4, <2>1, <2>2 DEF Reading
  <2> QED BY <1>1, <1>4, <1>5, <2>3 DEF SubInv
<1>7. AllMild(<<>>, sub.said)
  <2>1. <<>> \in Seq(Items) /\ 1..Len(<<>>) = {} OBVIOUS
  <2> QED BY <2>1 DEF AllMild
<1>8. TrackerOk(tracker, sub.said) BY <1>1, NewTrackerOk DEF TrackerOk
<1>9. RunningInv BY <1>1, <1>6, <1>7, <1>8 DEF RunningInv
<1>10. job.by = "none" /\ job.reply = NoText /\ job.status = "running" BY <1>1 DEF Running
<1>11. TypeOK BY <1>1, <1>3, <1>4, <1>5, <1>10 DEF TypeOK
<1>12. DeliveredStaysDelivered /\ AnswerMatchesLog
  BY <1>10 DEF DeliveredStaysDelivered, AnswerMatchesLog
<1> QED BY <1>1, <1>2, <1>4, <1>9, <1>11, <1>12 DEF IInv

LEMMA StutterKeeps == ASSUME IInv, UNCHANGED vars PROVE IInv'
<1>1. /\ logs' = logs /\ half' = half /\ current' = current /\ sub' = sub /\ torn' = torn
      /\ pending' = pending /\ replay' = replay /\ tracker' = tracker /\ job' = job
      /\ anchored' = anchored /\ astray' = astray
  BY DEF vars
<1>2. CASE job = Running
  <2>1. SubInv /\ current \in Logs BY <1>2, WhileRunning DEF LogsInv
  <2> QED BY <1>1, <1>2, <2>1, WhileRunning, JobGoesOn DEF SubInv
<1>3. CASE job # Running
  <2>1. LogsInv' BY <1>1, LogsKept DEF IInv, LogsInv
  <2>2. (job # Running)' BY <1>1, <1>3 DEF Running
  <2>3. TypeOK' BY <1>1, <1>3, LogsKept DEF IInv, TypeOK, Texts, HasAnchor, Complete, Length
  <2>4. DeliveredStaysDelivered' BY <1>1 DEF IInv, DeliveredStaysDelivered
  <2>5. AnswerMatchesLog' BY <1>1, LogsKept DEF IInv, AnswerMatchesLog
  <2> QED BY <1>1, <2>1, <2>2, <2>3, <2>4, <2>5 DEF IInv, Submissions, Texts
<1> QED BY <1>2, <1>3

LEMMA StepKeeps == IInv /\ [Next]_vars => IInv'
<1> SUFFICES ASSUME IInv, [Next]_vars PROVE IInv' OBVIOUS
<1>1. CASE DeliverReplay BY <1>1, DeliverReplayKeeps
<1>2. CASE FailDelivery BY <1>2, FailDeliveryKeeps
<1>3. CASE PollSession BY <1>3, PollSessionKeeps
<1>4. CASE PollPane BY <1>4, PollPaneKeeps
<1>5. CASE Restart BY <1>5, RestartKeeps
<1>6. CASE Write BY <1>6, WriteKeeps
<1>7. CASE WriteRest BY <1>7, WriteRestKeeps
<1>10. CASE WriteMore BY <1>10, WriteMoreKeeps
<1>8. CASE ChangeSession BY <1>8, ChangeSessionKeeps
<1>9. CASE UNCHANGED vars BY <1>9, StutterKeeps
<1> QED BY <1>1, <1>2, <1>3, <1>4, <1>5, <1>6, <1>7, <1>8, <1>9, <1>10 DEF Next, Poll

LEMMA Invariant == Spec => []IInv
BY InitHolds, StepKeeps, PTL DEF Spec

(* A log that is read instead of the current one has the anchor in it, and  *)
(* the offset of a running job is inside its log.                          *)
THEOREM TypeCorrect == Spec => []TypeOK
<1>1. IInv => TypeOK BY DEF IInv
<1> QED BY Invariant, <1>1, PTL

(* A job that its log ends has the answer that one reading of one log gives, *)
(* however the polls cut that log, unless a read of that log failed after   *)
(* the anchor (then it is read again from its start with the anchor seen).  *)
THEOREM AnswersMatch == Spec => []AnswerMatchesLog
<1>1. IInv => AnswerMatchesLog BY DEF IInv
<1> QED BY Invariant, <1>1, PTL

(* Once the anchor was reported the delivery of the prompt never fails.     *)
THEOREM DeliveredStays == Spec => []DeliveredStaysDelivered
<1>1. IInv => DeliveredStaysDelivered BY DEF IInv
<1> QED BY Invariant, <1>1, PTL
=============================================================================
