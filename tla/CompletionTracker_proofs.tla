------------------------ MODULE CompletionTracker_proofs ------------------------
(***************************************************************************)
(* Proofs about CompletionTracker, for all families, items, texts, outcomes *)
(* and bounds: an answer of the tracker is of the session the provider is   *)
(* in, a turn that ended at a boundary and is completed has a reply, and    *)
(* the anchored detector waits its window.                                 *)
(***************************************************************************)
EXTENDS CompletionTracker, TLAPS, NaturalsInduction, WellFoundedInduction

(* What the provider said in session s, and what a tracker of that session  *)
(* can hold: texts of the session, digests of texts, times up to now.      *)
Told(s) == Said(s) \cup {NoText}
Anchored  == family = "anchored_session_stability"
Turn      == family = "protocol_turn"
Decisions(s) == [terminal : BOOLEAN, status : Statuses, reply : Told(s)]
Digests   == {<<>>} \cup {<<<<x>>>> : x \in Texts}
Hashes    == Digests \cup {<<x>> : x \in Texts}
Detectors(s) ==
  [family : {family}, started : BOOLEAN, tool : BOOLEAN, hash : Hashes,
   since : {NoTime} \cup Nat, decision : Decisions(s)]
Candidates(s) == [Priorities -> Told(s)]
Trackers(s) == [detector : Detectors(s), candidates : Candidates(s), started : Nat]
Items(s) ==
  {i \in [kind : ItemKinds, text : Told(s), done : BOOLEAN,
          status : {"none", "tools", "cancelled", "failed"}] :
     /\ i.kind = "aborted" => i.status \in {"cancelled", "failed"}
     /\ i.kind = "rotate" => i.text = NoText}

(* A detector that has seen a reply has left one for the selector, and only *)
(* then calls a turn completed; the anchored one compares texts with what   *)
(* no text equals, and calls nothing completed but in a tick.              *)
Consistent(t) ==
  LET d == t.detector
  IN  /\ Turn /\ d.started => \E p \in Priorities : t.candidates[p] # NoText
      /\ Turn /\ d.decision.terminal /\ d.decision.status = "completed" => d.started
      /\ Anchored => d.hash \in Digests

(* The window of the anchored detector starts no earlier than the reply     *)
(* last changed.                                                           *)
WindowOk(t) ==
  Anchored /\ t.detector.since # NoTime => stable <= t.detector.since

TrackerInv ==
  tracker # NoTracker =>
    /\ known /\ job = Running
    /\ tracker \in Trackers(session) /\ Consistent(tracker) /\ WindowOk(tracker)
    /\ ~tracker.detector.decision.terminal

(* What a job can be, and what its answer is if the tracker gave it. *)
Deciders == {"nobody", "tracker", "adapter"}
Jobs == [status : Statuses \cup {"running"}, reply : Texts \cup {NoText},
         by : Deciders, last : ItemKinds \cup {"nothing"}]
JobInv ==
  /\ job \in Jobs
  /\ job.by = "nobody" <=> job = Running
  /\ job.by = "tracker" => job.reply \in Told(session)
  /\ CompletedTurnHasReply

IInv ==
  /\ family \in TrackedFamilies /\ known \in BOOLEAN
  /\ clock \in 0..MaxClock /\ beat \in 0..clock /\ stable \in 0..clock
  /\ session \in 1..MaxSessions
  /\ JobInv
  /\ TrackerInv

-----------------------------------------------------------------------------
(* A set of naturals that is not empty has a least element. *)
LEMMA LeastNatural ==
  ASSUME NEW T \in SUBSET Nat, T # {}
  PROVE  \E x \in T : \A y \in T : x <= y
<1> DEFINE R == OpToRel(<, Nat)
<1>1. PICK x \in T : \A y \in T : ~(<<y, x>> \in R)
  <2>1. IsWellFoundedOn(R, Nat)
    BY NatLessThanWellFounded
  <2> HIDE DEF R
  <2> QED BY <2>1, WFMin
<1>2. ASSUME NEW y \in T PROVE x <= y
  <2>1. <<y, x>> \notin R BY <1>1
  <2>2. ~(y < x) BY <2>1 DEF OpToRel
  <2> QED BY <2>2
<1> QED BY <1>2

-----------------------------------------------------------------------------
(* Texts and digests. *)

(* What is told in a session is a text. *)
LEMMA ToldIsText ==
  ASSUME NEW s \in 1..MaxSessions
  PROVE  Told(s) \subseteq Texts \cup {NoText}
BY DEF Told, Said, Texts

(* No text has the digest of another one for its own. *)
LEMMA NoDigest ==
  ASSUME NEW s \in 1..MaxSessions, NEW x \in Said(s), NEW h \in Digests
  PROVE  h # <<x>>
<1>1. SUFFICES ASSUME h = <<x>> PROVE FALSE OBVIOUS
<1>2. PICK r \in Replies[family] : x = <<s, r>> BY DEF Said
<1>3. Len(h) = 1 BY <1>1
<1>4. h # <<>> BY <1>3
<1>5. PICK y \in Texts : h = <<<<y>>>> BY <1>4 DEF Digests
<1>6. x = <<y>> BY <1>1, <1>5
<1>7. Len(x) = 2 BY <1>2
<1>8. Len(x) = 1 BY <1>6
<1> QED BY <1>7, <1>8

-----------------------------------------------------------------------------
(* One item. *)

TextSnapshot(i) == i.kind = "snapshot" /\ i.text # NoText
Counts(i) == i.kind \in ReplyKinds(family) /\ i.text # NoText

LEMMA CommonOk ==
  ASSUME NEW q, NEW d \in Detectors(q), NEW i
  PROVE  LET c == ConsumeCommonItem(d, i)
         IN  /\ c \in Detectors(q) /\ c.decision = d.decision
             /\ i.kind # "rotate" => c.started = d.started /\ c.hash = d.hash /\ c.since = d.since
             /\ i.kind = "rotate" => ~c.started /\ c.hash = <<>> /\ c.since = NoTime
<1>1. CASE i.kind = "tool_call"
  BY <1>1 DEF ConsumeCommonItem, Detectors
<1>2. CASE i.kind = "tool_result"
  BY <1>2 DEF ConsumeCommonItem, Detectors
<1>3. CASE i.kind = "rotate"
  <2>1. <<>> \in Hashes BY DEF Hashes, Digests
  <2> QED BY <1>3, <2>1 DEF ConsumeCommonItem, Detectors
<1>4. CASE i.kind \notin {"tool_call", "tool_result", "rotate"}
  BY <1>4 DEF ConsumeCommonItem, Detectors
<1> QED BY <1>1, <1>2, <1>3, <1>4

(* A reply is remembered by its digest. *)
LEMMA RecordReplyOk ==
  ASSUME NEW q, NEW d \in Detectors(q), NEW s \in 1..MaxSessions, NEW x \in Told(s)
  PROVE  LET c == RecordReply(d, x)
         IN  /\ c \in Detectors(q) /\ c.decision = d.decision /\ c.since = d.since
             /\ c.started => d.started \/ x # NoText
<1>1. CASE x = NoText BY <1>1 DEF RecordReply
<1>2. CASE x # NoText
  <2>1. x \in Texts BY <1>2, ToldIsText
  <2>2. <<x>> \in Hashes BY <2>1 DEF Hashes
  <2> QED BY <1>2, <2>2 DEF RecordReply, Fingerprint, Detectors
<1> QED BY <1>1, <1>2

(* A snapshot with a text starts the window of the detector again. *)
LEMMA SnapshotOk ==
  ASSUME NEW q, NEW d \in Detectors(q), NEW s \in 1..MaxSessions, NEW i \in Items(s),
         NEW now \in Nat
  PROVE  LET c == RecordSnapshot(d, i, now)
         IN  /\ c \in Detectors(q) /\ c.decision = d.decision
             /\ c.started => d.started \/ i.text # NoText
             /\ d.hash \in Digests =>
                  /\ c.hash \in Digests
                  /\ c.since = IF i.text # NoText THEN now ELSE d.since
<1> DEFINE b == [d EXCEPT !.tool = (i.status = "tools")]
           e == RecordReply(b, Fingerprint(i.text))
<1>1. /\ b \in Detectors(q) /\ b.decision = d.decision /\ b.started = d.started
      /\ b.hash = d.hash /\ b.since = d.since
  BY DEF Detectors
<1>2. i.text \in Told(s) BY DEF Items
<1> HIDE DEF b
<1>3. CASE i.text = NoText \/ b.hash = Fingerprint(i.text)
  <2>1. RecordSnapshot(d, i, now) = b BY <1>3 DEF RecordSnapshot, b
  <2>2. ASSUME i.text # NoText, b.hash = <<i.text>>, d.hash \in Digests PROVE FALSE
    <3>1. i.text \in Said(s) BY <1>2, <2>2 DEF Told
    <3> QED BY <1>1, <2>2, <3>1, NoDigest
  <2> QED BY <1>1, <1>3, <2>1, <2>2 DEF Fingerprint
<1>4. CASE ~(i.text = NoText \/ b.hash = Fingerprint(i.text))
  <2>1. RecordSnapshot(d, i, now) = [e EXCEPT !.since = now]
    BY <1>4 DEF RecordSnapshot, b
  <2>2. i.text \in Texts BY <1>2, <1>4, ToldIsText
  <2>3. <<<<i.text>>>> \in Digests BY <2>2 DEF Digests
  <2>4. <<<<i.text>>>> \in Hashes BY <2>3 DEF Hashes
  <2>5. /\ e \in Detectors(q) /\ e.decision = d.decision
        /\ e.hash \in {d.hash, <<<<i.text>>>>}
    BY <1>1, <2>4 DEF RecordReply, Fingerprint, Detectors
  <2> HIDE DEF e
  <2>6. LET c == [e EXCEPT !.since = now]
        IN  c \in Detectors(q) /\ c.decision = e.decision /\ c.since = now /\ c.hash = e.hash
    BY <2>5 DEF Detectors
  <2> QED BY <1>4, <2>1, <2>3, <2>5, <2>6
<1> QED BY <1>3, <1>4

LEMMA RecordOk ==
  ASSUME NEW q, NEW d \in Detectors(q), NEW s \in 1..MaxSessions, NEW i \in Items(s),
         NEW now \in Nat
  PROVE  LET c == Record(d, i, now)
         IN  /\ c \in Detectors(q) /\ c.decision = d.decision
             /\ c.started => d.started \/ Counts(i)
             /\ Anchored /\ d.hash \in Digests =>
                  /\ c.hash \in Digests
                  /\ c.since = IF TextSnapshot(i) THEN now ELSE d.since
<1>0. d.family = family BY DEF Detectors
<1>1. CASE i.kind \notin ReplyKinds(d.family)
  <2>1. Anchored => i.kind # "snapshot" BY <1>0, <1>1 DEF ReplyKinds, Anchored
  <2> QED BY <1>1, <2>1 DEF Record, TextSnapshot
<1>2. CASE i.kind \in ReplyKinds(d.family) /\ i.kind = "snapshot"
  BY <1>0, <1>2, SnapshotOk DEF Record, TextSnapshot, Counts
<1>3. CASE i.kind \in ReplyKinds(d.family) /\ i.kind # "snapshot"
  <2>1. ~Anchored BY <1>0, <1>3 DEF ReplyKinds, Anchored
  <2>2. i.text \in Told(s) BY DEF Items
  <2> QED BY <1>0, <1>3, <2>1, <2>2, RecordReplyOk DEF Record, Counts
<1> QED BY <1>1, <1>2, <1>3

(* The verdicts of an item are outcomes of a job.  The anchored detector    *)
(* has none for an answer, a turn is completed only after a reply, and its  *)
(* end always has one.                                                     *)
LEMMA VerdictOk ==
  ASSUME NEW q, NEW d \in Detectors(q), NEW s, NEW i \in Items(s)
  PROVE  LET v == Verdict(d, i)
         IN  /\ v \subseteq Statuses
             /\ v # {} => i.kind # "rotate" /\ ~(Anchored /\ i.kind = "snapshot")
             /\ Anchored => "completed" \notin v
             /\ Turn /\ "completed" \in v => d.started
             /\ Turn /\ i.kind \in {"boundary", "aborted"} => v # {}
<1>1. d.family = family /\ d.started \in BOOLEAN BY DEF Detectors
<1>2. i.kind = "aborted" => i.status \in {"cancelled", "failed"} BY DEF Items
<1> QED BY <1>1, <1>2 DEF Verdict, Statuses, Anchored, Turn

(* The decision an item leaves. *)
LEMMA IngestOk ==
  ASSUME NEW q, NEW d \in Detectors(q), NEW s \in 1..MaxSessions, NEW i \in Items(s),
         NEW now \in Nat, q = s \/ i.kind = "rotate"
  PROVE  LET c == Ingest(d, i, now)
         IN  /\ c \in Detectors(s)
             /\ c.started => (d.started /\ i.kind # "rotate") \/ Counts(i)
             /\ Anchored /\ d.hash \in Digests =>
                  /\ c.hash \in Digests
                  /\ c.since = IF TextSnapshot(i) THEN now
                               ELSE IF i.kind = "rotate" THEN NoTime ELSE d.since
             /\ Anchored /\ c.decision.terminal =>
                  c.decision.status # "completed" \/ c.decision = d.decision
             /\ Turn /\ c.decision.terminal /\ c.decision.status = "completed" => c.started
             /\ Turn /\ i.kind \in {"boundary", "aborted"} => c.decision.terminal
<1> DEFINE b == ConsumeCommonItem(d, i)
           r == Record(b, i, now)
           v == Verdict(r, i)
           reply == IF i.kind \in ReplyKinds(d.family) THEN i.text ELSE NoText
           c == Ingest(d, i, now)
<1>1. /\ b \in Detectors(q) /\ b.decision = d.decision
      /\ i.kind # "rotate" => b.started = d.started /\ b.hash = d.hash /\ b.since = d.since
      /\ i.kind = "rotate" => ~b.started /\ b.hash = <<>> /\ b.since = NoTime
  BY CommonOk
<1>2. <<>> \in Digests BY DEF Digests
<1> HIDE DEF b
<1>3. /\ r \in Detectors(q) /\ r.decision = d.decision
      /\ r.started => b.started \/ Counts(i)
      /\ Anchored /\ b.hash \in Digests =>
           r.hash \in Digests /\ r.since = IF TextSnapshot(i) THEN now ELSE b.since
  BY <1>1, RecordOk
<1> HIDE DEF r
<1>4. /\ v \subseteq Statuses
      /\ v # {} => i.kind # "rotate" /\ ~(Anchored /\ i.kind = "snapshot")
      /\ Anchored => "completed" \notin v
      /\ Turn /\ "completed" \in v => r.started
      /\ Turn /\ i.kind \in {"boundary", "aborted"} => v # {}
  BY <1>3, VerdictOk
<1> HIDE DEF v
<1>5. r.started => (d.started /\ i.kind # "rotate") \/ Counts(i) BY <1>1, <1>3
<1>6. Anchored /\ d.hash \in Digests =>
        /\ r.hash \in Digests
        /\ r.since = IF TextSnapshot(i) THEN now
                     ELSE IF i.kind = "rotate" THEN NoTime ELSE d.since
  BY <1>1, <1>2, <1>3
<1>7. i.text \in Told(s) /\ NoText \in Told(s) /\ reply \in Told(s) BY DEF Items, Told
<1> HIDE DEF reply
<1>8. CASE v # {}
  <2> DEFINE w == CHOOSE x \in v : TRUE
  <2>1. w \in v BY <1>8
  <2> HIDE DEF w
  <2>2. c = [r EXCEPT !.decision = Decided(w, reply)]
    BY <1>8 DEF Ingest, b, r, v, w, reply
  <2>3. Decided(w, reply) \in Decisions(s) BY <1>4, <1>7, <2>1 DEF Decisions, Decided
  <2>4. c \in Detectors(s) BY <1>3, <2>2, <2>3 DEF Detectors
  <2>5. /\ c.started = r.started /\ c.hash = r.hash /\ c.since = r.since
        /\ c.decision.status = w /\ c.decision.terminal
    BY <1>3, <2>2 DEF Detectors, Decided
  <2> QED BY ONLY <1>4, <1>5, <1>6, <2>1, <2>4, <2>5 DEF c
<1>9. CASE v = {} /\ Anchored /\ i.kind = "snapshot" /\ i.text = NoText
  <2>1. c = r BY <1>3, <1>9 DEF Ingest, b, r, v, Anchored, Detectors
  <2>2. q = s BY <1>9
  <2>3. ~Turn BY <1>9 DEF Anchored, Turn
  <2> QED BY ONLY <1>3, <1>5, <1>6, <1>9, <2>1, <2>2, <2>3 DEF c
<1>10. CASE v = {} /\ ~(Anchored /\ i.kind = "snapshot" /\ i.text = NoText)
  <2>1. c = [r EXCEPT !.decision = Pending]
    BY <1>3, <1>10 DEF Ingest, b, r, v, Anchored, Detectors
  <2>2. Pending \in Decisions(s) BY <1>7 DEF Decisions, Pending, Statuses
  <2>3. c \in Detectors(s) BY <1>3, <2>1, <2>2 DEF Detectors
  <2>4. /\ c.started = r.started /\ c.hash = r.hash /\ c.since = r.since
        /\ ~c.decision.terminal
    BY <1>3, <2>1 DEF Detectors, Pending
  <2> QED BY ONLY <1>4, <1>5, <1>6, <1>10, <2>3, <2>4 DEF c
<1> QED BY <1>8, <1>9, <1>10

(* A reply that counts is a candidate of the selector. *)
LEMMA CandidateOk ==
  ASSUME NEW s, NEW cs \in Candidates(s), NEW i \in Items(s)
  PROVE  LET ds == IngestCandidate(cs, i)
         IN  /\ ds \in Candidates(s)
             /\ \A p \in Priorities : cs[p] # NoText => ds[p] # NoText
             /\ Turn /\ Counts(i) => \E p \in Priorities : ds[p] # NoText
<1>1. i.text \in Told(s) BY DEF Items
<1>2. Priority(i.kind) # 0 => Priority(i.kind) \in Priorities BY DEF Priority, Priorities
<1>3. Turn /\ Counts(i) => Priority(i.kind) # 0 /\ i.text # NoText
  BY DEF Turn, Counts, ReplyKinds, Priority
<1>4. CASE i.text = NoText \/ Priority(i.kind) = 0
  BY <1>3, <1>4 DEF IngestCandidate
<1>5. CASE ~(i.text = NoText \/ Priority(i.kind) = 0)
  <2>1. IngestCandidate(cs, i) = [cs EXCEPT ![Priority(i.kind)] = i.text]
    BY <1>5 DEF IngestCandidate
  <2> HIDE DEF IngestCandidate
  <2> QED BY <1>1, <1>2, <1>5, <2>1 DEF Candidates
<1> QED BY <1>4, <1>5

(* What one item does to a tracker t that becomes u in session s. *)
Step(t, u, i, s, now) ==
  /\ u \in Trackers(s) /\ Consistent(u)
  /\ Anchored => u.detector.since = IF TextSnapshot(i) THEN now
                                    ELSE IF i.kind = "rotate" THEN NoTime
                                    ELSE t.detector.since
  /\ Anchored /\ u.detector.decision.terminal =>
       \/ u.detector.decision.status # "completed"
       \/ u.detector.decision = t.detector.decision
  /\ Turn /\ i.kind \in {"boundary", "aborted"} => u.detector.decision.terminal

LEMMA ItemOk ==
  ASSUME NEW q, NEW t \in Trackers(q), Consistent(t), NEW s \in 1..MaxSessions,
         NEW i \in Items(s), NEW now \in Nat, q = s \/ i.kind = "rotate"
  PROVE  Step(t, IngestItem(t, i, now), i, s, now)
<1> DEFINE d  == t.detector
           c  == Ingest(d, i, now)
           cs == IF i.kind = "rotate" THEN NoCandidates ELSE t.candidates
           ds == IngestCandidate(cs, i)
           u  == IngestItem(t, i, now)
<1>1. d \in Detectors(q) /\ t.candidates \in Candidates(q) BY DEF Trackers
<1>2. /\ c \in Detectors(s)
      /\ c.started => (d.started /\ i.kind # "rotate") \/ Counts(i)
      /\ Anchored /\ d.hash \in Digests =>
           /\ c.hash \in Digests
           /\ c.since = IF TextSnapshot(i) THEN now
                        ELSE IF i.kind = "rotate" THEN NoTime ELSE d.since
      /\ Anchored /\ c.decision.terminal =>
           c.decision.status # "completed" \/ c.decision = d.decision
      /\ Turn /\ c.decision.terminal /\ c.decision.status = "completed" => c.started
      /\ Turn /\ i.kind \in {"boundary", "aborted"} => c.decision.terminal
  BY <1>1, IngestOk
<1>3. cs \in Candidates(s) BY <1>1 DEF Candidates, NoCandidates, Told
<1>4. /\ ds \in Candidates(s)
      /\ \A p \in Priorities : cs[p] # NoText => ds[p] # NoText
      /\ Turn /\ Counts(i) => \E p \in Priorities : ds[p] # NoText
  BY <1>3, CandidateOk
<1>5. u = [t EXCEPT !.candidates = ds, !.detector = c] BY DEF IngestItem, Trackers
<1> HIDE DEF c, ds, u
<1>6. u \in Trackers(s) /\ u.started = t.started /\ u.detector = c /\ u.candidates = ds
  BY <1>2, <1>4, <1>5 DEF Trackers
<1>7. Turn /\ c.started => \E p \in Priorities : ds[p] # NoText
  <2>1. SUFFICES ASSUME Turn, c.started, ~Counts(i) PROVE \E p \in Priorities : ds[p] # NoText
    BY <1>4
  <2>2. d.started /\ cs = t.candidates BY <1>2, <2>1
  <2> QED BY <1>4, <2>1, <2>2 DEF Consistent
<1>8. Consistent(u) BY <1>2, <1>6, <1>7 DEF Consistent
<1>9. Anchored => d.hash \in Digests BY DEF Consistent
<1>10. u \in Trackers(s) BY <1>6
<1> QED BY ONLY <1>2, <1>6, <1>8, <1>9, <1>10 DEF Step, u

-----------------------------------------------------------------------------
(* The items of an update, one after the other. *)

IsLoop(f, t, items, now, k) ==
  f = [n \in 0..k |-> IF n = 0 THEN t ELSE IngestItem(f[n - 1], items[n], now)]

(* There is such a function, for every number of items. *)
LEMMA LoopExists ==
  ASSUME NEW t, NEW items, NEW now, NEW K \in Nat
  PROVE  \E f : IsLoop(f, t, items, now, K)
<1> DEFINE T == {k \in Nat : ~\E f : IsLoop(f, t, items, now, k)}
<1>1. SUFFICES ASSUME T # {} PROVE FALSE OBVIOUS
<1>2. T \in SUBSET Nat OBVIOUS
<1> HIDE DEF T
<1>3. PICK x \in T : \A y \in T : x <= y BY <1>1, <1>2, LeastNatural
<1>4. x \in Nat BY <1>2
<1>5. CASE x = 0
  <2> DEFINE f == [n \in 0..0 |-> t]
  <2>1. f = [n \in 0..0 |-> IF n = 0 THEN t ELSE IngestItem(f[n - 1], items[n], now)] OBVIOUS
  <2> HIDE DEF f
  <2>2. IsLoop(f, t, items, now, 0) BY <2>1 DEF IsLoop
  <2> QED BY <1>5, <2>2 DEF T
<1>6. CASE x # 0
  <2>1. x - 1 \in Nat /\ x - 1 \notin T BY <1>3, <1>4, <1>6
  <2>2. PICK f : IsLoop(f, t, items, now, x - 1) BY <2>1 DEF T
  <2> DEFINE g == [n \in 0..x |-> IF n = x THEN IngestItem(f[x - 1], items[x], now) ELSE f[n]]
  <2>3. /\ f = [n \in 0..(x - 1) |-> IF n = 0 THEN t ELSE IngestItem(f[n - 1], items[n], now)]
        /\ g = [n \in 0..x |-> g[n]]
    BY <2>2 DEF IsLoop
  <2>4. ASSUME NEW n \in 0..x
        PROVE  g[n] = IF n = 0 THEN t ELSE IngestItem(g[n - 1], items[n], now)
    <3>1. CASE n = 0
      BY <1>4, <1>6, <2>3, <3>1
    <3>2. CASE n # 0 /\ n # x
      <4>1. n \in 0..(x - 1) /\ n - 1 \in 0..x /\ n - 1 # x BY <1>4, <3>2
      <4>2. g[n] = f[n] /\ g[n - 1] = f[n - 1] BY <3>2, <4>1
      <4>3. f[n] = IngestItem(f[n - 1], items[n], now) BY <2>3, <3>2, <4>1
      <4> QED BY <3>2, <4>2, <4>3
    <3>3. CASE n = x
      <4>1. n - 1 \in 0..x /\ n - 1 # x BY <1>4, <1>6, <3>3
      <4>2. g[n] = IngestItem(f[n - 1], items[n], now) /\ g[n - 1] = f[n - 1] BY <3>3, <4>1
      <4> QED BY <1>6, <3>3, <4>2
    <3> QED BY <3>1, <3>2, <3>3
  <2>5. g = [n \in 0..x |-> IF n = 0 THEN t ELSE IngestItem(g[n - 1], items[n], now)]
    <3> HIDE DEF g
    <3> QED BY <2>3, <2>4
  <2> HIDE DEF g
  <2>6. IsLoop(g, t, items, now, x) BY <2>5 DEF IsLoop
  <2> QED BY <2>6, <1>3 DEF T
<1> QED BY <1>5, <1>6

LEMMA RoundsAre ==
  ASSUME NEW t, NEW items, NEW now, Len(items) \in Nat
  PROVE  LET f == IngestRounds(t, items, now)
         IN  /\ f[0] = t
             /\ \A n \in 1..Len(items) : f[n] = IngestItem(f[n - 1], items[n], now)
<1> DEFINE K == Len(items)
           f == IngestRounds(t, items, now)
<1>1. f = CHOOSE g : g = [n \in 0..K |->
             IF n = 0 THEN t ELSE IngestItem(g[n - 1], items[n], now)]
  BY DEF IngestRounds
<1>2. f = CHOOSE g : IsLoop(g, t, items, now, K)
  BY <1>1 DEF IsLoop
<1> HIDE DEF f, K
<1>3. K \in Nat BY DEF K
<1>4. \E g : IsLoop(g, t, items, now, K) BY <1>3, LoopExists
<1>5. IsLoop(f, t, items, now, K) BY <1>2, <1>4
<1>6. f = [n \in 0..K |-> IF n = 0 THEN t ELSE IngestItem(f[n - 1], items[n], now)]
  BY <1>5 DEF IsLoop
<1>7. f[0] = t BY <1>3, <1>6
<1>8. \A n \in 1..K : f[n] = IngestItem(f[n - 1], items[n], now) BY <1>3, <1>6
<1> QED BY <1>7, <1>8 DEF f, K

(* What a tracker u that took the first n items knows: nothing of the       *)
(* session before a change, and a window as old as the last reply.         *)
Unseen(items, n) == \A m \in 1..n : ~TextSnapshot(items[m]) /\ items[m].kind # "rotate"
After(t, u, items, n, s, now) ==
  /\ u \in Trackers(s) /\ Consistent(u)
  /\ Anchored => \/ u.detector.since \in {NoTime, now}
                 \/ u.detector.since = t.detector.since /\ Unseen(items, n)
  /\ Anchored /\ u.detector.decision.terminal => u.detector.decision.status # "completed"

LEMMA IngestAllOk ==
  ASSUME NEW q, NEW t \in Trackers(q), Consistent(t), ~t.detector.decision.terminal,
         NEW s \in 1..MaxSessions, NEW items \in Seq(Items(s)), NEW now \in Nat,
         q = s \/ (items # <<>> /\ items[1].kind = "rotate")
  PROVE  LET u == IngestAll(t, items, now)
         IN  /\ After(t, u, items, Len(items), s, now)
             /\ Turn /\ items # <<>> /\ items[Len(items)].kind \in {"boundary", "aborted"} =>
                  u.detector.decision.terminal
<1> DEFINE K == Len(items)
           f == IngestRounds(t, items, now)
           T == {n \in 1..K : ~After(t, f[n], items, n, s, now)}
<1>0. K \in Nat /\ \A n \in 1..K : items[n] \in Items(s) OBVIOUS
<1>2. f[0] = t /\ \A n \in 1..K : f[n] = IngestItem(f[n - 1], items[n], now)
  BY <1>0, RoundsAre
<1>3. IngestAll(t, items, now) = f[K] BY DEF IngestAll
<1> HIDE DEF f, K
<1>10. CASE items = <<>>
  <2>1. K = 0 /\ q = s BY <1>10 DEF K
  <2>2. IngestAll(t, items, now) = t /\ Unseen(items, K) BY <1>2, <1>3, <2>1 DEF Unseen
  <2>3. After(t, t, items, K, s, now) BY <2>1, <2>2 DEF After
  <2> QED BY <1>10, <2>2, <2>3 DEF K
<1> SUFFICES ASSUME items # <<>>
             PROVE  /\ After(t, f[K], items, K, s, now)
                    /\ Turn /\ items[K].kind \in {"boundary", "aborted"} =>
                         f[K].detector.decision.terminal
  BY <1>3, <1>10 DEF K
<1>1. K \in Nat /\ K # 0 /\ \A n \in 1..K : items[n] \in Items(s)
  BY <1>0 DEF K
(* The first item, which alone may change the session. *)
<1>4. After(t, f[1], items, 1, s, now)
  <2>1. 1 \in 1..K /\ f[1] = IngestItem(t, items[1], now) BY <1>1, <1>2
  <2>2. items[1] \in Items(s) BY <1>1, <2>1
  <2>3. Step(t, f[1], items[1], s, now) BY <2>1, <2>2, ItemOk
  <2>4. TextSnapshot(items[1]) \/ items[1].kind = "rotate" \/ Unseen(items, 1)
    BY DEF Unseen
  <2> QED BY <2>3, <2>4 DEF After, Step
<1>5. ASSUME NEW n \in 1..K, n # 1, After(t, f[n - 1], items, n - 1, s, now)
      PROVE  After(t, f[n], items, n, s, now)
  <2> DEFINE w == f[n - 1]
  <2>1. w \in Trackers(s) /\ Consistent(w) BY <1>5 DEF After
  <2>2. f[n] = IngestItem(w, items[n], now) /\ items[n] \in Items(s) BY <1>1, <1>2
  <2>3. Step(w, f[n], items[n], s, now)
    <3> HIDE DEF w
    <3> QED BY <2>1, <2>2, ItemOk
  <2>4. TextSnapshot(items[n]) \/ items[n].kind = "rotate"
        \/ (Unseen(items, n - 1) => Unseen(items, n))
    BY <1>1, <1>5 DEF Unseen
  <2> QED BY <1>5, <2>3, <2>4 DEF After, Step
<1>6. T = {}
  <2>1. SUFFICES ASSUME T # {} PROVE FALSE OBVIOUS
  <2>2. T \in SUBSET Nat BY <1>1
  <2> HIDE DEF T
  <2>3. PICK x \in T : \A y \in T : x <= y BY <2>1, <2>2, LeastNatural
  <2>4. x \in 1..K /\ ~After(t, f[x], items, x, s, now) BY <2>3 DEF T
  <2>5. x # 1 BY <1>4, <2>4
  <2>6. x - 1 \in 1..K /\ x - 1 \notin T BY <1>1, <2>3, <2>4, <2>5
  <2>7. After(t, f[x - 1], items, x - 1, s, now) BY <2>6 DEF T
  <2> QED BY <1>5, <2>4, <2>5, <2>7
<1>7. K \in 1..K /\ After(t, f[K], items, K, s, now) BY <1>1, <1>6
<1>8. ASSUME Turn, items[K].kind \in {"boundary", "aborted"}
      PROVE  f[K].detector.decision.terminal
  <2>1. f[K] = IngestItem(f[K - 1], items[K], now) /\ items[K] \in Items(s) BY <1>1, <1>2, <1>7
  <2>2. CASE K = 1
    <3>1. f[K] = IngestItem(t, items[K], now) BY <1>2, <2>1, <2>2
    <3>2. Step(t, f[K], items[K], s, now) BY <2>1, <2>2, <3>1, ItemOk
    <3> QED BY <1>8, <3>2 DEF Step
  <2>3. CASE K # 1
    <3>1. K - 1 \in 1..K BY <1>1, <2>3
    <3>2. f[K - 1] \in Trackers(s) /\ Consistent(f[K - 1]) BY <1>6, <3>1 DEF After
    <3>3. Step(f[K - 1], f[K], items[K], s, now)
      <4> DEFINE w == f[K - 1]
      <4>1. w \in Trackers(s) /\ Consistent(w) /\ f[K] = IngestItem(w, items[K], now)
        BY <2>1, <3>2
      <4> HIDE DEF w
      <4>2. Step(w, f[K], items[K], s, now) BY <2>1, <4>1, ItemOk
      <4> QED BY <4>2 DEF w
    <3> QED BY <1>8, <3>3 DEF Step
  <2> QED BY <2>2, <2>3
<1> QED BY <1>7, <1>8

(* A tick completes an anchored reply only when its window is over, and     *)
(* leaves a decision alone.                                                *)
LEMMA TickOk ==
  ASSUME NEW s \in 1..MaxSessions, NEW t \in Trackers(s), Consistent(t), NEW now \in Nat
  PROVE  LET u == TickTracker(t, now)
         IN  /\ u \in Trackers(s) /\ Consistent(u)
             /\ u.detector.since = t.detector.since
             /\ t.detector.decision.terminal => u = t
             /\ Anchored /\ u.detector.decision.terminal /\ u # t
                  /\ u.detector.decision.status = "completed" =>
                  t.detector.since # NoTime /\ now - t.detector.since >= Settle
<1> DEFINE d == t.detector
           c == TickDetector(d, now)
           e == FinalizeTimeout(c)
           u == TickTracker(t, now)
<1>1. /\ d \in Detectors(s) /\ d.family = family /\ d.decision.terminal \in BOOLEAN
      /\ d.since \in {NoTime} \cup Nat
  BY DEF Trackers, Detectors, Decisions
<1>2. NoText \in Told(s) BY DEF Told
<1>3. /\ c \in Detectors(s) /\ c.since = d.since /\ c.started = d.started /\ c.hash = d.hash
      /\ ~Anchored => c = d
      /\ d.decision.terminal => c = d
      /\ c.decision.terminal /\ c # d => d.since # NoTime /\ now - d.since >= Settle
  <2>1. CASE ~Anchored \/ d.decision.terminal \/ ~d.started \/ d.since = NoTime
    BY <1>1, <2>1 DEF TickDetector, Anchored
  <2>2. CASE ~(~Anchored \/ d.decision.terminal \/ ~d.started \/ d.since = NoTime)
    <3>1. Decided("completed", NoText) \in Decisions(s) /\ Pending \in Decisions(s)
      BY <1>2 DEF Decisions, Decided, Pending, Statuses
    <3>2. CASE ~d.tool /\ now - d.since >= Settle
      <4>1. c = [d EXCEPT !.decision = Decided("completed", NoText)]
        BY <1>1, <2>2, <3>2 DEF TickDetector, Anchored
      <4> QED BY <1>1, <2>2, <3>1, <3>2, <4>1 DEF Detectors
    <3>3. CASE ~(~d.tool /\ now - d.since >= Settle)
      <4>1. c = [d EXCEPT !.decision = Pending]
        BY <1>1, <2>2, <3>3 DEF TickDetector, Anchored
      <4>2. ~c.decision.terminal BY <1>1, <4>1 DEF Detectors, Pending
      <4> QED BY <1>1, <2>2, <3>1, <4>1, <4>2 DEF Detectors
    <3> QED BY <3>2, <3>3
  <2> QED BY <2>1, <2>2
<1> HIDE DEF c
<1>4. /\ e \in Detectors(s) /\ e.since = c.since /\ e.started = c.started /\ e.hash = c.hash
      /\ c.decision.terminal => e = c
      /\ Turn => e = c
      /\ Anchored /\ ~c.decision.terminal => e.decision.status # "completed"
  <2>1. c.family = family /\ c.decision.terminal \in BOOLEAN BY <1>3 DEF Detectors, Decisions
  <2>2. /\ Decided("completed", NoText) \in Decisions(s)
        /\ Decided("incomplete", NoText) \in Decisions(s)
    BY <1>2 DEF Decisions, Decided, Statuses
  <2>3. CASE c.decision.terminal BY <1>3, <2>3 DEF FinalizeTimeout
  <2>4. CASE ~c.decision.terminal /\ family = "terminal_text_quiet"
    <3>1. e = [c EXCEPT !.decision =
                 Decided(IF c.started THEN "completed" ELSE "incomplete", NoText)]
      BY <2>1, <2>4 DEF FinalizeTimeout
    <3> QED BY <1>3, <2>2, <2>4, <3>1 DEF Detectors, Anchored, Turn
  <2>5. CASE ~c.decision.terminal /\ Anchored
    <3>1. e = [c EXCEPT !.decision = Decided("incomplete", NoText)]
      BY <2>1, <2>5 DEF FinalizeTimeout, Anchored
    <3>2. /\ e \in Detectors(s) /\ e.since = c.since /\ e.started = c.started
          /\ e.hash = c.hash /\ e.decision = Decided("incomplete", NoText)
      BY <1>3, <2>2, <3>1 DEF Detectors
    <3> QED BY <2>5, <3>2 DEF Anchored, Turn, Decided
  <2>6. CASE ~c.decision.terminal /\ family # "terminal_text_quiet" /\ ~Anchored
    BY <1>3, <2>1, <2>6 DEF FinalizeTimeout, Anchored
  <2> QED BY <2>3, <2>4, <2>5, <2>6
<1> HIDE DEF e
<1>5. \E x \in {c, e} : /\ u = [t EXCEPT !.detector = x]
                        /\ x = e => x = c \/ ~c.decision.terminal
  BY <1>4 DEF TickTracker, c, e
<1>6. PICK x \in {c, e} : /\ u = [t EXCEPT !.detector = x]
                          /\ x = e => x = c \/ ~c.decision.terminal
  BY <1>5
<1> HIDE DEF u
<1>7. x \in Detectors(s) BY <1>3, <1>4
<1>8. u \in Trackers(s) /\ u.detector = x /\ u.candidates = t.candidates
  BY <1>6, <1>7 DEF Trackers
<1>9. x = d => u = t BY <1>6, <1>8 DEF Trackers
<1>10. Consistent(u)
  <2>1. x.started = d.started /\ x.hash = d.hash /\ (Turn => x = d)
    BY <1>3, <1>4 DEF Turn, Anchored
  <2> QED BY <1>8, <2>1 DEF Consistent
<1>11. d.decision.terminal => u = t BY <1>3, <1>4, <1>9
<1>12. ASSUME Anchored, x.decision.terminal, x # d, x.decision.status = "completed"
       PROVE  d.since # NoTime /\ now - d.since >= Settle
  BY <1>3, <1>4, <1>6, <1>12
<1> QED BY <1>3, <1>4, <1>8, <1>9, <1>10, <1>11, <1>12 DEF u

-----------------------------------------------------------------------------
(* An update. *)

(* The selector finds a reply of the session if it was left one. *)
LEMMA BestOk ==
  ASSUME NEW s, NEW cs \in Candidates(s)
  PROVE  /\ BestCandidate(cs) \in Told(s)
         /\ (\E p \in Priorities : cs[p] # NoText) => BestCandidate(cs) # NoText
<1> DEFINE ps == {p \in Priorities : cs[p] # NoText}
<1>1. CASE ps = {} BY <1>1 DEF BestCandidate, Told
<1>2. CASE ps # {}
  <2>1. ps \in SUBSET Nat BY DEF Priorities
  <2>2. \E x \in ps : \A y \in ps : x <= y BY <1>2, <2>1, LeastNatural
  <2>3. Min(ps) \in ps BY <2>2 DEF Min
  <2>4. BestCandidate(cs) = cs[Min(ps)] BY <1>2 DEF BestCandidate
  <2> HIDE DEF BestCandidate
  <2> QED BY <2>3, <2>4 DEF Candidates
<1> QED BY <1>1, <1>2

LEMMA NewTrackerOk ==
  ASSUME NEW s, NEW now \in Nat
  PROVE  LET t == StartTracker(family, now)
         IN  /\ t \in Trackers(s) /\ Consistent(t) /\ ~t.detector.decision.terminal
             /\ t.detector.since = NoTime
<1>1. Pending \in Decisions(s) /\ <<>> \in Digests /\ <<>> \in Hashes
  BY DEF Pending, Decisions, Statuses, Told, Digests, Hashes
<1>2. NoCandidates \in Candidates(s) BY DEF NoCandidates, Candidates, Told
<1>3. NewDetector(family) \in Detectors(s) BY <1>1 DEF NewDetector, Detectors
<1>4. StartTracker(family, now) \in Trackers(s) BY <1>2, <1>3 DEF StartTracker, Trackers
<1>5. Consistent(StartTracker(family, now))
  BY <1>1 DEF StartTracker, NewDetector, Consistent, Pending
<1> QED BY <1>4, <1>5 DEF StartTracker, NewDetector, Pending

LEMMA ItemsOk ==
  ASSUME NEW s
  PROVE  ProgressItems(s) \subseteq Items(s) /\ EndItems(s) \subseteq Items(s)
BY DEF ProgressItems, EndItems, ItemsOf, Items, ItemKinds, Told

LEMMA BatchOk ==
  ASSUME NEW s, NEW batch \in Batches(s)
  PROVE  batch \in Seq(Items(s))
<1>1. CASE batch = <<>> BY <1>1
<1>2. CASE \E i \in ProgressItems(s) \cup EndItems(s) : batch = <<i>>
  BY <1>2, ItemsOk
<1>3. CASE \E i \in ProgressItems(s), j \in EndItems(s) : batch = <<i, j>>
  BY <1>3, ItemsOk
<1> QED BY <1>1, <1>2, <1>3 DEF Batches

(* An adapter may decide anything. *)
LEMMA DecisionOk ==
  ASSUME NEW d \in AdapterDecisions
  PROVE  /\ d.terminal \in BOOLEAN
         /\ d.terminal => d.status \in Statuses /\ d.reply \in Texts \cup {NoText}
<1>1. CASE d = Pending BY <1>1 DEF Pending
<1>2. CASE \E st \in Outcomes, txt \in Texts \cup {NoText} : d = Decided(st, txt)
  <2>1. PICK st \in Outcomes, txt \in Texts \cup {NoText} : d = Decided(st, txt)
    BY <1>2
  <2>2. d.terminal /\ d.status = st /\ d.reply = txt /\ d.terminal \in BOOLEAN
    BY <2>1 DEF Decided
  <2> QED BY <2>1, <2>2, TrackerAssumption
<1> QED BY <1>1, <1>2 DEF AdapterDecisions

LEMMA LastKindOk ==
  ASSUME NEW s, NEW items \in Seq(Items(s))
  PROVE  /\ LastKind(items) \in ItemKinds \cup {"nothing"}
         /\ LastKind(items) \in {"boundary", "aborted"} =>
              items # <<>> /\ items[Len(items)].kind = LastKind(items)
<1>1. CASE items = <<>> BY <1>1 DEF LastKind
<1>2. CASE items # <<>>
  <2>1. items[Len(items)] \in Items(s) BY <1>2
  <2>2. LastKind(items) = items[Len(items)].kind BY <1>2 DEF LastKind, Last
  <2> QED BY <1>2, <2>1, <2>2 DEF Items
<1> QED BY <1>1, <1>2

-----------------------------------------------------------------------------
(* The invariant. *)

(* What a tracker and an answer may be depends on the family only. *)
LEMMA SameFamily ==
  ASSUME family' = family
  PROVE  /\ tracker' \in Trackers(session') /\ Consistent(tracker') =>
              (tracker \in Trackers(session) /\ Consistent(tracker))'
         /\ job'.reply \in Told(session') => (job.reply \in Told(session))'
         /\ job' \in Jobs => (job \in Jobs)'
BY DEF Trackers, Detectors, Decisions, Candidates, Hashes, Digests, Texts, Told, Said,
       Consistent, Turn, Anchored, Jobs

LEMMA RunningOk == Running \in Jobs /\ Running.by = "nobody" /\ Running.status = "running"
BY DEF Running, Jobs, Deciders

LEMMA InvInit == Init => IInv
<1> SUFFICES ASSUME Init PROVE IInv OBVIOUS
<1>1. MaxSessions \in Nat \ {0} /\ MaxClock \in Nat BY TrackerAssumption
<1>2. tracker = Tracker(0) /\ job = Running /\ known \in BOOLEAN BY DEF Init
<1>3. TrackerInv
  <2>1. CASE known BY <1>2, <2>1, NewTrackerOk DEF Tracker, TrackerInv, WindowOk
  <2>2. CASE ~known BY <1>2, <2>2 DEF Tracker, TrackerInv
  <2> QED BY <1>2, <2>1, <2>2
<1>4. JobInv BY <1>2, RunningOk DEF JobInv, CompletedTurnHasReply
<1> QED BY <1>1, <1>2, <1>3, <1>4 DEF Init, IInv

(* A job that goes on. *)
LEMMA JobGoesOn ==
  ASSUME family' = family, job' = Running
  PROVE  JobInv'
<1>1. (job \in Jobs)' BY RunningOk, SameFamily
<1> QED BY <1>1, RunningOk DEF JobInv, CompletedTurnHasReply, Running

(* A heartbeat with an update for a job that has a tracker.  The stretch in *)
(* which the reply is unchanged is never shorter than the window of the     *)
(* detector.                                                               *)
LEMMA TrackedUpdateOk ==
  ASSUME IInv, job = Running, known, NEW items, NEW d \in AdapterDecisions,
         session' \in 1..MaxSessions, items \in Seq(Items(session')),
         session' = session \/ (items # <<>> /\ items[1] = Rotate),
         HeartbeatUpdate(items, d), UNCHANGED <<family, known, clock>>
  PROVE  /\ JobInv' /\ TrackerInv'
         /\ Anchored /\ job'.by = "tracker" /\ job'.status = "completed" =>
              clock - stable' >= Settle
<1> DEFINE s == session'
           start == IF tracker = NoTracker THEN Tracker(clock) ELSE tracker
           u == IngestAll(start, items, clock)
           t == TickTracker(u, clock)
           eff == EffectiveDecision(t, d)
           by == IF t.detector.decision.terminal THEN "tracker" ELSE "adapter"
           rotated == items # <<>> /\ Head(items) = Rotate
<1>1. clock \in Nat /\ stable \in 0..clock /\ session \in 1..MaxSessions BY DEF IInv
<1>2. /\ start \in Trackers(session) /\ Consistent(start) /\ ~start.detector.decision.terminal
      /\ Anchored /\ start.detector.since # NoTime => stable <= start.detector.since
  BY <1>1, NewTrackerOk DEF IInv, TrackerInv, WindowOk, Tracker
<1> HIDE DEF start
<1>3. /\ After(start, u, items, Len(items), s, clock)
      /\ Turn /\ items # <<>> /\ items[Len(items)].kind \in {"boundary", "aborted"} =>
           u.detector.decision.terminal
  <2>1. session = s \/ (items # <<>> /\ items[1].kind = "rotate") BY DEF Rotate
  <2> HIDE DEF u
  <2> QED BY ONLY <1>1, <1>2, <2>1, s \in 1..MaxSessions, items \in Seq(Items(s)),
                  IngestAllOk DEF u
<1> HIDE DEF u
<1>4. /\ t \in Trackers(s) /\ Consistent(t) /\ t.detector.since = u.detector.since
      /\ u.detector.decision.terminal => t = u
      /\ Anchored /\ t.detector.decision.terminal /\ t # u
           /\ t.detector.decision.status = "completed" =>
           u.detector.since # NoTime /\ clock - u.detector.since >= Settle
  BY <1>1, <1>3, TickOk DEF After
<1> HIDE DEF t
<1>5. stable' \in {stable, clock} /\ stable' \in 0..clock BY <1>1 DEF HeartbeatUpdate
<1>6. Anchored /\ t.detector.since # NoTime => stable' <= t.detector.since
  <2>1. SUFFICES ASSUME Anchored, u.detector.since = start.detector.since, Unseen(items, Len(items)),
                        start.detector.since # NoTime
                 PROVE  stable' <= start.detector.since
    BY <1>1, <1>3, <1>4, <1>5 DEF After
  <2>2. Len(items) \in Nat /\ DOMAIN items = 1..Len(items)
        /\ (items # <<>> => 1 \in 1..Len(items) /\ Head(items) = items[1])
    OBVIOUS
  <2>3. ~rotated BY <2>1, <2>2 DEF Unseen, Rotate
  <2>4. Snapshots(items) = {} BY <2>1, <2>2 DEF Snapshots, Unseen, TextSnapshot
  <2>5. shown' = shown /\ stable' = stable BY <2>3, <2>4 DEF HeartbeatUpdate
  <2> QED BY <1>2, <2>1, <2>5
<1>7. /\ t.detector \in Detectors(s) /\ t.candidates \in Candidates(s)
      /\ t.detector.decision \in Decisions(s)
  BY <1>4 DEF Trackers, Detectors
<1>8. /\ t.detector.decision.terminal => eff = CurrentDecision(t) /\ eff.terminal
      /\ ~t.detector.decision.terminal => eff = d
  BY <1>7 DEF EffectiveDecision, CurrentDecision, Decisions
<1>9. IF eff.terminal THEN job' = Ended(eff, by, items) /\ tracker' = NoTracker
                      ELSE job' = job /\ tracker' = t
  BY DEF HeartbeatUpdate, WithTracker, eff, t, u, start, by
<1> HIDE DEF eff
<1>10. CASE ~eff.terminal
  <2>1. job' = Running /\ tracker' = t /\ ~t.detector.decision.terminal BY <1>8, <1>9, <1>10
  <2>2. (tracker \in Trackers(session) /\ Consistent(tracker))' BY <1>4, <2>1, SameFamily
  <2>3. TrackerInv' BY <1>6, <2>1, <2>2 DEF TrackerInv, WindowOk, Anchored, Running
  <2>4. JobInv' BY <2>1, JobGoesOn
  <2> QED BY <2>1, <2>3, <2>4, RunningOk
<1>11. CASE eff.terminal /\ ~t.detector.decision.terminal
  <2>1. /\ job' = [status |-> d.status, reply |-> d.reply, by |-> "adapter",
                   last |-> LastKind(items)]
        /\ tracker' = NoTracker /\ d.terminal
    BY <1>8, <1>9, <1>11 DEF Ended
  <2>2. d.status \in Statuses /\ d.reply \in Texts \cup {NoText} BY <2>1, DecisionOk
  <2>3. LastKind(items) \in ItemKinds \cup {"nothing"} BY LastKindOk
  <2>4. (job \in Jobs)'
    <3>1. job' \in Jobs BY <2>1, <2>2, <2>3 DEF Jobs, Deciders
    <3> QED BY <3>1, SameFamily
  <2>5. CompletedTurnHasReply'
    <3>1. SUFFICES ASSUME Turn, LastKind(items) \in {"boundary", "aborted"} PROVE FALSE
      BY <2>1 DEF CompletedTurnHasReply, Turn
    <3>2. u.detector.decision.terminal BY <1>3, <3>1, LastKindOk
    <3> QED BY <1>4, <1>11, <3>2
  <2>6. JobInv' BY <2>1, <2>4, <2>5, RunningOk DEF JobInv, Running
  <2>7. TrackerInv' BY <2>1 DEF TrackerInv
  <2> QED BY <2>1, <2>6, <2>7
<1>12. CASE t.detector.decision.terminal
  <2> DEFINE v == t.detector.decision
             best == BestCandidate(t.candidates)
  <2>1. /\ job' = [status |-> eff.status, reply |-> eff.reply, by |-> "tracker",
                   last |-> LastKind(items)]
        /\ tracker' = NoTracker
    BY <1>8, <1>9, <1>12 DEF Ended
  <2>2. eff = [v EXCEPT !.reply = IF @ = NoText THEN best ELSE @]
    BY <1>8, <1>12 DEF CurrentDecision
  <2>3. /\ best \in Told(s)
        /\ (\E p \in Priorities : t.candidates[p] # NoText) => best # NoText
    BY <1>7, BestOk
  <2> HIDE DEF best
  <2>4. /\ eff.status = v.status /\ v.status \in Statuses
        /\ eff.reply = IF v.reply = NoText THEN best ELSE v.reply
        /\ eff.reply \in Told(s)
    BY <1>7, <2>2, <2>3 DEF Decisions
  <2>5. CompletedTurnHasReply'
    <3>1. SUFFICES ASSUME Turn, v.status = "completed" PROVE eff.reply # NoText
      BY <2>1, <2>4 DEF CompletedTurnHasReply, Turn
    <3>2. best # NoText BY <1>4, <1>12, <2>3, <3>1 DEF Consistent
    <3> QED BY <2>4, <3>2
  <2>6. JobInv'
    <3>1. eff.reply \in Texts \cup {NoText} /\ LastKind(items) \in ItemKinds \cup {"nothing"}
      BY <2>4, ToldIsText, LastKindOk
    <3>2. job' \in Jobs BY <2>1, <2>4, <3>1 DEF Jobs, Deciders
    <3>3. (job \in Jobs)' /\ (job.reply \in Told(session))' BY <2>1, <2>4, <3>2, SameFamily
    <3> QED BY <2>1, <2>5, <3>3, RunningOk DEF JobInv, Running
  <2>7. TrackerInv' BY <2>1 DEF TrackerInv
  <2>8. ASSUME Anchored, v.status = "completed" PROVE clock - stable' >= Settle
    <3>1. t # u BY <1>3, <1>12, <2>8 DEF After
    <3>2. u.detector.since # NoTime /\ clock - u.detector.since >= Settle
      BY <1>4, <1>12, <2>8, <3>1
    <3>3. u.detector.since \in Nat BY <1>4, <1>7, <3>2 DEF Detectors
    <3>4. stable' <= u.detector.since BY <1>4, <1>6, <2>8, <3>2
    <3>5. stable' \in Nat /\ clock \in Nat /\ Settle \in Nat BY <1>1, <1>5, CompletionAssumption
    <3>6. \A a, b, x, w \in Nat : a - x >= w /\ b <= x => a - b >= w OBVIOUS
    <3> QED BY ONLY <3>2, <3>3, <3>4, <3>5, <3>6
  <2> QED BY <2>1, <2>4, <2>6, <2>7, <2>8
<1> QED BY <1>8, <1>10, <1>11, <1>12

(* Without a tracker the adapter decides alone. *)
LEMMA UntrackedUpdateOk ==
  ASSUME IInv, job = Running, ~known, NEW items, NEW d \in AdapterDecisions,
         items \in Seq(Items(session')),
         HeartbeatUpdate(items, d), UNCHANGED <<family, known, clock>>
  PROVE  JobInv' /\ TrackerInv' /\ job'.by # "tracker"
<1>1. /\ job' = IF d.terminal THEN Ended(d, "adapter", items) ELSE job
      /\ tracker' = tracker
  BY DEF HeartbeatUpdate, WithoutTracker
<1>2. TrackerInv' BY <1>1 DEF IInv, TrackerInv
<1>3. CASE ~d.terminal
  <2>1. job' = Running BY <1>1, <1>3
  <2> QED BY <1>2, <2>1, JobGoesOn, RunningOk
<1>4. CASE d.terminal
  <2>1. job' = [status |-> d.status, reply |-> d.reply, by |-> "adapter",
                last |-> LastKind(items)]
    BY <1>1, <1>4 DEF Ended
  <2>2. job' \in Jobs BY <1>4, <2>1, DecisionOk, LastKindOk DEF Jobs, Deciders
  <2>3. (job \in Jobs)' BY <2>2, SameFamily
  <2> QED BY <1>2, <2>1, <2>3, RunningOk DEF JobInv, CompletedTurnHasReply, Running
<1> QED BY <1>3, <1>4, DecisionOk

LEMMA UpdateOk ==
  ASSUME IInv, job = Running, NEW items, NEW d \in AdapterDecisions,
         session' \in 1..MaxSessions, items \in Seq(Items(session')),
         session' = session \/ (items # <<>> /\ items[1] = Rotate),
         HeartbeatUpdate(items, d), UNCHANGED <<family, known, clock>>
  PROVE  /\ IInv'
         /\ Anchored /\ job'.by = "tracker" /\ job'.status = "completed" =>
              clock - stable' >= Settle
<1>1. JobInv' /\ TrackerInv'
      /\ (Anchored /\ job'.by = "tracker" /\ job'.status = "completed" =>
            clock - stable' >= Settle)
  <2>1. CASE known BY <2>1, TrackedUpdateOk
  <2>2. CASE ~known BY <2>2, UntrackedUpdateOk
  <2> QED BY <2>1, <2>2
<1>2. clock \in 0..MaxClock /\ clock \in Nat /\ stable \in 0..clock BY TrackerAssumption DEF IInv
<1>3. beat' = clock /\ stable' \in {stable, clock} BY DEF HeartbeatUpdate
<1>4. beat' \in 0..clock' /\ stable' \in 0..clock' BY <1>2, <1>3
<1> QED BY <1>1, <1>2, <1>4 DEF IInv

(* No restart or pass of time breaks the invariant. *)
LEMMA OtherOk ==
  ASSUME IInv, HeartbeatIdle \/ Pass \/ Restart \/ UNCHANGED vars
  PROVE  IInv' /\ job' = job
<1>1. /\ UNCHANGED <<family, known, job, session>> /\ tracker' \in {tracker, NoTracker}
      /\ tracker' # NoTracker => stable' = stable
  BY DEF HeartbeatIdle, Pass, Restart, vars
<1>2. clock' \in 0..MaxClock /\ beat' \in 0..clock' /\ stable' \in 0..clock'
  BY TrackerAssumption DEF IInv, HeartbeatIdle, Pass, Restart, vars
<1>3. TrackerInv'
  <2>1. SUFFICES ASSUME tracker' # NoTracker PROVE TrackerInv' BY DEF TrackerInv
  <2>2. tracker' = tracker /\ tracker # NoTracker /\ stable' = stable BY <1>1, <2>1
  <2>3. (tracker \in Trackers(session) /\ Consistent(tracker))'
    BY <1>1, <2>2, SameFamily DEF IInv, TrackerInv
  <2> QED BY <1>1, <2>2, <2>3 DEF IInv, TrackerInv, WindowOk, Anchored, Running
<1>4. JobInv'
  <2>1. (job \in Jobs)' BY <1>1, SameFamily DEF IInv, JobInv
  <2>2. job.by = "tracker" => (job.reply \in Told(session))' BY <1>1, SameFamily DEF IInv, JobInv
  <2>3. CompletedTurnHasReply' BY <1>1 DEF IInv, JobInv, CompletedTurnHasReply
  <2> QED BY <1>1, <2>1, <2>2, <2>3 DEF IInv, JobInv, Running
<1> QED BY <1>1, <1>2, <1>3, <1>4 DEF IInv

LEMMA StepOk ==
  ASSUME IInv, [Next]_vars
  PROVE  /\ IInv'
         /\ Anchored /\ CompletesByTracker => clock - stable' >= Settle
<1>1. session \in 1..MaxSessions /\ MaxSessions \in Nat BY TrackerAssumption DEF IInv
<1>3. CASE Update
  <2>1. PICK batch \in Batches(session), d \in AdapterDecisions : HeartbeatUpdate(batch, d)
    BY <1>3 DEF Update
  <2>2. session' = session /\ UNCHANGED <<family, known, clock>> /\ job = Running
    BY <1>3 DEF Update
  <2>3. batch \in Seq(Items(session)) BY BatchOk
  <2> QED BY <1>1, <2>1, <2>2, <2>3, UpdateOk DEF CompletesByTracker
<1>4. CASE UpdateAfterRotation
  <2>1. PICK batch \in Batches(session'), d \in AdapterDecisions :
          HeartbeatUpdate(<<Rotate>> \o batch, d)
    BY <1>4 DEF UpdateAfterRotation
  <2>2. session' \in 1..MaxSessions /\ UNCHANGED <<family, known, clock>> /\ job = Running
    BY <1>1, <1>4 DEF UpdateAfterRotation
  <2>3. batch \in Seq(Items(session')) BY BatchOk
  <2> DEFINE items == <<Rotate>> \o batch
  <2>4. Rotate \in Items(session') BY DEF Rotate, Items, ItemKinds, Told
  <2>5. items \in Seq(Items(session')) /\ items # <<>> /\ items[1] = Rotate BY <2>3, <2>4
  <2>6. HeartbeatUpdate(items, d) BY <2>1
  <2> HIDE DEF items
  <2> QED BY <2>2, <2>5, <2>6, UpdateOk DEF CompletesByTracker
<1>5. CASE HeartbeatIdle \/ Pass \/ Restart \/ UNCHANGED vars
  BY <1>5, OtherOk DEF CompletesByTracker
<1> QED BY <1>3, <1>4, <1>5 DEF Next

LEMMA InvHolds == Spec => []IInv
<1>1. IInv /\ [Next]_vars => IInv' BY StepOk
<1> QED BY <1>1, InvInit, PTL DEF Spec

-----------------------------------------------------------------------------
(* The theorems. *)

(* Job and tracker keep their types, and a tracker that decided is gone     *)
(* with its job.                                                           *)
THEOREM TypeCorrect == Spec => []TypeOK
<1>1. IInv => TypeOK
  BY DEF IInv, TypeOK, TrackerInv, JobInv, Jobs, Deciders
<1> QED BY <1>1, InvHolds, PTL

(* No turn that ended at a boundary is called completed without a reply,    *)
(* whatever the adapter decided with it.                                   *)
THEOREM CompletedHasReply == Spec => []CompletedTurnHasReply
<1>1. IInv => CompletedTurnHasReply BY DEF IInv, JobInv
<1> QED BY <1>1, InvHolds, PTL

(* No answer of the tracker is of a session the provider has left, or from  *)
(* before the tracker was lost.                                            *)
THEOREM AnswerOfSession == Spec => []AnswerIsOfThisSession
<1>1. IInv => AnswerIsOfThisSession
  <2> SUFFICES ASSUME IInv, job.by = "tracker", job.reply # NoText
               PROVE job.reply[1] = session
    BY DEF AnswerIsOfThisSession
  <2>1. job.reply \in Said(session) BY DEF IInv, JobInv, Told
  <2> QED BY <2>1 DEF Said
<1> QED BY <1>1, InvHolds, PTL

(* The anchored detector completes no job whose reply changed within the    *)
(* settle window.                                                          *)
THEOREM SettledStable == Spec => SettledMeansStable
<1>1. IInv /\ [Next]_vars =>
        [family = "anchored_session_stability" /\ CompletesByTracker
           => clock - stable' >= Settle]_vars
  BY StepOk DEF Anchored
<1> QED BY <1>1, InvHolds, PTL DEF Spec, SettledMeansStable
=============================================================================
