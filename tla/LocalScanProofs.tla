---------------------------- MODULE LocalScanProofs ----------------------------
(* What a scan's result says, for any files, any deployment and any replies,  *)
(* however many scans share the process: its findings are findings, a clean   *)
(* result was judged in full, and every verdict is accounted for.             *)
EXTENDS LocalScan, TLAPS, FiniteSetTheorems, WellFoundedInduction

----------------------------------------------------------------------------
(* Positions.  A set of naturals has a least element, so that a set of      *)
(* positions has an n-th.                                                   *)

LEMMA Least ==
  ASSUME NEW T \in SUBSET Nat, T # {}
  PROVE  \E x \in T : \A y \in T : x <= y
<1> DEFINE R == OpToRel(<, Nat)
<1>1. IsWellFoundedOn(R, Nat)
  BY NatLessThanWellFounded
<1>2. \A x, y \in Nat : <<x, y>> \in R <=> x < y
  BY DEF OpToRel
<1> HIDE DEF R
<1>3. PICK x \in T : \A y \in T : ~(<<y, x>> \in R)
  BY <1>1, WFMin
<1>4. \A y \in T : x <= y
  <2> SUFFICES ASSUME NEW y \in T PROVE x <= y
    OBVIOUS
  <2>1. x \in Nat /\ y \in Nat /\ ~(y < x)
    BY <1>2, <1>3
  <2>2. QED
    BY <2>1
<1>5. QED
  BY <1>4

LEMMA Greatest ==
  ASSUME NEW m \in Nat, NEW T \in SUBSET (1..m), T # {}
  PROVE  \E x \in T : \A y \in T : y <= x
<1> DEFINE U == {b \in Nat : \A y \in T : y <= b}
<1>1. m \in U
  OBVIOUS
<1>2. PICK b \in U : \A c \in U : b <= c
  BY <1>1, Least
<1>3. b \in T
  <2> SUFFICES ASSUME b \notin T PROVE FALSE
    OBVIOUS
  <2>1. PICK y \in T : TRUE
    OBVIOUS
  <2>2. \A z \in T : z \in Nat /\ z >= 1 /\ z <= b /\ z # b
    OBVIOUS
  <2>3. b - 1 \in U
    BY <2>1, <2>2
  <2>4. QED
    BY <1>2, <2>3
<1>4. QED
  BY <1>3

(* How many positions of a set lie at or before i.                          *)
UpTo(S, i) == {j \in S : j <= i}

LEMMA UpToIs ==
  ASSUME NEW m \in Nat, NEW S \in SUBSET (1..m), NEW i \in Nat
  PROVE  /\ IsFiniteSet(S) /\ Cardinality(S) \in Nat
         /\ IsFiniteSet(UpTo(S, i)) /\ Cardinality(UpTo(S, i)) \in Nat
<1>1. IsFiniteSet(1..m)
  BY FS_Interval
<1>2. IsFiniteSet(S) /\ IsFiniteSet(UpTo(S, i))
  BY <1>1, FS_Subset DEF UpTo
<1>3. QED
  BY <1>2, FS_CardinalityType

LEMMA DomainIs ==
  ASSUME NEW S, NEW seq \in Seq(S)
  PROVE  DOMAIN seq = 1..Len(seq) /\ Len(seq) \in Nat /\ \A i \in 1..Len(seq) : seq[i] \in S
  OBVIOUS

LEMMA NthIsThere ==
  ASSUME NEW m \in Nat, NEW S \in SUBSET (1..m), NEW n \in 1..Cardinality(S)
  PROVE  Nth(S, n) \in S
<1> DEFINE T == {i \in S : Cardinality(UpTo(S, i)) >= n}
<1>0. \A j \in S : j \in Nat
  OBVIOUS
<1>1. Cardinality(S) \in Nat /\ IsFiniteSet(S)
  BY UpToIs
<1>2. S # {}
  BY <1>1, FS_EmptySet
<1>3. PICK top \in S : \A j \in S : j <= top
  BY <1>2, Greatest
<1>4. UpTo(S, top) = S
  BY <1>3 DEF UpTo
<1>5. top \in T
  BY <1>1, <1>4
<1>6. T \in SUBSET S /\ T \in SUBSET Nat /\ T # {} /\ (\A i \in S : i \in T <=> Cardinality(UpTo(S, i)) >= n)
  BY <1>0, <1>5
<1> HIDE DEF T
<1>7. PICK i \in T : \A j \in T : i <= j
  BY <1>6, Least
<1> DEFINE before == UpTo(S, i - 1)
<1>8. UpTo(S, i) = before \cup {i} /\ i \notin before
  <2>1. i \in S /\ i \in Nat
    BY <1>6
  <2>2. \A j \in S : j <= i <=> j <= i - 1 \/ j = i
    BY <1>0, <2>1
  <2>3. ~(i <= i - 1)
    BY <2>1
  <2>4. UpTo(S, i) = before \cup {i}
    BY <2>1, <2>2, Zenon DEF UpTo
  <2>5. i \notin before
    BY <2>3, Zenon DEF UpTo
  <2>6. QED
    BY <2>4, <2>5
<1>9. /\ IsFiniteSet(before) /\ Cardinality(before) \in Nat
      /\ Cardinality(UpTo(S, i)) = Cardinality(before) + 1
  <2>1. i - 1 \in Nat
    BY <1>6
  <2>2. IsFiniteSet(before) /\ Cardinality(before) \in Nat
    BY <2>1, UpToIs
  <2>3. Cardinality(before \cup {i}) = Cardinality(before) + 1
    BY <1>8, <2>2, FS_AddElement
  <2>4. QED
    BY <1>8, <2>2, <2>3
<1>10. Cardinality(before) < n
  <2>1. CASE before = {}
    BY <2>1, FS_EmptySet
  <2>2. CASE before # {}
    <3>1. before \in SUBSET (1..m)
      BY DEF UpTo
    <3>2. PICK k \in before : \A j \in before : j <= k
      BY <2>2, <3>1, Greatest
    <3>3. k \in S /\ k \in Nat /\ i \in Nat /\ k <= i - 1
      BY <1>6 DEF UpTo
    <3>4. UpTo(S, k) = before
      <4>1. \A j \in S : j <= k => j <= i - 1
        BY <1>0, <3>3
      <4>2. \A j \in S : j <= i - 1 => j <= k
        BY <3>2 DEF UpTo
      <4>3. QED
        BY <4>1, <4>2 DEF UpTo
    <3>5. k \notin T
      BY <1>7, <3>3
    <3>6. ~(Cardinality(before) >= n)
      BY <1>6, <3>3, <3>4, <3>5
    <3>7. QED
      BY <1>9, <3>6
  <2>3. QED
    BY <2>1, <2>2
<1>11. Cardinality(UpTo(S, i)) = n
  <2>1. Cardinality(UpTo(S, i)) >= n
    BY <1>6, <1>7
  <2>2. QED
    BY <1>9, <1>10, <2>1
<1>12. QED
  BY <1>6, <1>11 DEF Nth, UpTo

----------------------------------------------------------------------------
(* What a detector reads *)

(* A content is a sequence, as far as it is used: positions from 1 on, with *)
(* a line of the file at each.                                              *)
LinesOf(c) == /\ DOMAIN c \subseteq Nat \ {0}
              /\ \A i \in DOMAIN c : c[i].line \in Nat

LEMMA NewLineIs ==
  ASSUME NEW hunk, NEW i \in Nat
  PROVE  NewLine(hunk, i) \in Nat
<1> DEFINE kept == {j \in 1..(i - 1) : hunk[j].sign # "-"}
<1>1. IsFiniteSet(1..(i - 1)) /\ kept \in SUBSET (1..(i - 1))
  BY FS_Interval
<1>2. Cardinality(kept) \in Nat
  BY <1>1, FS_Subset, FS_CardinalityType
<1>3. QED
  BY <1>2 DEF NewLine

LEMMA EntriesAre ==
  ASSUME NEW hunk, NEW m \in Nat, DOMAIN hunk = 1..m, NEW signs
  PROVE  LinesOf(Entries(hunk, signs))
<1> DEFINE chosen == {i \in DOMAIN hunk : hunk[i].sign \in signs}
           line(n) == NewLine(hunk, Nth(chosen, n))
           marks(n) == hunk[Nth(chosen, n)].marks
<1>1. chosen \in SUBSET (1..m) /\ Cardinality(chosen) \in Nat
  BY UpToIs
<1>2. Entries(hunk, signs) = [n \in 1..Cardinality(chosen) |-> [line |-> line(n), marks |-> marks(n)]]
  BY DEF Entries
<1>3. \A n \in 1..Cardinality(chosen) : line(n) \in Nat
  <2> SUFFICES ASSUME NEW n \in 1..Cardinality(chosen) PROVE line(n) \in Nat
    OBVIOUS
  <2>1. Nth(chosen, n) \in chosen
    BY <1>1, NthIsThere
  <2>2. Nth(chosen, n) \in Nat
    BY <2>1
  <2>3. QED
    BY <2>2, NewLineIs
<1> HIDE DEF chosen, line, marks
<1>4. QED
  BY <1>1, <1>2, <1>3 DEF LinesOf

LEMMA ContentsAre ==
  ASSUME NEW f \in File, NEW x \in Fetches
  PROVE  ContentOf[f][x] = FileInput(Facts[f].hunk, x) /\ LinesOf(ContentOf[f][x])
<1> DEFINE hunk == Facts[f].hunk
<1>1. ContentOf[f][x] = FileInput(hunk, x)
  BY DEF ContentOf
<1>2. hunk \in Seq([sign : {"+", "-", " "}, marks : SUBSET STRING])
  BY ScanWorkAssumption
<1> HIDE DEF hunk
<1>3. DOMAIN hunk = 1..Len(hunk) /\ Len(hunk) \in Nat
  BY <1>2, DomainIs, Zenon
<1>4. LinesOf(WholeFile(hunk)) /\ LinesOf(ParsedDiff(hunk))
  BY <1>3, EntriesAre DEF WholeFile, ParsedDiff
<1>5. LinesOf(<<>>)
  BY DEF LinesOf
<1>6. QED
  BY <1>1, <1>4, <1>5 DEF FileInput, hunk

(* Everything that a reading names is a position of the content.            *)
LEMMA ReadingIsWithin ==
  ASSUME NEW d \in DetectorIds, NEW file, NEW c, NEW env
  PROVE  LET r == ReadingOf(d, file, c, env) IN
           r.certain \subseteq DOMAIN c /\ r.asked \subseteq DOMAIN c /\ r.named \subseteq DOMAIN c
<1>1. AdminReading(file, c, env).certain \subseteq DOMAIN c
  BY DEF AdminReading, AdminTriggers, Reading, Hits, Earliest, NamedRoutes
<1>2. QED
  BY <1>1 DEF ReadingOf, Reading, AdminReading, AdminTriggers, AuthReading, AuthTriggers, SecretsReading,
     SecretsTriggers, WebhookReading, WebhookTriggers, EnvReading, IdorReading, SinkSites, Hits, Earliest,
     NamedRoutes, DetectorIds

----------------------------------------------------------------------------
(* What it may be told, and what it makes of it *)

(* The detectors' tables, by what they tabulate.                            *)
LEMMA TablesAre ==
  ASSUME NEW d \in DetectorIds, NEW f \in File, NEW x \in Fetches, NEW c \in Configs
  PROVE  /\ Readings[d][f][x][c] = ReadingOf(d, Facts[f], ContentOf[f][x], c)
         /\ Answers[d][f][x][c] = AnswersTo(d, Readings[d][f][x][c], c)
  BY DEF Readings, Answers

(* A reply has verdicts on sites it was asked about, and a verdict names    *)
(* one of the routes it was shown, or none.                                 *)
LEMMA RepliesAre ==
  ASSUME NEW d \in DetectorIds, NEW reading, NEW r \in Replies(d, reading)
  PROVE  \A i \in DOMAIN r.verdict :
           i \in reading.asked /\ r.verdict[i].route \in {0} \cup reading.named
<1>1. CASE r = Failed
  BY <1>1 DEF Failed
<1>2. CASE r # Failed
  <2>0. PICK S \in SUBSET reading.asked :
          \E v \in [S -> Verdicts(d, reading)] : r = [ok |-> TRUE, verdict |-> v]
    BY <1>2 DEF Replies
  <2>1. PICK v \in [S -> Verdicts(d, reading)] : r = [ok |-> TRUE, verdict |-> v]
    BY <2>0
  <2>2. \A u \in Verdicts(d, reading) : u.route \in {0} \cup reading.named
    BY DEF Verdicts, Plain, AdminVerdicts, AuthVerdicts, IdorVerdicts, EnvVerdicts, SecretsVerdicts,
       WebhookVerdicts, DetectorIds
  <2>3. r.verdict = v
    BY <2>1
  <2>4. QED
    BY <2>1, <2>2, <2>3
<1>3. QED
  BY <1>1, <1>2

LEMMA AnswersAre ==
  ASSUME NEW d \in DetectorIds, NEW reading, NEW c, NEW a \in AnswersTo(d, reading, c)
  PROVE  a.reply \in Replies(d, reading)
<1>1. PICK r \in Replies(d, reading) : \E o : a = [reply |-> r, opinion |-> o]
  BY DEF AnswersTo
<1>2. QED
  BY <1>1

FindingRecord == [det : DetectorIds, file : File, line : Nat, conf : {"medium", "high"}]

(* What a detector finds in a file, whatever it is told of it.              *)
LEMMA FindingsAre ==
  ASSUME NEW d \in DetectorIds, NEW f \in File, NEW c, LinesOf(c), NEW env, NEW a,
         LET reading == ReadingOf(d, Facts[f], c, env)
         IN  a = NoAnswer \/ a \in AnswersTo(d, reading, env)
  PROVE  Findings(d, f, c, ReadingOf(d, Facts[f], c, env), a) \subseteq FindingRecord
<1> DEFINE reading == ReadingOf(d, Facts[f], c, env)
           v == a.reply.verdict
<1>1. reading.certain \subseteq DOMAIN c /\ reading.asked \subseteq DOMAIN c /\ reading.named \subseteq DOMAIN c
  BY ReadingIsWithin
<1>2. \A i \in DOMAIN v : i \in reading.asked /\ v[i].route \in {0} \cup reading.named
  <2>1. CASE a = NoAnswer
    BY <2>1 DEF NoAnswer, Failed
  <2>2. CASE a \in AnswersTo(d, reading, env)
    BY <2>2, AnswersAre, RepliesAre
  <2>3. QED
    BY <2>1, <2>2
<1> HIDE DEF reading
<1>3. \A i \in DOMAIN c : LineOf(c, i) \in Nat
  BY DEF LinesOf, LineOf
<1>4. \A i \in DOMAIN v : Anchor(v[i], i) \in DOMAIN c
  BY <1>1, <1>2 DEF Anchor
<1>5. \A i \in DOMAIN v : LineOf(c, Anchor(v[i], i)) \in Nat
  BY <1>3, <1>4
<1>6. \A line \in Nat, conf \in {"medium", "high"} : Finding(d, f, line, conf) \in FindingRecord
  BY DEF Finding, FindingRecord
<1>7. \A i \in DOMAIN v : Confidence(v[i], a.opinion[i]) \in {"medium", "high"}
  BY DEF Confidence
<1> HIDE DEF v
<1>8. {Finding(d, f, LineOf(c, i), "high") : i \in reading.certain} \subseteq FindingRecord
  BY <1>1, <1>3, <1>6
<1>9. {Finding(d, f, LineOf(c, Anchor(v[i], i)), Confidence(v[i], a.opinion[i])) :
         i \in {s \in DOMAIN v : Stands(d, reading, v[s], a.opinion[s])}} \subseteq FindingRecord
  BY <1>5, <1>6, <1>7
<1>10. QED
  BY <1>8, <1>9 DEF Findings, reading, v

(* What is owed for an answer is found.                                     *)
LEMMA OwedIsFound ==
  ASSUME NEW d, NEW f, NEW c, NEW reading, NEW a
  PROVE  Owed(d, f, c, reading, a) \subseteq Findings(d, f, c, reading, a)
<1> SUFFICES ASSUME NEW x \in Owed(d, f, c, reading, a) PROVE x \in Findings(d, f, c, reading, a)
  OBVIOUS
<1> DEFINE v == a.reply.verdict
           Line(i) == c[IF v[i].route = 0 THEN i ELSE v[i].route].line
           Conf(i) == IF "high" = v[i].conf \/ a.opinion[i] = "promote_to_high" THEN "high" ELSE "medium"
<1>1. PICK i \in DOMAIN v :
        /\ v[i].conf \in {"medium", "high"} /\ a.opinion[i] # "clear" /\ OwnLane(d, reading, v[i])
        /\ x = Finding(d, f, Line(i), Conf(i))
  BY DEF Owed
<1>2. Line(i) = LineOf(c, Anchor(v[i], i))
  BY DEF LineOf, Anchor
<1>3. Conf(i) = Confidence(v[i], a.opinion[i])
  BY DEF Confidence, Resolved
<1>4. LaneOf(d, reading, v[i]) = d
  BY <1>1 DEF OwnLane, LaneOf, IdorLane, AuthLane
<1>5. Stands(d, reading, v[i], a.opinion[i])
  BY <1>1, <1>4 DEF Stands, Resolved
<1> HIDE DEF v, Line, Conf
<1>6. QED
  BY <1>1, <1>2, <1>3, <1>5 DEF Findings, v

(* A layout that could not be read changes a route's guards only when it    *)
(* was one of its candidates (resolveRouteGuardSidecars).                   *)
LEMMA GuardsStand ==
  ASSUME NEW route, NEW faults, ~GuardUnresolved(route, faults)
  PROVE  GuardsFetched(route, faults) = GuardsOnDisk(route, {})
<1> DEFINE read == OnDisk(route) \ faults
<1>1. \A g \in Candidates(route) : g \in read <=> g \in OnDisk(route)
  BY DEF GuardUnresolved
<1>2. \A g \in Candidates(route) : \A r \in 1..(g[2] - 1) : <<g[1], r>> \in Candidates(route)
  BY DEF Candidates
<1> HIDE DEF read
<1>3. \A g \in Candidates(route) :
        (\A r \in 1..(g[2] - 1) : <<g[1], r>> \notin read)
          <=> (\A r \in 1..(g[2] - 1) : <<g[1], r>> \notin OnDisk(route))
  BY <1>1, <1>2
<1>4. \A g : g \in Guards(route, read, read) <=> g \in Guards(route, OnDisk(route), OnDisk(route))
  BY <1>1, <1>3 DEF Guards
<1>5. Guards(route, read, read) = Guards(route, OnDisk(route), OnDisk(route))
  BY <1>4 DEF Guards
<1>6. OnDisk(route) \ {} = OnDisk(route)
  OBVIOUS
<1>7. QED
  BY <1>5, <1>6 DEF GuardsFetched, GuardsOnDisk, read

\* What the command line cannot read it passes over: no other layout takes
\* its place (resolveRemixRouteGuard).
LEMMA NoneReplaced ==
  ASSUME NEW route, NEW unreadable
  PROVE  GuardsOnDisk(route, unreadable) \subseteq GuardsOnDisk(route, {})
<1>1. OnDisk(route) \ unreadable \subseteq OnDisk(route) \ {}
  OBVIOUS
<1>2. QED
  BY <1>1 DEF GuardsOnDisk, Guards

----------------------------------------------------------------------------
(* The scans of a server *)

\* A scan that is at work is a record of these fields and no others.
LEMMA Scanning ==
  ASSUME NEW w, InWork(w)
  PROVE  /\ w.stage = "detecting" /\ w # Idle /\ w # [stage |-> "done"]
         /\ \A v : [w EXCEPT !.answers = v] =
                   [stage |-> "detecting", files |-> w.files, fetched |-> w.fetched, faults |-> w.faults,
                    settings |-> w.settings, mark |-> w.mark, answers |-> v, thrown |-> w.thrown]
         /\ \A v : [w EXCEPT !.thrown = v] =
                   [stage |-> "detecting", files |-> w.files, fetched |-> w.fetched, faults |-> w.faults,
                    settings |-> w.settings, mark |-> w.mark, answers |-> w.answers, thrown |-> v]
<1> DEFINE r == [stage |-> "detecting", files |-> w.files, fetched |-> w.fetched, faults |-> w.faults,
                 settings |-> w.settings, mark |-> w.mark, answers |-> w.answers, thrown |-> w.thrown]
<1>1. w = r
  BY DEF InWork
<1>2. w.stage = "detecting"
  BY <1>1
<1>3. w # Idle /\ w # [stage |-> "done"]
  BY <1>2 DEF Idle
<1>4. QED
  BY <1>1, <1>2, <1>3

\* The files of a scan and what it reads of them.
LEMMA FilesAre ==
  ASSUME NEW w, Answered(w), NEW k \in Parts(w.files)
  PROVE  k \in DOMAIN w.files /\ w.files[k] \in File /\ w.fetched[k] \in Fetches
<1>1. k \in DOMAIN w.files
  BY DEF Parts
<1>2. QED
  BY <1>1 DEF Answered

LEMMA FoundIsTyped ==
  ASSUME NEW w, Answered(w), config \in Configs, NEW d \in DetectorIds, NEW k \in Parts(w.files)
  PROVE  FindingsIn(w, d, k) \subseteq FindingRecord
<1> DEFINE f == w.files[k]
           x == w.fetched[k]
           a == IF <<d, k>> \in DOMAIN w.answers THEN w.answers[<<d, k>>] ELSE NoAnswer
<1>1. f \in File /\ x \in Fetches
  BY FilesAre
<1>2. a = NoAnswer \/ a \in Answers[d][f][x][config]
  BY DEF Answered
<1> HIDE DEF f, x, a
<1>3. LinesOf(ContentOf[f][x])
  BY <1>1, ContentsAre
<1>4. /\ Readings[d][f][x][config] = ReadingOf(d, Facts[f], ContentOf[f][x], config)
      /\ Answers[d][f][x][config] = AnswersTo(d, Readings[d][f][x][config], config)
  BY <1>1, TablesAre
<1>5. Findings(d, f, ContentOf[f][x], Readings[d][f][x][config], a) \subseteq FindingRecord
  BY <1>1, <1>2, <1>3, <1>4, FindingsAre
<1>6. QED
  BY <1>5 DEF FindingsIn, Content, ReadingIn, f, x, a

LEMMA KeptIsTyped ==
  ASSUME NEW w, Answered(w), config \in Configs
  PROVE  Kept(w) \subseteq FindingRecord
  BY FoundIsTyped DEF Kept

\* A scan is where it was when another step leaves it.
LEMMA StaysAnswered ==
  ASSUME NEW w, config' = config, failures \in Nat, failures' \in Nat, failures <= failures', FailuresCounted(w)
  PROVE  /\ Answered(w) => Answered(w)'
         /\ FailuresCounted(w)'
<1>1. Answered(w) => Answered(w)'
  BY Zenon DEF Answered
<1>2. FailuresCounted(w)'
  BY DEF FailuresCounted
<1>3. QED
  BY <1>1, <1>2

\* A step that leaves every scan as it is.
LEMMA WorkStays ==
  ASSUME WorkOK, work' = work, config' = config, failures \in Nat, failures' \in Nat, failures <= failures'
  PROVE  WorkOK'
<1> SUFFICES ASSUME NEW s \in Scan, work[s] \notin {Idle, [stage |-> "done"]}
             PROVE  (InWork(work[s]) /\ Answered(work[s]) /\ FailuresCounted(work[s]))'
  BY DEF WorkOK
<1>1. PICK w : w = work[s] /\ w = work'[s]
  OBVIOUS
<1>2. InWork(w) /\ Answered(w) /\ FailuresCounted(w)
  BY <1>1 DEF WorkOK
<1>3. InWork(w)' /\ Answered(w)' /\ FailuresCounted(w)'
  BY <1>2, StaysAnswered DEF InWork
<1>4. QED
  BY <1>1, <1>3, Zenon

\* A step of one scan leaves the others as they are: they have only the
\* tally in common, which never falls.
LEMMA OthersKeep ==
  ASSUME WorkOK, config' = config, failures \in Nat, failures' \in Nat, failures <= failures',
         NEW s \in Scan, DOMAIN work' = Scan, \A t \in Scan : t # s => work'[t] = work[t],
         \/ work'[s] \in {Idle, [stage |-> "done"]}
         \/ InWork(work'[s]) /\ Answered(work[s])' /\ FailuresCounted(work[s])'
  PROVE  WorkOK'
<1> SUFFICES ASSUME NEW t \in Scan, work'[t] \notin {Idle, [stage |-> "done"]}
             PROVE  (InWork(work[t]) /\ Answered(work[t]) /\ FailuresCounted(work[t]))'
  BY DEF WorkOK
<1>1. CASE t = s
  BY <1>1 DEF InWork
<1>2. CASE t # s
  <2>1. PICK w : w = work[t] /\ w = work'[t]
    BY <1>2
  <2>2. InWork(w) /\ Answered(w) /\ FailuresCounted(w)
    BY <2>1 DEF WorkOK
  <2>3. InWork(w)' /\ Answered(w)' /\ FailuresCounted(w)'
    BY <2>2, StaysAnswered DEF InWork
  <2>4. QED
    BY <2>1, <2>3, Zenon
<1>3. QED
  BY <1>1, <1>2

(* What a scan reports is of the right kind.                                *)
ReportOK(r) ==
  \/ r = NoReport
  \/ /\ r.status \in {"no_action", "success", "partial_success", "failed"}
     /\ r.fixes \in FindingSet /\ r.pre \in FindingSet
     /\ r.fixes \cap r.pre = {}

LEMMA ResultIsTyped ==
  ASSUME NEW w, Answered(w), config \in Configs
  PROVE  ReportOK(Result(w))
<1> DEFINE kept == Kept(w)
           fixes == FixesOf(w, kept)
           errors == Errors(w)
<1>1. kept \subseteq FindingRecord
  BY KeptIsTyped
<1>2. fixes \subseteq kept
  BY DEF FixesOf
<1>3. Status(fixes, errors) \in {"no_action", "success", "partial_success", "failed"}
  BY DEF Status
<1>4. Result(w) = IF NothingToScan(w)
        THEN [status |-> "failed", errors |-> {"payload"}, fixes |-> {}, pre |-> {}, reached |-> FALSE]
        ELSE [status |-> Status(fixes, errors), errors |-> errors,
              fixes |-> fixes, pre |-> kept \ fixes, reached |-> TRUE]
  BY DEF Result
<1> HIDE DEF kept, fixes, errors
<1>5. FindingSet = SUBSET FindingRecord
  BY DEF FindingSet, FindingRecord
<1>6. fixes \in FindingSet /\ kept \ fixes \in FindingSet /\ {} \in FindingSet
  BY <1>1, <1>2, <1>5
<1>7. CASE NothingToScan(w)
  BY <1>4, <1>6, <1>7 DEF ReportOK
<1>8. CASE ~NothingToScan(w)
  BY <1>3, <1>4, <1>6, <1>8 DEF ReportOK
<1>9. QED
  BY <1>7, <1>8

\* What the invariant needs of a server's step, the command line being idle.
LEMMA ServerStep ==
  ASSUME Core, cli = Idle, cli' = cli, config' = config, failures' \in Nat,
         WorkOK', DOMAIN report' = Scan, \A s \in Scan : ReportOK(report'[s])
  PROVE  Core'
<1>1. CliOK' /\ cli'.stage = "idle"
  BY DEF CliOK, Idle
<1>2. \A s \in Scan : work'[s].stage \in {"idle", "detecting", "done"}
  BY Scanning DEF WorkOK, Idle
<1>3. TypeOK'
  BY <1>1, <1>2 DEF Core, TypeOK, ReportOK
<1>4. QED
  BY <1>1, <1>3 DEF Core

\* A scan at work, by its stage.
LEMMA AtWork ==
  ASSUME WorkOK, NEW s \in Scan, work[s].stage = "detecting"
  PROVE  InWork(work[s]) /\ Answered(work[s]) /\ FailuresCounted(work[s])
  BY DEF WorkOK, Idle

LEMMA Reported ==
  ASSUME Core
  PROVE  /\ DOMAIN report = Scan /\ \A s \in Scan : ReportOK(report[s])
         /\ config \in Configs /\ failures \in Nat /\ WorkOK
  BY DEF Core, TypeOK, ReportOK

\* The tally counts a failed call and never falls.
LEMMA TallyIs ==
  ASSUME NEW n \in Nat, NEW reply
  PROVE  Tally(n, reply) \in Nat /\ n <= Tally(n, reply) /\ (~reply.ok => Tally(n, reply) = n + 1)
<1>1. CASE reply.ok
  BY <1>1 DEF Tally
<1>2. CASE ~reply.ok
  BY <1>2 DEF Tally
<1>3. QED
  BY <1>1, <1>2

LEMMA BeginKeeps ==
  ASSUME Core, cli = Idle, NEW s \in Scan, Begin(s)
  PROVE  Core'
<1>0. Core /\ config \in Configs /\ failures \in Nat /\ WorkOK /\ DOMAIN work = Scan
  BY Reported DEF WorkOK
<1>1. PICK files \in Requests[s] : \E fetched \in [Parts(files) -> Fetched[s]] : \E faults, settings :
        work' = [work EXCEPT ![s] =
         [stage |-> "detecting", files |-> files, fetched |-> fetched,
          faults |-> faults, settings |-> settings, mark |-> failures, answers |-> <<>>, thrown |-> {}]]
  BY DEF Begin
<1>2. PICK fetched \in [Parts(files) -> Fetched[s]] : \E faults, settings :
        work' = [work EXCEPT ![s] =
         [stage |-> "detecting", files |-> files, fetched |-> fetched,
          faults |-> faults, settings |-> settings, mark |-> failures, answers |-> <<>>, thrown |-> {}]]
  BY <1>1
<1>3. PICK faults, settings :
        work' = [work EXCEPT ![s] =
         [stage |-> "detecting", files |-> files, fetched |-> fetched,
          faults |-> faults, settings |-> settings, mark |-> failures, answers |-> <<>>, thrown |-> {}]]
  BY <1>2
<1>4. /\ DOMAIN work' = Scan /\ \A t \in Scan : t # s => work'[t] = work[t]
      /\ work'[s] = [stage |-> "detecting", files |-> files, fetched |-> fetched,
          faults |-> faults, settings |-> settings, mark |-> failures, answers |-> <<>>, thrown |-> {}]
  BY <1>0, <1>3
<1>5. files \in Seq(File) /\ fetched \in [Parts(files) -> Fetches]
  BY <1>1, <1>2, ScanWorkAssumption
<1>6. UNCHANGED <<config, failures, report, cli>>
  BY DEF Begin
<1>7. InWork(work'[s])
  BY <1>4 DEF InWork
<1>8. Answered(work[s])'
  <2>1. DOMAIN work'[s].answers = {}
    BY <1>4
  <2>2. QED
    BY <1>4, <1>5, <2>1 DEF Answered
<1>9. FailuresCounted(work[s])'
  <2>1. DOMAIN work'[s].answers = {} /\ work'[s].mark = failures
    BY <1>4
  <2>2. QED
    BY <1>0, <1>6, <2>1 DEF FailuresCounted
<1>10. WorkOK'
  <2>1. failures' \in Nat /\ failures <= failures' /\ config' = config
    BY <1>0, <1>6
  <2>2. QED
    BY <1>0, <1>4, <1>7, <1>8, <1>9, <2>1, OthersKeep
<1>11. QED
  BY <1>0, <1>6, <1>10, Reported, ServerStep

\* Detector d's call about file k of scan s returns a: the scan's answers are new.
Returns(s, w, d, k, a, new) ==
  /\ d \in DetectorIds /\ k \in Parts(w.files)
  /\ a \in Answers[d][w.files[k]][w.fetched[k]][config]
  /\ DOMAIN new = DOMAIN w.answers \cup {<<d, k>>} /\ new[<<d, k>>] = a
  /\ \A x \in DOMAIN w.answers : x # <<d, k>> => new[x] = w.answers[x]
  /\ work' = [work EXCEPT ![s].answers = new]
  /\ failures' = Tally(failures, a.reply)

\* One more answer: still about the scan's own files, and the others stand.
LEMMA AnswersGrow ==
  ASSUME NEW s, NEW w, Answered(w), NEW d, NEW k, NEW a, NEW new, Returns(s, w, d, k, a, new), NEW v,
         v.files = w.files, v.fetched = w.fetched, v.thrown = w.thrown, v.answers = new
  PROVE  /\ Answered(v)
         /\ \A x \in DOMAIN v.answers :
              v.answers[x] = a \/ (x \in DOMAIN w.answers /\ v.answers[x] = w.answers[x])
<1>0. /\ d \in DetectorIds /\ k \in Parts(w.files)
      /\ a \in Answers[d][w.files[k]][w.fetched[k]][config]
      /\ DOMAIN new = DOMAIN w.answers \cup {<<d, k>>} /\ new[<<d, k>>] = a
      /\ \A x \in DOMAIN w.answers : x # <<d, k>> => new[x] = w.answers[x]
  BY Zenon DEF Returns
<1>1. \A x \in DOMAIN new : new[x] \in Answers[x[1]][w.files[x[2]]][w.fetched[x[2]]][config]
  <2> SUFFICES ASSUME NEW x \in DOMAIN new
               PROVE  new[x] \in Answers[x[1]][w.files[x[2]]][w.fetched[x[2]]][config]
    OBVIOUS
  <2>1. CASE x = <<d, k>>
    BY <1>0, <2>1
  <2>2. CASE x # <<d, k>>
    BY <1>0, <2>2 DEF Answered
  <2>3. QED
    BY <2>1, <2>2
<1>2. Answered(v)
  <2>1. /\ w.files \in Seq(File) /\ w.fetched \in [Parts(w.files) -> Fetches]
        /\ w.thrown \subseteq DetectorIds /\ DOMAIN w.answers \subseteq DetectorIds \X Parts(w.files)
    BY DEF Answered
  <2>2. DOMAIN new \subseteq DetectorIds \X Parts(w.files)
    BY <1>0, <2>1
  <2>3. QED
    BY <1>1, <2>1, <2>2, Zenon DEF Answered
<1>3. QED
  BY <1>0, <1>2

\* The call that returns, and the answers once it has.
LEMMA JudgeIs ==
  ASSUME NEW s \in Scan, Judge(s), NEW w, w = work[s]
  PROVE  \E d, k, a, new : Returns(s, w, d, k, a, new)
<1>1. PICK dk \in Unasked(w) : \E a \in Answers[dk[1]][w.files[dk[2]]][w.fetched[dk[2]]][config] :
        /\ work' = [work EXCEPT ![s].answers =
             [x \in DOMAIN @ \cup {dk} |-> IF x = dk THEN a ELSE @[x]]]
        /\ failures' = Tally(failures, a.reply)
  BY Zenon DEF Judge
<1>2. dk \in DetectorIds \X Parts(w.files)
  BY DEF Unasked
<1>3. PICK d \in DetectorIds, k \in Parts(w.files) : dk = <<d, k>> /\ dk[1] = d /\ dk[2] = k
  BY <1>2
<1>4. PICK a : /\ a \in Answers[dk[1]][w.files[dk[2]]][w.fetched[dk[2]]][config]
               /\ work' = [work EXCEPT ![s].answers =
                    [x \in DOMAIN @ \cup {dk} |-> IF x = dk THEN a ELSE @[x]]]
               /\ failures' = Tally(failures, a.reply)
  BY <1>1, Zenon
<1>5. a \in Answers[d][w.files[k]][w.fetched[k]][config]
  BY <1>3, <1>4, Zenon
<1>6. PICK new : new = [x \in DOMAIN w.answers \cup {dk} |-> IF x = dk THEN a ELSE w.answers[x]]
  OBVIOUS
<1>7. work' = [work EXCEPT ![s].answers = new]
  BY <1>4, <1>6
<1>8. /\ DOMAIN new = DOMAIN w.answers \cup {<<d, k>>} /\ new[<<d, k>>] = a
      /\ \A x \in DOMAIN w.answers : x # <<d, k>> => new[x] = w.answers[x]
  BY <1>3, <1>6
<1>9. failures' = Tally(failures, a.reply)
  BY <1>4
<1>10. Returns(s, w, d, k, a, new)
  BY <1>3, <1>5, <1>7, <1>8, <1>9, Zenon DEF Returns
<1>11. QED
  BY <1>10

LEMMA JudgeKeeps ==
  ASSUME Core, cli = Idle, NEW s \in Scan, Judge(s)
  PROVE  Core'
<1>0. Core /\ config \in Configs /\ failures \in Nat /\ WorkOK /\ DOMAIN work = Scan
  BY Reported DEF WorkOK
<1>1. PICK w : w = work[s]
  OBVIOUS
<1>2. InWork(w) /\ Answered(w) /\ FailuresCounted(w)
  BY <1>0, <1>1, AtWork DEF Judge
<1>3. \E d, k, a, new : Returns(s, w, d, k, a, new)
  BY <1>1, JudgeIs
<1>4. PICK d, k, a, new : Returns(s, w, d, k, a, new)
  BY <1>3
<1>6. work' = [work EXCEPT ![s].answers = new] /\ failures' = Tally(failures, a.reply)
  BY <1>4, Zenon DEF Returns
<1>7. /\ DOMAIN work' = Scan /\ \A t \in Scan : t # s => work'[t] = work[t]
      /\ work'[s] = [w EXCEPT !.answers = new]
  BY <1>0, <1>1, <1>6
<1>8. config' = config /\ UNCHANGED <<report, cli>>
  BY DEF Judge
<1>9. failures' \in Nat /\ failures <= failures' /\ (~a.reply.ok => failures' = failures + 1)
  <2>1. failures \in Nat /\ failures' = Tally(failures, a.reply)
    BY <1>0, <1>6
  <2>2. QED
    BY <2>1, TallyIs
<1>10. PICK v :
        /\ v = work'[s]
        /\ v = [stage |-> "detecting", files |-> w.files, fetched |-> w.fetched, faults |-> w.faults,
                settings |-> w.settings, mark |-> w.mark, answers |-> new, thrown |-> w.thrown]
  BY <1>2, <1>7, Scanning
<1>11. /\ InWork(v) /\ Answered(v) /\ v.mark = w.mark
       /\ \A x \in DOMAIN v.answers :
            v.answers[x] = a \/ (x \in DOMAIN w.answers /\ v.answers[x] = w.answers[x])
  <2>1. /\ v.files = w.files /\ v.fetched = w.fetched /\ v.thrown = w.thrown
        /\ v.mark = w.mark /\ v.answers = new
    BY <1>10
  <2>2. InWork(v)
    BY <1>10, <2>1 DEF InWork
  <2>3. /\ Answered(v)
        /\ \A x \in DOMAIN v.answers :
             v.answers[x] = a \/ (x \in DOMAIN w.answers /\ v.answers[x] = w.answers[x])
    BY <1>2, <1>4, <2>1, AnswersGrow
  <2>4. QED
    BY <2>1, <2>2, <2>3
<1>12. Answered(v)'
  BY <1>8, <1>11, Zenon DEF Answered
<1>13. FailuresCounted(v)'
  <2>1. w.mark \in Nat /\ w.mark <= failures
    BY <1>2 DEF FailuresCounted
  <2>2. \A x \in DOMAIN v.answers : ~v.answers[x].reply.ok => failures' > w.mark
    <3> SUFFICES ASSUME NEW x \in DOMAIN v.answers, ~v.answers[x].reply.ok PROVE failures' > w.mark
      OBVIOUS
    <3>1. CASE v.answers[x] = a
      BY <1>0, <1>9, <2>1, <3>1
    <3>2. CASE x \in DOMAIN w.answers /\ v.answers[x] = w.answers[x]
      <4>1. failures > w.mark
        BY <1>2, <3>2 DEF FailuresCounted
      <4>2. QED
        BY <1>0, <1>9, <2>1, <4>1
    <3>3. QED
      BY <1>11, <3>1, <3>2
  <2>3. w.mark <= failures'
    BY <1>0, <1>9, <2>1
  <2>4. QED
    BY <1>11, <2>1, <2>2, <2>3 DEF FailuresCounted
<1>14. InWork(work'[s]) /\ Answered(work[s])' /\ FailuresCounted(work[s])'
  BY <1>10, <1>11, <1>12, <1>13
<1>15. WorkOK'
  BY <1>0, <1>7, <1>8, <1>9, <1>14, OthersKeep
<1>16. QED
  BY <1>0, <1>8, <1>9, <1>15, Reported, ServerStep

LEMMA ThrowKeeps ==
  ASSUME Core, cli = Idle, NEW s \in Scan, Throw(s)
  PROVE  Core'
<1>0. Core /\ config \in Configs /\ failures \in Nat /\ WorkOK /\ DOMAIN work = Scan
  BY Reported DEF WorkOK
<1>1. PICK w : w = work[s]
  OBVIOUS
<1>2. InWork(w) /\ Answered(w) /\ FailuresCounted(w)
  BY <1>0, <1>1, AtWork DEF Throw
<1>3. PICK dk \in Unasked(w) : work' = [work EXCEPT ![s].thrown = @ \cup {dk[1]}]
  BY <1>1 DEF Throw
<1>4. /\ DOMAIN work' = Scan /\ \A t \in Scan : t # s => work'[t] = work[t]
      /\ work'[s] = [w EXCEPT !.thrown = w.thrown \cup {dk[1]}]
  BY <1>0, <1>1, <1>3
<1>5. PICK v :
        /\ v = work'[s]
        /\ v = [stage |-> "detecting", files |-> w.files, fetched |-> w.fetched, faults |-> w.faults,
                settings |-> w.settings, mark |-> w.mark, answers |-> w.answers,
                thrown |-> w.thrown \cup {dk[1]}]
  BY <1>2, <1>4, Scanning
<1>6. UNCHANGED <<config, failures, report, cli>>
  BY DEF Throw
<1>7. /\ v.files = w.files /\ v.fetched = w.fetched /\ v.answers = w.answers /\ v.mark = w.mark
      /\ v.thrown = w.thrown \cup {dk[1]} /\ dk[1] \in DetectorIds
  BY <1>5 DEF Unasked
<1>8. InWork(v)
  BY <1>5, <1>7 DEF InWork
<1>9. Answered(v) /\ FailuresCounted(v)
  <2>1. v.thrown \subseteq DetectorIds
    BY <1>2, <1>7 DEF Answered
  <2>2. QED
    BY <1>2, <1>7, <2>1, Zenon DEF Answered, FailuresCounted
<1>10. failures' \in Nat /\ failures <= failures' /\ config' = config
  BY <1>0, <1>6
<1>11. Answered(v)' /\ FailuresCounted(v)'
  BY <1>0, <1>9, <1>10, StaysAnswered
<1>12. InWork(work'[s]) /\ Answered(work[s])' /\ FailuresCounted(work[s])'
  BY <1>5, <1>8, <1>11
<1>13. WorkOK'
  BY <1>0, <1>4, <1>10, <1>12, OthersKeep
<1>14. QED
  BY <1>0, <1>6, <1>10, <1>13, Reported, ServerStep

LEMMA FinishKeeps ==
  ASSUME Core, cli = Idle, NEW s \in Scan, Finish(s) \/ TimeOut(s)
  PROVE  Core'
<1>0. Core /\ config \in Configs /\ failures \in Nat /\ WorkOK /\ DOMAIN work = Scan
  BY Reported DEF WorkOK
<1>1. DOMAIN report = Scan /\ \A t \in Scan : ReportOK(report[t])
  BY Reported
<1>2. Answered(work[s])
  BY <1>0, AtWork DEF Finish, TimeOut
<1>3. CASE Finish(s)
  <2>1. ReportOK(Result(work[s]))
    BY <1>0, <1>2, ResultIsTyped
  <2>2. /\ report' = [report EXCEPT ![s] = IF @ = NoReport THEN Result(work[s]) ELSE @]
        /\ work' = [work EXCEPT ![s] = [stage |-> "done"]] /\ UNCHANGED <<config, failures, cli>>
    BY <1>3 DEF Finish
  <2>3. DOMAIN report' = Scan /\ \A t \in Scan : ReportOK(report'[t])
    BY <1>1, <2>1, <2>2
  <2>4. /\ DOMAIN work' = Scan /\ \A t \in Scan : t # s => work'[t] = work[t]
        /\ work'[s] = [stage |-> "done"]
    BY <1>0, <2>2
  <2>5. WorkOK'
    BY <1>0, <2>2, <2>4, OthersKeep
  <2>6. QED
    BY <1>0, <2>2, <2>3, <2>5, ServerStep
<1>4. CASE TimeOut(s)
  <2> DEFINE late == [status |-> "failed", errors |-> {"workflow"}, fixes |-> {}, pre |-> {}, reached |-> FALSE]
  <2>1. report' = [report EXCEPT ![s] = late] /\ UNCHANGED <<config, failures, work, cli>>
    BY <1>4 DEF TimeOut
  <2>2. ReportOK(late)
    BY DEF ReportOK, FindingSet
  <2> HIDE DEF late
  <2>3. DOMAIN report' = Scan /\ \A t \in Scan : ReportOK(report'[t])
    BY <1>1, <2>1, <2>2
  <2>4. WorkOK'
    BY <1>0, <2>1, WorkStays
  <2>5. QED
    BY <1>0, <2>1, <2>3, <2>4, ServerStep
<1>5. QED
  BY <1>3, <1>4

----------------------------------------------------------------------------
(* The command line scan *)

\* The command line's scan is a record of these fields and no others.
CliRecord(files, at, opened, mark, fileMark, answers, thrown, lost, gaps) ==
  [stage |-> "scanning", files |-> files, at |-> at, opened |-> opened, mark |-> mark,
   fileMark |-> fileMark, answers |-> answers, thrown |-> thrown, lost |-> lost, gaps |-> gaps]

\* An update of one field changes no other.
LEMMA CliSets ==
  ASSUME CliInWork, NEW v, NEW c
  PROVE  /\ c = [cli EXCEPT !.opened = v] => c = CliRecord(cli.files, cli.at, v, cli.mark, cli.fileMark, cli.answers, cli.thrown, cli.lost, cli.gaps)
         /\ c = [cli EXCEPT !.lost = v] => c = CliRecord(cli.files, cli.at, cli.opened, cli.mark, cli.fileMark, cli.answers, cli.thrown, v, cli.gaps)
         /\ c = [cli EXCEPT !.gaps = v] => c = CliRecord(cli.files, cli.at, cli.opened, cli.mark, cli.fileMark, cli.answers, cli.thrown, cli.lost, v)
         /\ c = [cli EXCEPT !.answers = v] => c = CliRecord(cli.files, cli.at, cli.opened, cli.mark, cli.fileMark, v, cli.thrown, cli.lost, cli.gaps)
         /\ c = [cli EXCEPT !.thrown = v] => c = CliRecord(cli.files, cli.at, cli.opened, cli.mark, cli.fileMark, cli.answers, v, cli.lost, cli.gaps)
<1>1. ASSUME c = [cli EXCEPT !.opened = v] PROVE c = CliRecord(cli.files, cli.at, v, cli.mark, cli.fileMark, cli.answers, cli.thrown, cli.lost, cli.gaps)
  BY <1>1 DEF CliInWork, CliRecord
<1>2. ASSUME c = [cli EXCEPT !.lost = v] PROVE c = CliRecord(cli.files, cli.at, cli.opened, cli.mark, cli.fileMark, cli.answers, cli.thrown, v, cli.gaps)
  BY <1>2 DEF CliInWork, CliRecord
<1>3. ASSUME c = [cli EXCEPT !.gaps = v] PROVE c = CliRecord(cli.files, cli.at, cli.opened, cli.mark, cli.fileMark, cli.answers, cli.thrown, cli.lost, v)
  BY <1>3 DEF CliInWork, CliRecord
<1>4. ASSUME c = [cli EXCEPT !.answers = v] PROVE c = CliRecord(cli.files, cli.at, cli.opened, cli.mark, cli.fileMark, v, cli.thrown, cli.lost, cli.gaps)
  BY <1>4 DEF CliInWork, CliRecord
<1>5. ASSUME c = [cli EXCEPT !.thrown = v] PROVE c = CliRecord(cli.files, cli.at, cli.opened, cli.mark, cli.fileMark, cli.answers, v, cli.lost, cli.gaps)
  BY <1>5 DEF CliInWork, CliRecord
<1>6. QED
  BY <1>1, <1>2, <1>3, <1>4, <1>5

\* What the invariant needs of a step of the command line.
LEMMA CliStep ==
  ASSUME Core, UNCHANGED <<config, serverVars>>, failures' \in Nat, failures <= failures', CliOK',
         cli'.stage \in {"scanning", "exited"},
         cli'.stage = "exited" => cli'.code \in {0, 1, 2} /\ cli'.findings \in FindingSet
  PROVE  Core'
<1>1. /\ DOMAIN report = Scan /\ \A s \in Scan : ReportOK(report[s])
      /\ config \in Configs /\ failures \in Nat /\ WorkOK
  BY Reported
<1>2. work' = work /\ report' = report /\ config' = config
  BY DEF serverVars
<1>3. WorkOK'
  BY <1>1, <1>2, WorkStays
<1>4. TypeOK'
  BY <1>1, <1>2 DEF Core, TypeOK
<1>5. QED
  BY <1>1, <1>2, <1>3, <1>4 DEF Core

\* The command line's scan, by its stage.
LEMMA CliAtWork ==
  ASSUME CliOK, cli.stage = "scanning"
  PROVE  CliInWork /\ CliAnswered /\ CliNoneSkipped /\ CliInOrder /\ FailuresCounted(cli)
  BY DEF CliOK, Idle, Exited

LEMMA WalkedIs ==
  ASSUME NEW tree \in Seq(File), NEW files \in Walked(tree)
  PROVE  files \in Seq(File)
<1>1. PICK S \in SUBSET DOMAIN tree : files = Picked(tree, S)
  BY DEF Walked
<1>2. DOMAIN tree = 1..Len(tree) /\ Len(tree) \in Nat /\ \A i \in 1..Len(tree) : tree[i] \in File
  BY DomainIs
<1>3. S \in SUBSET (1..Len(tree)) /\ Cardinality(S) \in Nat
  BY <1>1, <1>2, UpToIs
<1>4. \A n \in 1..Cardinality(S) : Nth(S, n) \in S
  BY <1>2, <1>3, NthIsThere
<1>5. \A n \in 1..Cardinality(S) : tree[Nth(S, n)] \in File
  BY <1>2, <1>3, <1>4
<1>6. QED
  BY <1>1, <1>3, <1>5 DEF Picked

LEMMA ExitKeeps ==
  ASSUME Core, UNCHANGED <<config, failures, serverVars>>,
         NEW code \in {0, 1, 2}, NEW banner, NEW findings \in FindingSet, NEW gaps,
         cli' = Exited(code, banner, findings, gaps)
  PROVE  Core'
<1>1. /\ cli'.stage = "exited" /\ cli'.code = code /\ cli'.banner = banner
      /\ cli'.findings = findings /\ cli'.gaps = gaps
  BY DEF Exited
<1>2. CliOK'
  BY <1>1 DEF CliOK
<1>3. failures' \in Nat /\ failures <= failures'
  BY Reported
<1>4. QED
  BY <1>1, <1>2, <1>3, CliStep

LEMMA CliStartKeeps ==
  ASSUME Core, CliStart
  PROVE  Core'
<1>0. UNCHANGED <<config, failures, serverVars>> /\ {} \in FindingSet
  BY DEF CliStart, FindingSet
<1>1. CASE cli' = Exited(1, "no report", {}, {})
  BY <1>0, <1>1, ExitKeeps
<1>2. CASE cli' = Exited(0, "no report", {}, {})
  BY <1>0, <1>2, ExitKeeps
<1>3. CASE cli' # Exited(1, "no report", {}, {}) /\ cli' # Exited(0, "no report", {}, {})
  <2>1. PICK tree \in Trees : \E files \in Walked(tree) :
          /\ files # <<>>
          /\ cli' = CliRecord(files, 1, FALSE, failures, failures, <<>>, {}, {}, {})
    BY <1>3 DEF CliStart, CliRecord
  <2>2. PICK files \in Walked(tree) :
          /\ files # <<>>
          /\ cli' = CliRecord(files, 1, FALSE, failures, failures, <<>>, {}, {}, {})
    BY <2>1
  <2>3. files \in Seq(File) /\ Len(files) \in Nat
    <3>1. tree \in Seq(File)
      BY ScanWorkAssumption
    <3>2. files \in Seq(File)
      BY <3>1, WalkedIs
    <3>3. QED
      BY <3>2
  <2>4. /\ cli'.stage = "scanning" /\ cli'.files = files /\ cli'.at = 1 /\ cli'.opened = FALSE
        /\ cli'.mark = failures /\ cli'.fileMark = failures
        /\ cli'.answers = <<>> /\ cli'.thrown = {} /\ cli'.lost = {} /\ cli'.gaps = {}
    BY <2>2 DEF CliRecord
  <2>5. CliInWork'
    BY <2>2, <2>4 DEF CliInWork, CliRecord
  <2>6. DOMAIN cli'.answers = {}
    BY <2>4
  <2>7. CliAnswered'
    <3>1. 1 \in 1..(Len(files) + 1)
      BY <2>3
    <3>2. QED
      BY <2>3, <2>4, <2>6, <3>1 DEF CliAnswered
  <2>8. CliNoneSkipped' /\ CliInOrder'
    BY <2>4, <2>6 DEF CliNoneSkipped, CliInOrder
  <2>9. failures \in Nat /\ failures' = failures
    BY <1>0, Reported
  <2>10. FailuresCounted(cli)'
    BY <2>4, <2>6, <2>9 DEF FailuresCounted
  <2>11. CliOK'
    BY <2>5, <2>7, <2>8, <2>10 DEF CliOK
  <2>12. QED
    BY <1>0, <2>4, <2>9, <2>11, CliStep
<1>4. QED
  BY <1>1, <1>2, <1>3

LEMMA CliOpenKeeps ==
  ASSUME Core, CliOpen
  PROVE  Core'
<1>1. UNCHANGED <<config, failures, serverVars>> /\ failures \in Nat
  BY Reported DEF CliOpen
<1>2. /\ CliInWork /\ CliAnswered /\ CliNoneSkipped /\ CliInOrder /\ FailuresCounted(cli)
      /\ cli.at <= Len(cli.files)
  BY CliAtWork DEF CliOpen, Core
<1>3. cli' = CliRecord(cli.files, cli.at, TRUE, cli.mark, failures, cli.answers, cli.thrown, cli.lost, cli.gaps)
  <2>1. PICK c1 : c1 = [cli EXCEPT !.opened = TRUE]
    OBVIOUS
  <2>2. c1 = CliRecord(cli.files, cli.at, TRUE, cli.mark, cli.fileMark, cli.answers, cli.thrown, cli.lost, cli.gaps)
    BY <1>2, <2>1, CliSets
  <2>3. cli' = [c1 EXCEPT !.fileMark = failures]
    BY <2>1 DEF CliOpen
  <2>4. QED
    BY <2>2, <2>3 DEF CliRecord
<1>4. /\ cli'.stage = "scanning" /\ cli'.files = cli.files /\ cli'.at = cli.at /\ cli'.opened = TRUE
      /\ cli'.mark = cli.mark /\ cli'.fileMark = failures /\ cli'.answers = cli.answers
      /\ cli'.thrown = cli.thrown /\ cli'.lost = cli.lost /\ cli'.gaps = cli.gaps
  BY <1>3 DEF CliRecord
<1>5. CliInWork'
  BY <1>3, <1>4 DEF CliInWork, CliRecord
<1>6. CliAnswered'
  BY <1>1, <1>2, <1>4 DEF CliAnswered
<1>7. CliNoneSkipped'
  BY <1>1, <1>2, <1>4 DEF CliNoneSkipped, CliReading
<1>8. CliInOrder'
  BY <1>2, <1>4 DEF CliInOrder
<1>9. FailuresCounted(cli)'
  BY <1>1, <1>2, <1>4 DEF FailuresCounted
<1>10. CliOK'
  BY <1>5, <1>6, <1>7, <1>8, <1>9 DEF CliOK
<1>11. QED
  BY <1>1, <1>4, <1>10, CliStep

LEMMA CliLoseKeeps ==
  ASSUME Core, CliLose
  PROVE  Core'
<1>1. UNCHANGED <<config, failures, serverVars>> /\ failures \in Nat
  BY Reported DEF CliLose
<1>2. /\ CliInWork /\ CliAnswered /\ CliNoneSkipped /\ CliInOrder /\ FailuresCounted(cli)
      /\ cli.at <= Len(cli.files) /\ ~cli.opened
  BY CliAtWork DEF CliLose, Core
<1> DEFINE lost == cli.lost \cup {cli.at}
           gaps == cli.gaps \cup {cli.at}
<1>3. cli' = CliRecord(cli.files, cli.at + 1, cli.opened, cli.mark, cli.fileMark, cli.answers, cli.thrown, lost, gaps)
  <2>1. PICK c1 : c1 = [cli EXCEPT !.lost = lost]
    OBVIOUS
  <2>2. c1 = CliRecord(cli.files, cli.at, cli.opened, cli.mark, cli.fileMark, cli.answers, cli.thrown, lost, cli.gaps)
    BY <1>2, <2>1, CliSets
  <2>3. PICK c2 : c2 = [c1 EXCEPT !.gaps = gaps]
    OBVIOUS
  <2>4. c2 = CliRecord(cli.files, cli.at, cli.opened, cli.mark, cli.fileMark, cli.answers, cli.thrown, lost, gaps)
    BY <2>2, <2>3 DEF CliInWork, CliRecord
  <2>5. cli' = [c2 EXCEPT !.at = cli.at + 1]
    BY <2>1, <2>3 DEF CliLose
  <2>6. QED
    BY <2>4, <2>5 DEF CliRecord
<1>4. /\ cli'.stage = "scanning" /\ cli'.files = cli.files /\ cli'.at = cli.at + 1 /\ cli'.opened = cli.opened
      /\ cli'.mark = cli.mark /\ cli'.answers = cli.answers
      /\ cli'.thrown = cli.thrown /\ cli'.lost = lost
  BY <1>3 DEF CliRecord
<1>5. CliInWork'
  BY <1>3 DEF CliInWork, CliRecord
<1>6. /\ cli.files \in Seq(File) /\ Len(cli.files) \in Nat /\ cli.at \in 1..(Len(cli.files) + 1)
      /\ cli.at \in Nat /\ cli.at <= Len(cli.files) /\ cli.lost \subseteq 1..(cli.at - 1)
  <2>1. cli.files \in Seq(File) /\ cli.at \in 1..(Len(cli.files) + 1) /\ cli.lost \subseteq 1..(cli.at - 1)
    BY <1>2 DEF CliAnswered
  <2>2. Len(cli.files) \in Nat
    BY <2>1
  <2>3. QED
    BY <1>2, <2>1, <2>2
\* Nothing was asked about the file, for it was not opened.
<1>7. \A dk \in DOMAIN cli.answers \cup cli.thrown : dk[2] # cli.at
  BY <1>2, <1>6 DEF CliInOrder
<1>8. CliAnswered'
  <2>1. cli.at + 1 \in 1..(Len(cli.files) + 1) /\ lost \subseteq 1..((cli.at + 1) - 1)
    BY <1>6
  <2>2. cli.thrown \subseteq DetectorIds \X (DOMAIN cli.files \ lost)
    BY <1>2, <1>7 DEF CliAnswered
  <2>3. DOMAIN cli.answers \subseteq (DetectorIds \X (DOMAIN cli.files \ lost)) \ cli.thrown
    BY <1>2, <1>7 DEF CliAnswered
  <2>4. QED
    BY <1>1, <1>2, <1>4, <1>6, <2>1, <2>2, <2>3 DEF CliAnswered
<1>9. CliNoneSkipped'
  <2>1. (1..((cli.at + 1) - 1)) \ lost \subseteq (1..(cli.at - 1)) \ cli.lost
    BY <1>6
  <2>2. QED
    BY <1>1, <1>2, <1>4, <2>1 DEF CliNoneSkipped, CliReading
<1>10. CliInOrder'
  <2>1. \A dk \in DOMAIN cli.answers \cup cli.thrown : dk[2] < cli.at
    BY <1>2 DEF CliInOrder
  <2>2. \A dk \in DOMAIN cli.answers \cup cli.thrown : dk[2] \in Nat
    BY <1>2, <1>6 DEF CliAnswered
  <2>3. \A dk \in DOMAIN cli.answers \cup cli.thrown : dk[2] < cli.at + 1
    BY <1>6, <2>1, <2>2
  <2>4. QED
    BY <1>4, <2>3 DEF CliInOrder
<1>11. FailuresCounted(cli)'
  BY <1>1, <1>2, <1>4 DEF FailuresCounted
<1>12. CliOK'
  BY <1>5, <1>8, <1>9, <1>10, <1>11 DEF CliOK
<1>13. QED
  BY <1>1, <1>4, <1>12, CliStep

LEMMA CliJudgeKeeps ==
  ASSUME Core, CliJudge
  PROVE  Core'
<1>0. config' = config /\ UNCHANGED <<config, serverVars>> /\ failures \in Nat
  BY Reported DEF CliJudge
<1>1. CliInWork /\ CliAnswered /\ CliNoneSkipped /\ CliInOrder /\ FailuresCounted(cli) /\ cli.opened
  BY CliAtWork DEF CliJudge, Core
<1>2. /\ cli.files \in Seq(File) /\ DOMAIN cli.files = 1..Len(cli.files) /\ Len(cli.files) \in Nat
      /\ cli.at \in Nat /\ cli.at \in DOMAIN cli.files /\ cli.lost \subseteq 1..(cli.at - 1)
  <2>1. cli.files \in Seq(File) /\ cli.at \in 1..(Len(cli.files) + 1) /\ cli.lost \subseteq 1..(cli.at - 1)
        /\ cli.at <= Len(cli.files)
    BY <1>1 DEF CliAnswered
  <2>2. DOMAIN cli.files = 1..Len(cli.files) /\ Len(cli.files) \in Nat
    BY <2>1
  <2>3. QED
    BY <2>1, <2>2
<1>3. cli.at \in DOMAIN cli.files \ cli.lost
  BY <1>2
<1>4. PICK d \in {Order[n] : n \in {k \in CliUnasked : \A m \in CliUnasked : k <= m}} :
        \/ \E a \in Answers[d][cli.files[cli.at]]["whole"][config] :
             /\ cli' = [cli EXCEPT !.answers =
                  [x \in DOMAIN @ \cup {<<d, cli.at>>} |-> IF x = <<d, cli.at>> THEN a ELSE @[x]]]
             /\ failures' = Tally(failures, a.reply)
        \/ /\ cli' = [cli EXCEPT !.thrown = @ \cup {<<d, cli.at>>}]
           /\ UNCHANGED failures
  BY DEF CliJudge
<1> DEFINE dk == <<d, cli.at>>
<1>5. d \in DetectorIds /\ dk \notin DOMAIN cli.answers /\ dk \notin cli.thrown
  <2>0. PICK n \in CliUnasked : d = Order[n]
    OBVIOUS
  <2>1. n \in DOMAIN Order /\ dk \notin DOMAIN cli.answers /\ dk \notin cli.thrown
    BY <2>0 DEF CliUnasked
  <2>2. Order[n] \in DetectorIds
    BY <2>1 DEF Order, DetectorIds
  <2>3. QED
    BY <2>0, <2>1, <2>2
<1>6. dk \in DetectorIds \X (DOMAIN cli.files \ cli.lost)
  BY <1>3, <1>5
<1>7. dk[1] = d /\ dk[2] = cli.at
  OBVIOUS
<1>8. ASSUME NEW a \in Answers[d][cli.files[cli.at]]["whole"][config],
             cli' = [cli EXCEPT !.answers = [x \in DOMAIN @ \cup {dk} |-> IF x = dk THEN a ELSE @[x]]],
             failures' = Tally(failures, a.reply)
      PROVE  Core'
  <2> DEFINE new == [x \in DOMAIN cli.answers \cup {dk} |-> IF x = dk THEN a ELSE cli.answers[x]]
  <2>1. cli' = [cli EXCEPT !.answers = new]
    BY <1>8
  <2>2. /\ DOMAIN new = DOMAIN cli.answers \cup {dk} /\ new[dk] = a
        /\ \A x \in DOMAIN cli.answers : x # dk => new[x] = cli.answers[x]
    OBVIOUS
  <2> HIDE DEF new
  <2>3. cli' = CliRecord(cli.files, cli.at, cli.opened, cli.mark, cli.fileMark, new, cli.thrown, cli.lost, cli.gaps)
    BY <1>1, <2>1, CliSets
  <2>4. /\ cli'.stage = "scanning" /\ cli'.files = cli.files /\ cli'.at = cli.at /\ cli'.opened = cli.opened
        /\ cli'.mark = cli.mark /\ cli'.answers = new /\ cli'.thrown = cli.thrown /\ cli'.lost = cli.lost
    BY <2>3 DEF CliRecord
  <2>5. failures' \in Nat /\ failures <= failures' /\ (~a.reply.ok => failures' = failures + 1)
    <3>1. failures \in Nat /\ failures' = Tally(failures, a.reply)
      BY <1>0, <1>8
    <3>2. QED
      BY <3>1, TallyIs
  <2>6. CliInWork'
    BY <2>3 DEF CliInWork, CliRecord
  <2>7. CliAnswered'
    <3>1. DOMAIN new \subseteq (DetectorIds \X (DOMAIN cli.files \ cli.lost)) \ cli.thrown
      BY <1>1, <1>5, <1>6, <2>2 DEF CliAnswered
    <3>2. \A x \in DOMAIN new : new[x] \in Answers[x[1]][cli.files[x[2]]]["whole"][config]
      <4> SUFFICES ASSUME NEW x \in DOMAIN new PROVE new[x] \in Answers[x[1]][cli.files[x[2]]]["whole"][config]
        OBVIOUS
      <4>1. CASE x = dk
        BY <1>7, <1>8, <2>2, <4>1
      <4>2. CASE x # dk
        BY <1>1, <2>2, <4>2 DEF CliAnswered
      <4>3. QED
        BY <4>1, <4>2
    <3> HIDE DEF dk
    <3>3. QED
      BY <1>0, <1>1, <2>4, <3>1, <3>2 DEF CliAnswered
  <2>8. CliNoneSkipped'
    BY <1>0, <1>1, <2>2, <2>4 DEF CliNoneSkipped, CliReading
  <2>9. CliInOrder'
    <3> HIDE DEF dk
    <3>1. QED
      BY <1>1, <1>7, <2>2, <2>4 DEF CliInOrder
  <2>10. FailuresCounted(cli)'
    <3>1. cli.mark \in Nat /\ cli.mark <= failures
      BY <1>1 DEF FailuresCounted
    <3>2. \A x \in DOMAIN new : ~new[x].reply.ok => failures' > cli.mark
      <4> SUFFICES ASSUME NEW x \in DOMAIN new, ~new[x].reply.ok PROVE failures' > cli.mark
        OBVIOUS
      <4>1. CASE x = dk
        <5> HIDE DEF dk
        <5>1. failures' = failures + 1
          BY <2>2, <2>5, <4>1
        <5>2. QED
          BY <1>0, <3>1, <5>1
      <4>2. CASE x # dk
        <5>1. failures > cli.mark
          BY <1>1, <2>2, <4>2 DEF FailuresCounted
        <5>2. QED
          BY <1>0, <2>5, <3>1, <5>1
      <4>3. QED
        BY <4>1, <4>2
    <3>3. cli.mark <= failures'
      BY <1>0, <2>5, <3>1
    <3>4. QED
      BY <2>4, <3>1, <3>2, <3>3 DEF FailuresCounted
  <2>11. CliOK'
    BY <2>6, <2>7, <2>8, <2>9, <2>10 DEF CliOK
  <2>12. QED
    BY <1>0, <2>4, <2>5, <2>11, CliStep
<1>9. ASSUME cli' = [cli EXCEPT !.thrown = @ \cup {dk}], UNCHANGED failures
      PROVE  Core'
  <2> DEFINE new == cli.thrown \cup {dk}
  <2>1. cli' = CliRecord(cli.files, cli.at, cli.opened, cli.mark, cli.fileMark, cli.answers, new, cli.lost, cli.gaps)
    BY <1>1, <1>9, CliSets
  <2>2. /\ cli'.stage = "scanning" /\ cli'.files = cli.files /\ cli'.at = cli.at /\ cli'.opened = cli.opened
        /\ cli'.mark = cli.mark /\ cli'.answers = cli.answers /\ cli'.thrown = new /\ cli'.lost = cli.lost
    BY <2>1 DEF CliRecord
  <2> HIDE DEF dk
  <2>3. CliInWork'
    BY <2>1 DEF CliInWork, CliRecord
  <2>4. CliAnswered'
    <3>1. new \subseteq DetectorIds \X (DOMAIN cli.files \ cli.lost)
      BY <1>1, <1>6 DEF CliAnswered
    <3>2. DOMAIN cli.answers \subseteq (DetectorIds \X (DOMAIN cli.files \ cli.lost)) \ new
      BY <1>1, <1>5 DEF CliAnswered
    <3> HIDE DEF new
    <3>3. QED
      BY <1>0, <1>1, <2>2, <3>1, <3>2 DEF CliAnswered
  <2>5. CliNoneSkipped'
    BY <1>0, <1>1, <2>2 DEF CliNoneSkipped, CliReading
  <2>6. CliInOrder'
    BY <1>1, <1>7, <2>2 DEF CliInOrder
  <2>7. FailuresCounted(cli)'
    BY <1>1, <1>9, <2>2 DEF FailuresCounted
  <2>8. CliOK'
    BY <2>3, <2>4, <2>5, <2>6, <2>7 DEF CliOK
  <2>9. QED
    BY <1>0, <1>9, <2>2, <2>8, CliStep
<1>10. QED
  BY <1>4, <1>8, <1>9

LEMMA CliCloseKeeps ==
  ASSUME Core, CliClose
  PROVE  Core'
<1>0. UNCHANGED <<config, failures, serverVars>> /\ failures \in Nat
  BY Reported DEF CliClose
<1>1. CliInWork /\ CliAnswered /\ CliNoneSkipped /\ CliInOrder /\ FailuresCounted(cli) /\ cli.opened /\ CliUnasked = {}
  BY CliAtWork DEF CliClose, Core
<1>2. /\ cli.files \in Seq(File) /\ DOMAIN cli.files = 1..Len(cli.files) /\ Len(cli.files) \in Nat
      /\ cli.at \in Nat /\ cli.at \in DOMAIN cli.files /\ cli.lost \subseteq 1..(cli.at - 1)
  <2>1. cli.files \in Seq(File) /\ cli.at \in 1..(Len(cli.files) + 1) /\ cli.lost \subseteq 1..(cli.at - 1)
        /\ cli.at <= Len(cli.files)
    BY <1>1 DEF CliAnswered
  <2>2. DOMAIN cli.files = 1..Len(cli.files) /\ Len(cli.files) \in Nat
    BY <2>1
  <2>3. QED
    BY <2>1, <2>2
<1> DEFINE gaps == IF failures > cli.fileMark \/ (\E d \in DetectorIds : <<d, cli.at>> \in cli.thrown)
                   THEN cli.gaps \cup {cli.at} ELSE cli.gaps
<1>3. cli' = [cli EXCEPT !.gaps = gaps, !.at = cli.at + 1, !.opened = FALSE]
  BY DEF CliClose
<1> HIDE DEF gaps
<1>4. cli' = CliRecord(cli.files, cli.at + 1, FALSE, cli.mark, cli.fileMark, cli.answers, cli.thrown, cli.lost, gaps)
  <2>1. PICK c1 : c1 = [cli EXCEPT !.gaps = gaps]
    OBVIOUS
  <2>2. c1 = CliRecord(cli.files, cli.at, cli.opened, cli.mark, cli.fileMark, cli.answers, cli.thrown, cli.lost, gaps)
    BY <1>1, <2>1, CliSets
  <2>3. PICK c2 : c2 = [c1 EXCEPT !.at = cli.at + 1]
    OBVIOUS
  <2>4. c2 = CliRecord(cli.files, cli.at + 1, cli.opened, cli.mark, cli.fileMark, cli.answers, cli.thrown, cli.lost, gaps)
    BY <2>2, <2>3 DEF CliInWork, CliRecord
  <2>5. cli' = [c2 EXCEPT !.opened = FALSE]
    BY <1>3, <2>1, <2>3
  <2>6. QED
    BY <2>4, <2>5 DEF CliRecord
<1>5. /\ cli'.stage = "scanning" /\ cli'.files = cli.files /\ cli'.at = cli.at + 1 /\ cli'.opened = FALSE
      /\ cli'.mark = cli.mark /\ cli'.answers = cli.answers /\ cli'.thrown = cli.thrown /\ cli'.lost = cli.lost
  BY <1>4 DEF CliRecord
<1>6. CliInWork'
  BY <1>4 DEF CliInWork, CliRecord
<1>7. CliAnswered'
  <2>1. cli.at + 1 \in 1..(Len(cli.files) + 1) /\ cli.lost \subseteq 1..((cli.at + 1) - 1)
    BY <1>2
  <2>2. QED
    BY <1>0, <1>1, <1>5, <2>1 DEF CliAnswered
\* The registry's order leaves no detector out.
<1>8. \A d \in DetectorIds : CliReading(d, cli.at).asked # {} =>
        <<d, cli.at>> \in DOMAIN cli.answers \/ <<d, cli.at>> \in cli.thrown
  <2> SUFFICES ASSUME NEW d \in DetectorIds, CliReading(d, cli.at).asked # {}
               PROVE  <<d, cli.at>> \in DOMAIN cli.answers \/ <<d, cli.at>> \in cli.thrown
    OBVIOUS
  <2>1. PICK n \in DOMAIN Order : Order[n] = d
    <3>1. /\ 1 \in DOMAIN Order /\ 2 \in DOMAIN Order /\ 3 \in DOMAIN Order
          /\ 4 \in DOMAIN Order /\ 5 \in DOMAIN Order /\ 6 \in DOMAIN Order
          /\ Order[1] = "auth" /\ Order[2] = "secrets" /\ Order[3] = "webhook"
          /\ Order[4] = "env" /\ Order[5] = "admin" /\ Order[6] = "idor"
      BY DEF Order
    <3>2. QED
      BY <3>1 DEF DetectorIds
  <2>2. n \notin CliUnasked
    BY <1>1
  <2>3. QED
    BY <2>1, <2>2 DEF CliUnasked
<1>9. CliNoneSkipped'
  <2>1. \A k \in (1..((cli.at + 1) - 1)) \ cli.lost : k = cli.at \/ k \in (1..(cli.at - 1)) \ cli.lost
    BY <1>2
  <2>2. \A d \in DetectorIds : \A k \in (1..((cli.at + 1) - 1)) \ cli.lost :
          CliReading(d, k).asked # {} => <<d, k>> \in DOMAIN cli.answers \/ <<d, k>> \in cli.thrown
    BY <1>1, <1>8, <2>1 DEF CliNoneSkipped
  <2>3. QED
    BY <1>0, <1>5, <2>2 DEF CliNoneSkipped, CliReading
<1>10. CliInOrder'
  <2>1. \A dk \in DOMAIN cli.answers \cup cli.thrown : dk[2] < cli.at \/ dk[2] = cli.at
    BY <1>1 DEF CliInOrder
  <2>2. \A dk \in DOMAIN cli.answers \cup cli.thrown : dk[2] \in Nat
    BY <1>1, <1>2 DEF CliAnswered
  <2>3. \A dk \in DOMAIN cli.answers \cup cli.thrown : dk[2] < cli.at + 1
    BY <1>2, <2>1, <2>2
  <2>4. QED
    BY <1>5, <2>3 DEF CliInOrder
<1>11. FailuresCounted(cli)'
  BY <1>0, <1>1, <1>5 DEF FailuresCounted
<1>12. CliOK'
  BY <1>6, <1>7, <1>9, <1>10, <1>11 DEF CliOK
<1>13. QED
  BY <1>0, <1>5, <1>12, CliStep

\* A finding of the command line, like one of a server's scan, is a finding.
LEMMA CliFoundIsTyped ==
  ASSUME CliAnswered, config \in Configs
  PROVE  CliFindings \in FindingSet
<1> SUFFICES ASSUME NEW dk \in DetectorIds \X (DOMAIN cli.files \ cli.lost)
             PROVE  Findings(dk[1], cli.files[dk[2]], CliContent(dk[2]), CliReading(dk[1], dk[2]),
                             IF dk \in DOMAIN cli.answers THEN cli.answers[dk] ELSE NoAnswer) \subseteq FindingRecord
  BY DEF CliFindings, FindingSet, FindingRecord
<1> DEFINE d == dk[1]
           f == cli.files[dk[2]]
           a == IF dk \in DOMAIN cli.answers THEN cli.answers[dk] ELSE NoAnswer
<1>1. d \in DetectorIds /\ f \in File /\ "whole" \in Fetches
  BY DEF CliAnswered, Fetches
<1>2. a = NoAnswer \/ a \in Answers[d][f]["whole"][config]
  BY DEF CliAnswered
<1> HIDE DEF d, f, a
<1>3. LinesOf(ContentOf[f]["whole"])
  BY <1>1, ContentsAre
<1>4. /\ Readings[d][f]["whole"][config] = ReadingOf(d, Facts[f], ContentOf[f]["whole"], config)
      /\ Answers[d][f]["whole"][config] = AnswersTo(d, Readings[d][f]["whole"][config], config)
  BY <1>1, TablesAre
<1>5. Findings(d, f, ContentOf[f]["whole"], Readings[d][f]["whole"][config], a) \subseteq FindingRecord
  BY <1>1, <1>2, <1>3, <1>4, FindingsAre
<1>6. QED
  BY <1>5 DEF CliContent, CliReading, d, f, a

LEMMA CliReportKeeps ==
  ASSUME Core, CliReport
  PROVE  Core'
<1>0. UNCHANGED <<config, failures, serverVars>> /\ {} \in FindingSet
  BY DEF CliReport, FindingSet
<1>1. CliFindings \in FindingSet
  BY Reported, CliAtWork, CliFoundIsTyped DEF CliReport, Core
<1>2. (IF Degradations > 0 THEN 2 ELSE 0) \in {0, 1, 2} /\ 1 \in {0, 1, 2}
  OBVIOUS
<1>3. CASE cli' = Exited(1, "no report", {}, {})
  BY <1>0, <1>2, <1>3, ExitKeeps
<1>4. CASE cli' = Exited(IF Degradations > 0 THEN 2 ELSE 0, Banner, CliFindings, cli.gaps)
  BY <1>0, <1>1, <1>2, <1>4, ExitKeeps
<1>5. QED
  BY <1>3, <1>4 DEF CliReport

----------------------------------------------------------------------------
(* The two ways of scanning together *)

LEMMA CoreKeeps ==
  ASSUME Core, [Next]_vars
  PROVE  Core'
<1>1. CASE Server
  <2>1. cli = Idle
    BY <1>1 DEF Server
  <2>2. PICK s \in Scan : Begin(s) \/ Judge(s) \/ Throw(s) \/ Finish(s) \/ TimeOut(s)
    BY <1>1 DEF Server
  <2>3. QED
    BY <2>1, <2>2, BeginKeeps, JudgeKeeps, ThrowKeeps, FinishKeeps
<1>2. CASE CommandLine
  BY <1>2, CliStartKeeps, CliOpenKeeps, CliLoseKeeps, CliJudgeKeeps, CliCloseKeeps, CliReportKeeps DEF CommandLine
<1>3. CASE UNCHANGED vars
  <2>1. UNCHANGED <<config, serverVars, cli>> /\ failures' = failures
    BY <1>3 DEF vars, scanVars
  <2>2. WorkOK'
    BY <2>1, Reported, WorkStays DEF serverVars
  <2>3. CliOK'
    BY <2>1 DEF Core, CliOK, CliInWork, CliAnswered, CliNoneSkipped, CliReading, CliInOrder, FailuresCounted
  <2>4. TypeOK' /\ DOMAIN report' = Scan
    BY <2>1 DEF serverVars, Core, TypeOK
  <2>5. QED
    BY <2>2, <2>3, <2>4 DEF Core
<1>4. QED
  BY <1>1, <1>2, <1>3 DEF Next

\* Only the opening of a file judges it with guards, and all of them are its own.
LEMMA GuardedKeeps ==
  ASSUME GuardedByItsOwn, [Next]_vars
  PROVE  GuardedByItsOwn'
<1>1. CASE CliOpen
  <2> DEFINE file == cli.files[cli.at]
             route == Facts[file].route
  <2>1. PICK unreadable : guarded' = guarded \cup {<<file, g>> : g \in GuardsOnDisk(route, unreadable)}
    BY <1>1 DEF CliOpen
  <2>2. GuardsOnDisk(route, unreadable) \subseteq GuardsOnDisk(route, {})
    BY NoneReplaced
  <2>3. QED
    BY <2>1, <2>2 DEF GuardedByItsOwn
<1>2. CASE guarded' = guarded
  BY <1>2 DEF GuardedByItsOwn
<1>3. QED
  BY <1>1, <1>2 DEF Next, Server, CommandLine, CliStart, CliLose, CliJudge, CliClose, CliReport, vars

\* At every moment each scan, and the command line's, is where the invariant
\* says, and the guards that it used are its files' own.
THEOREM Inductive == Spec => []IInv
<1>1. Init => IInv
  <2> SUFFICES ASSUME Init PROVE IInv
    OBVIOUS
  <2>1. /\ config \in Configs /\ failures = 0 /\ cli = Idle
        /\ DOMAIN work = Scan /\ DOMAIN report = Scan
        /\ \A s \in Scan : work[s] = Idle /\ report[s] = NoReport
    BY DEF Init, ScanInit
  <2>2. Idle.stage = "idle"
    BY DEF Idle
  <2>3. WorkOK /\ CliOK
    BY <2>1 DEF WorkOK, CliOK
  <2>4. TypeOK
    BY <2>1, <2>2 DEF TypeOK
  <2>5. GuardedByItsOwn
    BY DEF Init, GuardedByItsOwn
  <2>6. QED
    BY <2>1, <2>3, <2>4, <2>5 DEF IInv, Core
<1>2. IInv /\ [Next]_vars => IInv'
  BY CoreKeeps, GuardedKeeps DEF IInv
<1>3. QED
  BY <1>1, <1>2, PTL DEF Spec

\* Every result is of a known kind and its findings are findings, none both
\* a fix and pre-existing (the results of auditor-workflow.ts, the exit of
\* cli/scan.ts).
THEOREM TypeCorrect == Spec => []TypeOK
<1>1. IInv => TypeOK
  BY DEF IInv, Core
<1>2. QED
  BY Inductive, <1>1, PTL

----------------------------------------------------------------------------
(* What a result says of the scan *)

Late == [status |-> "failed", errors |-> {"workflow"}, fixes |-> {}, pre |-> {}, reached |-> FALSE]

\* A result is a finished scan's, or the timeout's.
LEMMA ReportedBy ==
  ASSUME Core, Next, NEW s \in Scan, report[s] = NoReport, report'[s] # NoReport
  PROVE  \/ /\ InWork(work[s]) /\ Answered(work[s]) /\ FailuresCounted(work[s])
            /\ Unasked(work[s]) = {} /\ report'[s] = Result(work[s])
         \/ report'[s] = Late
<1>0. DOMAIN report = Scan /\ WorkOK
  BY Reported
<1>1. report' # report
  OBVIOUS
<1>2. Server
  BY <1>1 DEF Next, CommandLine, CliStart, CliOpen, CliLose, CliJudge, CliClose, CliReport, serverVars
<1>3. PICK t \in Scan : Finish(t) \/ TimeOut(t)
  BY <1>1, <1>2 DEF Server, Begin, Judge, Throw
<1>4. t = s
  BY <1>0, <1>3 DEF Finish, TimeOut
<1>5. CASE Finish(s)
  <2>1. work[s].stage = "detecting" /\ Unasked(work[s]) = {} /\ report'[s] = Result(work[s])
    BY <1>0, <1>5 DEF Finish
  <2>2. QED
    BY <1>0, <2>1, AtWork
<1>6. CASE TimeOut(s)
  BY <1>0, <1>6 DEF TimeOut, Late
<1>7. QED
  BY <1>3, <1>4, <1>5, <1>6

\* A scan of which no call failed and no detector threw was judged in full:
\* the tally, shared as it is, stayed where the scan found it.
LEMMA Judged ==
  ASSUME NEW w, failures \in Nat, Answered(w), FailuresCounted(w), Unasked(w) = {},
         "coverage" \notin Errors(w), "detector" \notin Errors(w)
  PROVE  JudgedInFull(w)
<1>1. ~(failures > w.mark) /\ w.thrown = {}
  BY DEF Errors
<1>2. SUFFICES ASSUME NEW d \in DetectorIds, NEW k \in Parts(w.files), ReadingIn(w, d, k).asked # {}
               PROVE  <<d, k>> \in DOMAIN w.answers /\ w.answers[<<d, k>>].reply.ok
  BY DEF JudgedInFull
<1>3. <<d, k>> \in (DetectorIds \ w.thrown) \X Parts(w.files)
  BY <1>1
<1>4. <<d, k>> \in DOMAIN w.answers
  BY <1>2, <1>3 DEF Unasked
<1>5. QED
  BY <1>1, <1>4 DEF FailuresCounted

\* A file that is not dropped gives the detectors something to read, and a
\* dropped one nothing.
LEMMA DroppedIsEmpty ==
  ASSUME NEW w, Answered(w), NEW k \in Dropped(w)
  PROVE  k \in Parts(w.files) /\ Content(w, k) = <<>>
<1>1. /\ k \in Parts(w.files) /\ w.fetched[k] = "oversized"
      /\ ~HasAddedLines(Facts[w.files[k]].hunk)
  BY DEF Dropped
<1>2. w.files[k] \in File
  BY <1>1 DEF Answered, Parts
<1>3. "oversized" \in Fetches
  BY DEF Fetches
<1>4. Content(w, k) = FileInput(Facts[w.files[k]].hunk, "oversized")
  BY <1>1, <1>2, <1>3 DEF Content, ContentOf
<1>5. FileInput(Facts[w.files[k]].hunk, "oversized") = <<>>
  BY <1>1 DEF FileInput
<1>6. QED
  BY <1>1, <1>4, <1>5

\* A scan with something to scan of which no fetch failed has read all that
\* it did not drop.
LEMMA Read ==
  ASSUME NEW w, Answered(w), ~NothingToScan(w), "fetch" \notin Errors(w), "guard" \notin Errors(w)
  PROVE  ReadInFull(w)
<1>1. \A k \in Parts(w.files) : w.fetched[k] # "failed" /\ ~GuardUnresolved(RouteOf(w, k), w.faults)
  BY DEF Errors
<1>2. Parts(w.files) \ Dropped(w) # {}
  BY DroppedIsEmpty DEF NothingToScan
<1>3. \A k \in Parts(w.files) : w.fetched[k] \in {"whole", "oversized"}
  BY <1>1 DEF Answered, Fetches
<1>4. \A k \in Parts(w.files) \ Dropped(w) :
        w.fetched[k] = "oversized" => HasAddedLines(Facts[w.files[k]].hunk)
  BY DEF Dropped
<1>5. QED
  BY <1>1, <1>2, <1>3, <1>4, GuardsStand DEF ReadInFull

\* The result of a scan that had something to scan, and of one that had not.
LEMMA ResultIs ==
  ASSUME NEW w
  PROVE  \/ /\ Result(w).errors = {"payload"} /\ Result(w).fixes = {} /\ Result(w).reached = FALSE
         \/ /\ ~NothingToScan(w) /\ Result(w).errors = Errors(w) /\ Result(w).reached = TRUE
            /\ Result(w).fixes = FixesOf(w, Kept(w)) /\ Result(w).pre = Kept(w) \ FixesOf(w, Kept(w))
<1> DEFINE kept == Kept(w)
           fixes == FixesOf(w, kept)
           errors == Errors(w)
           status == Status(fixes, errors)
<1>1. Result(w) = IF NothingToScan(w)
        THEN [status |-> "failed", errors |-> {"payload"}, fixes |-> {}, pre |-> {}, reached |-> FALSE]
        ELSE [status |-> status, errors |-> errors, fixes |-> fixes, pre |-> kept \ fixes, reached |-> TRUE]
  BY DEF Result
<1> HIDE DEF kept, fixes, errors, status
<1>2. \/ Result(w).errors = {"payload"} /\ Result(w).fixes = {} /\ Result(w).reached = FALSE
      \/ /\ ~NothingToScan(w) /\ Result(w).errors = errors /\ Result(w).reached = TRUE
         /\ Result(w).fixes = fixes /\ Result(w).pre = kept \ fixes
  BY <1>1
<1>3. QED
  BY <1>2 DEF kept, fixes, errors

\* The command line's exit with a report is that of a scan of all its files.
LEMMA ExitsBy ==
  ASSUME Core, Next, cli.stage = "scanning", cli'.stage = "exited"
  PROVE  CliReport /\ CliInWork /\ CliAnswered /\ CliNoneSkipped /\ FailuresCounted(cli) /\ failures \in Nat
<1>1. CliInWork /\ CliAnswered /\ CliNoneSkipped /\ FailuresCounted(cli)
  BY CliAtWork DEF Core
<1>2. cli # Idle
  BY DEF Idle
<1>3. ~CliOpen /\ ~CliLose /\ ~CliJudge /\ ~CliClose
  <2>1. CliOpen => cli'.stage = "scanning"
    BY <1>1 DEF CliOpen, CliInWork
  <2>2. CliLose => cli'.stage = "scanning"
    BY <1>1 DEF CliLose, CliInWork
  <2>3. CliJudge => cli'.stage = "scanning"
    BY <1>1 DEF CliJudge, CliInWork
  <2>4. CliClose => cli'.stage = "scanning"
    BY <1>1 DEF CliClose, CliInWork
  <2>5. QED
    BY <2>1, <2>2, <2>3, <2>4
<1>4. CliReport
  BY <1>2, <1>3 DEF Next, Server, CommandLine, CliStart
<1>5. QED
  BY <1>1, <1>4, Reported

LEMMA ExitsAre ==
  ASSUME NEW e, NEW code, NEW banner, NEW findings, NEW gaps, e = Exited(code, banner, findings, gaps)
  PROVE  e.code = code /\ e.banner = banner /\ e.findings = findings
  BY DEF Exited

\* Degradations count, so that none means none of each kind.
LEMMA NoneDegraded ==
  ASSUME CliAnswered, FailuresCounted(cli), failures \in Nat, ~(Degradations > 0)
  PROVE  failures = cli.mark /\ cli.lost = {} /\ cli.thrown = {}
<1>1. /\ cli.lost \subseteq 1..(cli.at - 1) /\ cli.at \in Int
      /\ cli.thrown \subseteq DetectorIds \X (1..Len(cli.files)) /\ Len(cli.files) \in Nat
  <2>1. cli.files \in Seq(File) /\ cli.at \in 1..(Len(cli.files) + 1)
    BY DEF CliAnswered
  <2>2. DOMAIN cli.files = 1..Len(cli.files) /\ Len(cli.files) \in Nat
    BY <2>1
  <2>3. QED
    BY <2>1, <2>2 DEF CliAnswered
<1>2. IsFiniteSet(cli.lost)
  <2>1. cli.at - 1 \in Int
    BY <1>1
  <2>2. IsFiniteSet(1..(cli.at - 1))
    BY <2>1, FS_Interval
  <2>3. QED
    BY <1>1, <2>2, FS_Subset
<1>3. IsFiniteSet(cli.thrown)
  <2>1. IsFiniteSet(1..Len(cli.files))
    BY <1>1, FS_Interval
  <2>2. IsFiniteSet(DetectorIds)
    <3>1. IsFiniteSet({})
      BY FS_EmptySet
    <3>2. DetectorIds = (((((({} \cup {"auth"}) \cup {"secrets"}) \cup {"webhook"}) \cup {"env"}) \cup {"admin"}) \cup {"idor"})
      BY DEF DetectorIds
    <3>3. QED
      BY <3>1, <3>2, FS_AddElement
  <2>3. IsFiniteSet(DetectorIds \X (1..Len(cli.files)))
    BY <2>1, <2>2, FS_Product
  <2>4. QED
    BY <1>1, <2>3, FS_Subset
<1>4. Cardinality(cli.lost) \in Nat /\ Cardinality(cli.thrown) \in Nat
  BY <1>2, <1>3, FS_CardinalityType
<1>5. cli.mark \in Nat /\ cli.mark <= failures
  BY DEF FailuresCounted
<1>6. failures = cli.mark /\ Cardinality(cli.lost) = 0 /\ Cardinality(cli.thrown) = 0
  BY <1>4, <1>5 DEF Degradations
<1>7. QED
  BY <1>2, <1>3, <1>6, FS_EmptySet

\* Whatever other scans of the process do meanwhile, a result reads as clean
\* only when every call was made and answered, every file that is not dropped
\* was read and every route judged with its own guards; on the command line,
\* with some of them and no other (runAuditorWorkflow, outcomeFromWorkflow,
\* main of cli/scan.ts).
THEOREM CleanIsJudged == Spec => CleanMeansJudged
<1>1. ASSUME Core, Next, NEW s \in Scan
      PROVE  ResultIsJudged(s)
  <2> SUFFICES ASSUME report[s] = NoReport, report'[s] # NoReport
               PROVE  LET r == report'[s] IN
                        /\ CommentIsClean(r) \/ RowStatus(r) = "completed" =>
                             JudgedInFull(work[s]) /\ ReadInFull(work[s])
                        /\ r.fixes # {} /\ SarifSuccessful(r) => JudgedInFull(work[s])
    BY DEF ResultIsJudged
  <2> DEFINE r == report'[s]
             w == work[s]
  <2>1. \/ /\ Answered(w) /\ FailuresCounted(w) /\ Unasked(w) = {} /\ r = Result(w)
        \/ r = Late
    BY <1>1, ReportedBy
  <2>2. failures \in Nat
    BY <1>1, Reported
  <2>3. CASE r = Late
    BY <2>3 DEF Late, CommentIsClean, RowStatus
  <2>4. CASE Answered(w) /\ FailuresCounted(w) /\ Unasked(w) = {} /\ r = Result(w)
    <3>1. \/ r.errors = {"payload"} /\ r.fixes = {} /\ r.reached = FALSE
          \/ ~NothingToScan(w) /\ r.errors = Errors(w)
      BY <2>4, ResultIs
    <3>2. CommentIsClean(r) => r.errors = {}
      BY DEF CommentIsClean
    <3>3. RowStatus(r) = "completed" => r.errors = {} /\ r.reached
      BY DEF RowStatus
    <3>4. SarifSuccessful(r) => "coverage" \notin r.errors /\ "detector" \notin r.errors
      BY DEF SarifSuccessful
    <3> HIDE DEF r, w
    <3>5. ~NothingToScan(w) /\ r.errors = Errors(w) /\ r.errors = {} => JudgedInFull(w) /\ ReadInFull(w)
      BY <2>2, <2>4, Judged, Read
    <3>6. r.errors = Errors(w) /\ SarifSuccessful(r) => JudgedInFull(w)
      BY <2>2, <2>4, <3>4, Judged
    <3>7. CommentIsClean(r) \/ RowStatus(r) = "completed" => JudgedInFull(w) /\ ReadInFull(w)
      BY <3>1, <3>2, <3>3, <3>5
    <3>8. r.fixes # {} /\ SarifSuccessful(r) => JudgedInFull(w)
      BY <3>1, <3>6
    <3>9. QED
      BY <3>7, <3>8 DEF r, w
  <2>5. QED
    BY <2>1, <2>3, <2>4
<1>2. ASSUME IInv, Next
      PROVE  ExitIsJudged
  <2> SUFFICES ASSUME cli.stage = "scanning", cli'.stage = "exited", cli'.code = 0
               PROVE  /\ cli.lost = {}
                      /\ \A d \in DetectorIds, k \in DOMAIN cli.files :
                           CliReading(d, k).asked # {} =>
                             <<d, k>> \in DOMAIN cli.answers /\ cli.answers[<<d, k>>].reply.ok
                      /\ \A x \in guarded : x[2] \in GuardsOnDisk(Facts[x[1]].route, {})
    BY DEF ExitIsJudged
  <2>1. /\ CliReport /\ CliAnswered /\ CliNoneSkipped /\ FailuresCounted(cli)
        /\ failures \in Nat
    BY <1>2, ExitsBy DEF IInv
  <2>2. ~(Degradations > 0)
    <3>1. CASE cli' = Exited(1, "no report", {}, {})
      <4>1. cli'.code = 1
        BY <3>1, ExitsAre
      <4>2. QED
        BY <4>1
    <3>2. CASE cli' = Exited(IF Degradations > 0 THEN 2 ELSE 0, Banner, CliFindings, cli.gaps)
      <4>1. cli'.code = IF Degradations > 0 THEN 2 ELSE 0
        BY <3>2, ExitsAre
      <4>2. QED
        BY <4>1
    <3>3. QED
      BY <2>1, <3>1, <3>2 DEF CliReport
  <2>3. failures = cli.mark /\ cli.lost = {} /\ cli.thrown = {}
    BY <2>1, <2>2, NoneDegraded
  <2>4. DOMAIN cli.files \subseteq (1..(cli.at - 1)) \ cli.lost
    <3>1. /\ cli.files \in Seq(File) /\ cli.at \in 1..(Len(cli.files) + 1)
          /\ cli.at > Len(cli.files)
      BY <2>1 DEF CliAnswered, CliReport
    <3>2. DOMAIN cli.files = 1..Len(cli.files) /\ Len(cli.files) \in Nat
      BY <3>1
    <3>3. QED
      BY <2>3, <3>1, <3>2
  <2>5. \A d \in DetectorIds, k \in DOMAIN cli.files :
          CliReading(d, k).asked # {} => <<d, k>> \in DOMAIN cli.answers
    BY <2>1, <2>3, <2>4 DEF CliNoneSkipped
  <2>6. \A dk \in DOMAIN cli.answers : cli.answers[dk].reply.ok
    BY <2>1, <2>3 DEF FailuresCounted
  <2>7. \A x \in guarded : x[2] \in GuardsOnDisk(Facts[x[1]].route, {})
    BY <1>2 DEF IInv, GuardedByItsOwn
  <2>8. QED
    BY <2>3, <2>5, <2>6, <2>7
<1>3. IInv /\ [Next]_vars => [(\A s \in Scan : ResultIsJudged(s)) /\ ExitIsJudged]_vars
  BY <1>1, <1>2 DEF IInv
<1>4. QED
  BY Inductive, <1>3, PTL DEF Spec, CleanMeansJudged

\* Whatever a detector was told of its own lane is in the result, to be fixed
\* when its line is touched, or in the report (partitionFindingsByChangedLines,
\* passesOrgSettings, main of cli/scan.ts).
THEOREM VerdictsAccounted == Spec => VerdictsAreAccountedFor
<1>1. ASSUME Core, Next, NEW s \in Scan
      PROVE  VerdictsAreKept(s)
  <2> DEFINE r == report'[s]
             w == work[s]
  <2> SUFFICES ASSUME report[s] = NoReport, report'[s] # NoReport, report'[s].reached,
                      NEW dk \in DOMAIN w.answers, dk[1] \notin w.thrown,
                      NEW x \in Owed(dk[1], w.files[dk[2]], Content(w, dk[2]),
                                    ReadingIn(w, dk[1], dk[2]), w.answers[dk]),
                      Passes(x, w.settings, DetectorIds)
               PROVE  \/ x \in r.fixes
                      \/ x \in r.pre /\ x.line \notin ChangedIn(w, x.file)
    BY DEF VerdictsAreKept
  <2>1. Answered(w) /\ r = Result(w)
    BY <1>1, ReportedBy DEF Late
  <2>2. r.fixes = FixesOf(w, Kept(w)) /\ r.pre = Kept(w) \ FixesOf(w, Kept(w))
    BY <2>1, ResultIs
  <2> HIDE DEF r, w
  <2>3. dk[1] \in DetectorIds /\ dk[2] \in Parts(w.files) /\ dk = <<dk[1], dk[2]>>
    BY <2>1 DEF Answered
  <2>4. x \in FindingsIn(w, dk[1], dk[2])
    <3>1. <<dk[1], dk[2]>> \in DOMAIN w.answers /\ w.answers[<<dk[1], dk[2]>>] = w.answers[dk]
      BY <2>3
    <3>2. x \in Findings(dk[1], w.files[dk[2]], Content(w, dk[2]), ReadingIn(w, dk[1], dk[2]), w.answers[dk])
      BY OwedIsFound
    <3>3. QED
      BY <3>1, <3>2 DEF FindingsIn
  <2>5. x \in Kept(w)
    BY <2>3, <2>4 DEF Kept
  <2>6. x.line \in Nat
    <3>1. Kept(w) \subseteq FindingRecord
      BY <1>1, <2>1, Reported, KeptIsTyped
    <3>2. QED
      BY <2>5, <3>1 DEF FindingRecord
  <2>7. ASSUME x.line \in ChangedIn(w, x.file)
        PROVE  Introduced(x, ChangedIn(w, x.file))
    <3>1. x.line >= x.line - PreWindow /\ x.line <= x.line + PostWindow
      BY <2>6, ScanInputAssumption
    <3>2. QED
      BY <2>7, <3>1 DEF Introduced
  <2>8. QED
    BY <2>2, <2>5, <2>7 DEF FixesOf
<1>2. ASSUME Core, Next
      PROVE  VerdictsAreReported
  <2> SUFFICES ASSUME cli.stage = "scanning", cli'.stage = "exited", cli'.banner # "no report",
                      NEW dk \in DOMAIN cli.answers
               PROVE  Owed(dk[1], cli.files[dk[2]], CliContent(dk[2]), CliReading(dk[1], dk[2]),
                           cli.answers[dk]) \subseteq cli'.findings
    BY DEF VerdictsAreReported
  <2>1. CliReport /\ CliAnswered
    BY <1>2, ExitsBy
  <2>2. cli'.findings = CliFindings
    <3>1. CASE cli' = Exited(1, "no report", {}, {})
      <4>1. cli'.banner = "no report"
        BY <3>1 DEF Exited
      <4>2. QED
        BY <4>1
    <3>2. CASE cli' = Exited(IF Degradations > 0 THEN 2 ELSE 0, Banner, CliFindings, cli.gaps)
      BY <3>2, Zenon DEF Exited
    <3>3. QED
      BY <2>1, <3>1, <3>2 DEF CliReport
  <2>3. dk \in (DetectorIds \X (DOMAIN cli.files \ cli.lost)) \ cli.thrown
    BY <2>1 DEF CliAnswered
  <2> DEFINE found == Findings(dk[1], cli.files[dk[2]], CliContent(dk[2]), CliReading(dk[1], dk[2]), cli.answers[dk])
  <2>4. Owed(dk[1], cli.files[dk[2]], CliContent(dk[2]), CliReading(dk[1], dk[2]), cli.answers[dk]) \subseteq found
    BY OwedIsFound
  <2>5. found \subseteq CliFindings
    BY <2>3 DEF CliFindings
  <2>6. QED
    BY <2>2, <2>4, <2>5
<1>3. IInv /\ [Next]_vars => [(\A s \in Scan : VerdictsAreKept(s)) /\ VerdictsAreReported]_vars
  BY <1>1, <1>2 DEF IInv
<1>4. QED
  BY Inductive, <1>3, PTL DEF Spec, VerdictsAreAccountedFor

=============================================================================
