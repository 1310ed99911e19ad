---------------------------- MODULE MeteringProofs ----------------------------
(* Proofs about the metering reader for every window, gap, layout and history *)
(* of frames: what the run of junk blocks stands on; and about the METER feed  *)
(* for any pages, strides, queue depths and streams.                          *)
EXTENDS Metering, MeterFeed, FiniteSetTheorems, SequenceTheorems, TLAPS

USE WindowAssumption, NoneAssumption

\* The last junk block is k blocks back, and all behind it were dropped.
Recent(rs, k) ==
    /\ k < Len(rs) /\ rs[Len(rs) - k] = "junk"
    /\ \A m \in (Len(rs) - k + 1)..Len(rs) : rs[m] = "dropped"

\* What a run says of the readings it took.
RunIs(run, rs) ==
    /\ run.engaged = EngagedOn(rs)
    /\ run.engaged => run.pending = None
    /\ ~run.engaged =>
          /\ run.pending # None => Recent(rs, run.pending)
          /\ run.pending = None => \A k \in 0..(GAP_BLOCKS - 1) : ~Recent(rs, k)

-----------------------------------------------------------------------------
(* Sequences of readings.                                                   *)

\* A reading is added at the end.
LEMMA Appended ==
    ASSUME NEW rs \in Seq(States), NEW s \in States
    PROVE  /\ Append(rs, s) \in Seq(States) /\ Len(Append(rs, s)) = Len(rs) + 1 /\ Len(rs) \in Nat
           /\ \A i \in 1..Len(rs) : Append(rs, s)[i] = rs[i] /\ rs[i] \in States
           /\ Append(rs, s)[Len(rs) + 1] = s /\ DOMAIN rs = 1..Len(rs) /\ DOMAIN Append(rs, s) = 1..(Len(rs) + 1)
  OBVIOUS

\* Music disengages.
LEMMA EngagedReal == ASSUME NEW rs \in Seq(States) PROVE ~EngagedOn(Append(rs, "real"))
  BY Appended DEF EngagedOn, States

\* A dropped block changes nothing.
LEMMA EngagedDropped ==
    ASSUME NEW rs \in Seq(States) PROVE EngagedOn(Append(rs, "dropped")) = EngagedOn(rs)
  <1> DEFINE a == Append(rs, "dropped")
  <1>1. /\ Len(a) = Len(rs) + 1 /\ Len(rs) \in Nat /\ \A i \in 1..Len(rs) : a[i] = rs[i]
        /\ a[Len(rs) + 1] = "dropped" /\ DOMAIN rs = 1..Len(rs) /\ DOMAIN a = 1..(Len(rs) + 1)
    BY Appended DEF States
  <1> HIDE DEF a
  <1>2. ASSUME EngagedOn(rs) PROVE EngagedOn(a)
    BY <1>1, <1>2 DEF EngagedOn
  <1>3. ASSUME EngagedOn(a) PROVE EngagedOn(rs)
    <2>1. PICK i, j \in DOMAIN a :
             /\ i < j /\ j - i <= GAP_BLOCKS /\ a[i] = "junk" /\ a[j] = "junk"
             /\ \A k \in i..Len(a) : a[k] # "real"
      BY <1>3 DEF EngagedOn
    <2>2. i \in DOMAIN rs /\ j \in DOMAIN rs
      BY <2>1, <1>1
    <2>3. QED
      BY <2>1, <2>2, <1>1 DEF EngagedOn
  <1>4. EngagedOn(a) = EngagedOn(rs)
    <2>1. EngagedOn(a) \in BOOLEAN /\ EngagedOn(rs) \in BOOLEAN
      BY DEF EngagedOn
    <2>2. QED
      BY <1>2, <1>3, <2>1
  <1>5. QED
    BY <1>4 DEF a

\* A junk block engages when the one before it is near enough.
LEMMA EngagedJunk ==
    ASSUME NEW rs \in Seq(States)
    PROVE  EngagedOn(Append(rs, "junk")) <=> (EngagedOn(rs) \/ \E k \in 0..(GAP_BLOCKS - 1) : Recent(rs, k))
  <1> DEFINE a == Append(rs, "junk")
             n == Len(rs)
  <1>1. /\ Len(a) = n + 1 /\ n \in Nat /\ \A i \in 1..n : a[i] = rs[i] /\ rs[i] \in States
        /\ a[n + 1] = "junk" /\ DOMAIN rs = 1..n /\ DOMAIN a = 1..(n + 1)
    BY Appended DEF States
  <1> HIDE DEF a, n
  <1>2. ASSUME EngagedOn(rs) PROVE EngagedOn(a)
    BY <1>1, <1>2 DEF EngagedOn, n
  <1>3. ASSUME NEW k \in 0..(GAP_BLOCKS - 1), Recent(rs, k) PROVE EngagedOn(a)
    <2>1. n - k \in 1..n /\ n - k < n + 1 /\ (n + 1) - (n - k) <= GAP_BLOCKS /\ a[n - k] = "junk"
      BY <1>3, <1>1 DEF Recent, n
    <2>2. \A m \in (n - k)..(n + 1) : a[m] # "real"
      BY <1>3, <1>1, <2>1 DEF Recent, n
    <2>3. n - k \in DOMAIN a /\ n + 1 \in DOMAIN a
      BY <2>1, <1>1
    <2>4. QED
      BY <2>1, <2>2, <2>3, <1>1 DEF EngagedOn
  <1>4. ASSUME EngagedOn(a), ~EngagedOn(rs) PROVE \E k \in 0..(GAP_BLOCKS - 1) : Recent(rs, k)
    <2>1. PICK i, j \in DOMAIN a :
             /\ i < j /\ j - i <= GAP_BLOCKS /\ a[i] = "junk" /\ a[j] = "junk"
             /\ \A k \in i..Len(a) : a[k] # "real"
      BY <1>4 DEF EngagedOn
    <2>2. i \in 1..n /\ rs[i] = "junk" /\ \A m \in i..n : rs[m] # "real"
      BY <2>1, <1>1
    <2>3. j = n + 1
      BY <2>1, <2>2, <1>1, <1>4 DEF EngagedOn, n
    <2>4. ASSUME NEW m \in (i + 1)..n PROVE rs[m] = "dropped"
      <3>1. m \in 1..n /\ i < m /\ m - i <= GAP_BLOCKS /\ rs[m] \in {"dropped", "real", "junk"} /\ rs[m] # "real"
        BY <2>1, <2>2, <2>3, <2>4, <1>1 DEF States
      <3>2. rs[m] # "junk"
        BY <3>1, <2>2, <1>1, <1>4 DEF EngagedOn, n
      <3>3. QED
        BY <3>1, <3>2
    <2>5. n - i \in 0..(GAP_BLOCKS - 1) /\ n - i < n /\ n - (n - i) = i
      BY <2>1, <2>2, <2>3, <1>1
    <2>6. Recent(rs, n - i)
      BY <2>2, <2>4, <2>5, <1>1 DEF Recent, n
    <2>7. QED
      BY <2>5, <2>6
  <1>5. QED
    BY <1>2, <1>3, <1>4 DEF a

\* How far back the last junk block is, after one more reading.
LEMMA RecentAppended ==
    ASSUME NEW rs \in Seq(States), NEW s \in States, NEW k \in Nat
    PROVE  Recent(Append(rs, s), k) <=>
              ((s = "junk" /\ k = 0) \/ (s = "dropped" /\ k > 0 /\ Recent(rs, k - 1)))
  <1> DEFINE a == Append(rs, s)
             n == Len(rs)
  <1>1. Len(a) = n + 1 /\ n \in Nat /\ a[n + 1] = s /\ \A i \in 1..n : a[i] = rs[i]
    BY Appended
  <1> HIDE DEF a, n
  <1>2. CASE k = 0
    BY <1>1, <1>2 DEF Recent
  <1>3. CASE k > 0
    <2>1. (n + 1) - k = n - (k - 1) /\ ((n + 1) - k) + 1 = (n - (k - 1)) + 1 /\ n + 1 \in ((n + 1) - k + 1)..(n + 1)
      BY <1>1, <1>3
    <2>2. ASSUME Recent(a, k) PROVE s = "dropped" /\ Recent(rs, k - 1)
      BY <2>1, <2>2, <1>1, <1>3 DEF Recent, n
    <2>3. ASSUME s = "dropped", Recent(rs, k - 1) PROVE Recent(a, k)
      <3>1. k - 1 < n /\ rs[n - (k - 1)] = "junk" /\ \A m \in (n - (k - 1) + 1)..n : rs[m] = "dropped"
        BY <2>3 DEF Recent, n
      <3>2. (n + 1) - k \in 1..n /\ k < n + 1
        BY <3>1, <1>1, <1>3
      <3>3. a[(n + 1) - k] = "junk"
        BY <3>1, <3>2, <2>1, <1>1
      <3>4. ASSUME NEW m \in ((n + 1) - k + 1)..(n + 1) PROVE a[m] = "dropped"
        <4>1. CASE m = n + 1
          <5>1. a[n + 1] = s /\ s = "dropped"
            BY <2>3, <1>1
          <5>2. QED
            BY <5>1, <4>1
        <4>2. CASE m # n + 1
          <5>1. m \in (n - (k - 1) + 1)..n /\ m \in 1..n
            BY <4>2, <3>2, <1>1, <1>3
          <5>2. QED
            BY <5>1, <3>1, <1>1
        <4>3. QED
          BY <4>1, <4>2
      <3>5. QED
        BY <3>2, <3>3, <3>4, <1>1 DEF Recent
    <2>4. QED
      BY <2>2, <2>3, <1>3 DEF a
  <1>4. QED
    BY <1>2, <1>3 DEF a

\* There is one last junk block.
LEMMA RecentUnique ==
    ASSUME NEW rs \in Seq(States), NEW k \in Nat, NEW m \in Nat, Recent(rs, k), Recent(rs, m)
    PROVE  k = m
  <1>1. Len(rs) \in Nat
    OBVIOUS
  <1>2. ASSUME NEW i \in Nat, NEW j \in Nat, i < j, Recent(rs, i), Recent(rs, j) PROVE FALSE
    <2>1. Len(rs) - i \in (Len(rs) - j + 1)..Len(rs)
      BY <1>1, <1>2 DEF Recent
    <2>2. rs[Len(rs) - i] = "junk" /\ rs[Len(rs) - i] = "dropped"
      BY <1>2, <2>1 DEF Recent
    <2>3. QED
      BY <2>2
  <1>3. ~(k < m) /\ ~(m < k)
    BY <1>2
  <1>4. QED
    BY <1>3

\* One reading taken is one step of what the run is to say.
LEMMA ObserveIs ==
    ASSUME NEW rs \in Seq(States), NEW s \in States, NEW run \in Runs, RunIs(run, rs)
    PROVE  Observe(run, s) \in Runs /\ RunIs(Observe(run, s), Append(rs, s))
  <1> DEFINE a == Append(rs, s)
             r == Observe(run, s)
  <1> SUFFICES r \in Runs /\ RunIs(r, a)
    OBVIOUS
  <1>1. s \in {"dropped", "real", "junk"} /\ 0 \in 0..GAP_BLOCKS /\ GAP_BLOCKS \in Nat /\ GAP_BLOCKS > 0
    BY DEF States
  <1>2. \A k \in Nat : Recent(a, k) <=> ((s = "junk" /\ k = 0) \/ (s = "dropped" /\ k > 0 /\ Recent(rs, k - 1)))
    BY RecentAppended
  <1>3. /\ s = "real" => ~EngagedOn(a)
        /\ s = "dropped" => EngagedOn(a) = EngagedOn(rs)
        /\ s = "junk" => (EngagedOn(a) <=> (EngagedOn(rs) \/ \E k \in 0..(GAP_BLOCKS - 1) : Recent(rs, k)))
    BY EngagedReal, EngagedDropped, EngagedJunk
  <1>4. EngagedOn(a) \in BOOLEAN /\ EngagedOn(rs) \in BOOLEAN
    BY DEF EngagedOn
  <1>5. /\ run.engaged = EngagedOn(rs) /\ (run.engaged => run.pending = None)
        /\ ~run.engaged /\ run.pending # None => Recent(rs, run.pending)
        /\ ~run.engaged /\ run.pending = None => \A k \in 0..(GAP_BLOCKS - 1) : ~Recent(rs, k)
        /\ run.pending # None => run.pending \in 0..GAP_BLOCKS
    BY DEF RunIs, Runs
  <1> HIDE DEF a, r
  <1>6. CASE run.engaged
    <2>1. CASE s = "real"
      <3>1. r = [engaged |-> FALSE, pending |-> None]
        BY <1>6, <2>1 DEF r, Observe, Unengaged
      <3>2. \A k \in 0..(GAP_BLOCKS - 1) : ~Recent(a, k)
        BY <2>1, <1>2
      <3>3. QED
        BY <3>1, <3>2, <2>1, <1>3, <1>4 DEF RunIs, Runs
    <2>2. CASE s # "real"
      <3>1. r = run
        BY <1>6, <2>2 DEF r, Observe
      <3>2. EngagedOn(a)
        BY <1>1, <1>3, <1>5, <1>6, <2>2
      <3>3. QED
        BY <3>1, <3>2, <1>4, <1>5, <1>6 DEF RunIs
    <2>3. QED
      BY <2>1, <2>2
  <1>7. CASE ~run.engaged
    <2> DEFINE old == run.pending = None \/ run.pending + 1 > GAP_BLOCKS
    <2>0. ~EngagedOn(rs)
      BY <1>5, <1>7
    <2>1. CASE old
      <3>1. \A k \in 0..(GAP_BLOCKS - 1) : ~Recent(rs, k)
        <4>1. ASSUME NEW k \in 0..(GAP_BLOCKS - 1), Recent(rs, k), run.pending # None PROVE FALSE
          <5>1. run.pending = k
            BY <4>1, <1>1, <1>5, <1>7, RecentUnique
          <5>2. QED
            BY <5>1, <4>1, <2>1, <1>1
        <4>2. QED
          BY <4>1, <1>5, <1>7
      <3>2. r = Start(s)
        BY <1>7, <2>1, <1>1, <1>5 DEF r, Observe
      <3>3. ~EngagedOn(a)
        BY <3>1, <2>0, <1>1, <1>3
      <3>4. CASE s = "junk"
        <4>1. r = [engaged |-> FALSE, pending |-> 0] /\ 0 # None
          <5>1. r = [Unengaged EXCEPT !.pending = 0]
            BY <3>2, <3>4 DEF Start
          <5>2. 0 \in Nat /\ 0 # None
            OBVIOUS
          <5>3. r = [engaged |-> FALSE, pending |-> 0]
            BY <5>1 DEF Unengaged
          <5>4. QED
            BY <5>2, <5>3
        <4>2. Recent(a, 0)
          BY <3>4, <1>2
        <4>3. QED
          BY <4>1, <4>2, <3>3, <1>1, <1>4 DEF RunIs, Runs
      <3>5. CASE s # "junk"
        <4>1. r = [engaged |-> FALSE, pending |-> None]
          BY <3>2, <3>5 DEF Start, Unengaged
        <4>2. ASSUME NEW k \in 0..(GAP_BLOCKS - 1), Recent(a, k) PROVE FALSE
          <5>1. k > 0 /\ Recent(rs, k - 1) /\ k - 1 \in 0..(GAP_BLOCKS - 1)
            BY <4>2, <3>5, <1>1, <1>2
          <5>2. QED
            BY <5>1, <3>1
        <4>3. QED
          BY <4>1, <4>2, <3>3, <1>4 DEF RunIs, Runs
      <3>6. QED
        BY <3>4, <3>5
    <2>2. CASE ~old
      <3>1. /\ run.pending \in Nat /\ run.pending + 1 \in 0..GAP_BLOCKS /\ run.pending \in 0..(GAP_BLOCKS - 1)
            /\ run.pending # None /\ run.pending + 1 # None /\ Recent(rs, run.pending)
        BY <2>2, <1>1, <1>5, <1>7
      <3>2. CASE s = "dropped"
        <4>1. r = [engaged |-> FALSE, pending |-> run.pending + 1]
          <5>1. r = [run EXCEPT !.pending = run.pending + 1]
            BY <3>1, <3>2, <1>1, <1>7 DEF r, Observe
          <5>2. run.engaged = FALSE /\ run = [engaged |-> run.engaged, pending |-> run.pending]
            BY <1>7 DEF Runs
          <5>3. QED
            BY <5>1, <5>2
        <4>2. Recent(a, run.pending + 1) /\ ~EngagedOn(a)
          BY <3>1, <3>2, <2>0, <1>2, <1>3
        <4>3. QED
          BY <4>1, <4>2, <3>1, <1>4 DEF RunIs, Runs
      <3>3. CASE s = "junk"
        <4>1. r = [engaged |-> TRUE, pending |-> None]
          BY <3>1, <3>3, <1>1, <1>7 DEF r, Observe
        <4>2. EngagedOn(a)
          BY <3>1, <3>3, <1>3
        <4>3. QED
          BY <4>1, <4>2, <1>4 DEF RunIs, Runs
      <3>4. CASE s = "real"
        <4>1. r = [engaged |-> FALSE, pending |-> None]
          BY <3>1, <3>4, <1>1, <1>7 DEF r, Observe, Unengaged
        <4>2. ~EngagedOn(a) /\ \A k \in 0..(GAP_BLOCKS - 1) : ~Recent(a, k)
          BY <3>4, <1>2, <1>3
        <4>3. QED
          BY <4>1, <4>2, <1>4 DEF RunIs, Runs
      <3>5. QED
        BY <3>2, <3>3, <3>4, <1>1
    <2>3. QED
      BY <2>1, <2>2
  <1>8. QED
    BY <1>6, <1>7

-----------------------------------------------------------------------------
(* Types.                                                                   *)

EngineType == engine \in [layout : Layouts, hires : BOOLEAN, pilot : BOOLEAN, serves : BOOLEAN,
                          junk : Engageable, main : Mains]
ReaderType ==
    /\ context \in {"playing", "stopped", "gone"} /\ reader \in {"gate", "check", "read", "pause", "ended"}
    /\ {held, levels, stopped} \subseteq BOOLEAN
EvidenceType ==
    /\ agg \in Evidence \cup {None} /\ heard \in Seq(States)
    /\ agg # None => Len(agg.blocks) <= WINDOW_BLOCKS /\ (agg.run.engaged => agg.run.pending = None)
SpentType == spent \in [Bounded -> Nat] /\ \A k \in Bounded : spent[k] <= Budget[k]

\* The run is what its readings say, and nothing read off the stream is left without it.
EvidenceStands == IF agg = None THEN heard = <<>> ELSE RunIs(agg.run, heard)

IInv == EngineType /\ ReaderType /\ EvidenceType /\ SpentType /\ EvidenceStands /\ NothingOutlivesEvidence

\* A lowest tone there is, where there is any.
LEMMA LowestType == ASSUME NEW S \in SUBSET Tones, S # {} PROVE Lowest(S) \in S
  <1>1. \E t \in S : \A u \in S : t <= u
    <2>1. S \subseteq {0, 1, 2}
      BY DEF Tones
    <2>2. CASE 0 \in S
      BY <2>1, <2>2
    <2>3. CASE 0 \notin S /\ 1 \in S
      BY <2>1, <2>3
    <2>4. CASE 0 \notin S /\ 1 \notin S
      <3>1. S \subseteq {2} /\ \E t \in S : TRUE
        BY <2>1, <2>4
      <3>2. QED
        BY <3>1
    <2>5. QED
      BY <2>2, <2>3, <2>4
  <1>2. QED
    BY <1>1 DEF Lowest

\* What is asked for is a corner, or nothing.
LEMMA ClassifyType == Classify \in Corners \cup {None}
  <1>1. Verdicts \subseteq {"20k", "30k"}
    BY DEF Verdicts
  <1>2. ASSUME Verdicts # {} PROVE \E c \in Verdicts : \A d \in Verdicts : CORNER_KHZ[c] <= CORNER_KHZ[d]
    <2>1. CORNER_KHZ["20k"] = 20 /\ CORNER_KHZ["30k"] = 30
      BY DEF CORNER_KHZ, Corners
    <2>2. CASE "20k" \in Verdicts
      BY <1>1, <2>1, <2>2
    <2>3. CASE "20k" \notin Verdicts
      <3>1. Verdicts \subseteq {"30k"} /\ \E c \in Verdicts : TRUE
        BY <1>1, <1>2, <2>3
      <3>2. QED
        BY <3>1, <2>1
    <2>4. QED
      BY <2>2, <2>3
  <1>3. QED
    BY <1>1, <1>2 DEF Classify, Corners

\* A step within its bound.
LEMMA SpendType ==
    ASSUME SpentType, NEW k \in Bounded, Spend(k) PROVE SpentType'
  BY BoundsAssumption DEF SpentType, Spend, Bounded, Budget

\* A run that took nothing, and the readings that say so.
LEMMA RunBegins == Unengaged \in Runs /\ RunIs(Unengaged, <<>>)
  <1>1. ~EngagedOn(<<>>) /\ EngagedOn(<<>>) \in BOOLEAN
    BY DEF EngagedOn
  <1>2. \A k \in 0..(GAP_BLOCKS - 1) : ~Recent(<<>>, k)
    BY DEF Recent
  <1>3. QED
    BY <1>1, <1>2 DEF RunIs, Runs, Unengaged

\* The evidence a frame belongs to, and the readings behind it.
LEMMA BasisIs ==
    ASSUME IInv, NEW before, before = IF Began THEN <<>> ELSE heard
    PROVE  /\ Basis \in Evidence /\ Len(Basis.blocks) <= WINDOW_BLOCKS
           /\ before \in Seq(States) /\ RunIs(Basis.run, before)
  <1>1. CASE Began
    <2>1. Basis = [layout |-> engine.layout, blocks |-> <<>>, rows |-> {}, run |-> Unengaged]
      BY <1>1 DEF Began, Basis, Aggregate
    <2>2. engine.layout \in Layouts
      BY DEF IInv, EngineType
    <2>3. QED
      BY <1>1, <2>1, <2>2, RunBegins DEF Evidence
  <1>2. CASE ~Began
    <2>1. Basis = agg /\ agg # None
      BY <1>2 DEF Began, Basis
    <2>2. QED
      BY <1>2, <2>1 DEF IInv, EvidenceType, EvidenceStands
  <1>3. QED
    BY <1>1, <1>2

\* A frame folded, with the block it closes.
LEMMA IngestStep ==
    ASSUME IInv, NEW f \in Contents \cup {None}, NEW closes \in BOOLEAN, Ingest(f, closes)
    PROVE  IInv'
  <1> DEFINE rows == Basis.rows \cup (IF f = None THEN {} ELSE {f})
             before == IF Began THEN <<>> ELSE heard
             window == Append(Basis.blocks, Lowest({g.tone : g \in rows}))
  <1>1. /\ Basis \in Evidence /\ Len(Basis.blocks) <= WINDOW_BLOCKS
        /\ before \in Seq(States) /\ RunIs(Basis.run, before)
    BY BasisIs
  <1>2. rows \in SUBSET Contents /\ Basis.run \in Runs /\ Basis.blocks \in Seq(Tones)
    BY <1>1 DEF Evidence
  <1>3. EngineType' /\ ReaderType'
    BY DEF IInv, EngineType, ReaderType, Ingest
  <1>4. CASE ~closes
    <2>1. agg' = [Basis EXCEPT !.rows = rows] /\ heard' = before /\ spent' = spent
      BY <1>4 DEF Ingest
    <2>2. agg' \in Evidence /\ agg'.run = Basis.run /\ agg'.blocks = Basis.blocks
      BY <2>1, <1>1, <1>2 DEF Evidence
    <2>3. agg' # None
      BY <2>2
    <2>4. EvidenceType' /\ EvidenceStands'
      BY <2>1, <2>2, <2>3, <1>1 DEF EvidenceType, EvidenceStands, RunIs
    <2>5. SpentType' /\ NothingOutlivesEvidence'
      BY <2>1, <2>3 DEF IInv, SpentType, NothingOutlivesEvidence
    <2>6. QED
      BY <1>3, <2>4, <2>5 DEF IInv
  <1>5. CASE closes
    <2>1. Spend("blocks")
      BY <1>5 DEF Ingest
    <2>2. PICK b \in (IF rows = {} THEN {None} ELSE rows) :
             /\ agg' = [Basis EXCEPT !.rows = {}, !.run = Observe(@, ReadBlock(b)),
                           !.blocks = CASE rows = {} -> @
                                        [] rows # {} /\ Len(window) > WINDOW_BLOCKS -> Tail(window)
                                        [] OTHER -> window]
             /\ heard' = Append(before, ReadBlock(b))
      BY <1>5 DEF Ingest
    <2>3. ReadBlock(b) \in States
      BY DEF ReadBlock, States
    <2>4. /\ Observe(Basis.run, ReadBlock(b)) \in Runs
          /\ RunIs(Observe(Basis.run, ReadBlock(b)), Append(before, ReadBlock(b)))
      BY <1>1, <1>2, <2>3, ObserveIs
    <2> DEFINE blocks == CASE rows = {} -> Basis.blocks
                           [] rows # {} /\ Len(window) > WINDOW_BLOCKS -> Tail(window)
                           [] OTHER -> window
    <2>5. blocks \in Seq(Tones) /\ Len(blocks) <= WINDOW_BLOCKS
      <3>1. CASE rows = {}
        BY <3>1, <1>1, <1>2
      <3>2. CASE rows # {}
        <4>1. {g.tone : g \in rows} \in SUBSET Tones /\ {g.tone : g \in rows} # {}
          BY <1>2, <3>2, ContentsAssumption DEF Contained
        <4>2. Lowest({g.tone : g \in rows}) \in Tones
          BY <4>1, LowestType
        <4>3. window \in Seq(Tones) /\ Len(window) = Len(Basis.blocks) + 1
          BY <4>2, <1>2
        <4> HIDE DEF window
        <4>4. CASE Len(window) > WINDOW_BLOCKS
          <5>1. blocks = Tail(window) /\ window # <<>>
            BY <4>3, <4>4, <3>2, <1>2
          <5>2. Tail(window) \in Seq(Tones) /\ Len(Tail(window)) = Len(window) - 1
            BY <4>3, <5>1
          <5>3. QED
            BY <5>1, <5>2, <4>3, <1>1, <1>2
        <4>5. CASE ~(Len(window) > WINDOW_BLOCKS)
          <5>1. blocks = window
            BY <4>5, <3>2
          <5>2. QED
            BY <5>1, <4>3, <4>5
        <4>6. QED
          BY <4>4, <4>5
      <3>3. QED
        BY <3>1, <3>2
    <2>6. /\ agg' \in Evidence /\ agg'.run = Observe(Basis.run, ReadBlock(b)) /\ agg'.blocks = blocks
      <3> HIDE DEF blocks, rows, window
      <3>1. agg' = [Basis EXCEPT !.rows = {}, !.run = Observe(Basis.run, ReadBlock(b)), !.blocks = blocks]
        BY <2>2, <1>1 DEF blocks, Evidence
      <3>2. QED
        BY <3>1, <2>4, <2>5, <1>1 DEF Evidence
    <2> HIDE DEF blocks, rows, before, window
    <2>7. agg' # None
      BY <2>6
    <2>8. heard' \in Seq(States)
      BY <2>2, <2>3, <1>1
    <2>9. EvidenceType' /\ EvidenceStands'
      BY <2>2, <2>4, <2>5, <2>6, <2>7, <2>8 DEF EvidenceType, EvidenceStands, RunIs
    <2>10. SpentType' /\ NothingOutlivesEvidence'
      BY <2>1, <2>7, SpendType DEF IInv, NothingOutlivesEvidence, Bounded
    <2>11. QED
      BY <1>3, <2>9, <2>10 DEF IInv
  <1>6. QED
    BY <1>4, <1>5

\* The evidence is dropped whole, or stays.
LEMMA DropStep ==
    ASSUME IInv, Drop \/ Keep
    PROVE  EvidenceType' /\ EvidenceStands' /\ NothingOutlivesEvidence' /\ {held, levels}' \subseteq BOOLEAN
  <1>1. CASE Drop
    <2>1. agg' = None /\ heard' = <<>> /\ held' = FALSE /\ levels' = FALSE
      BY <1>1 DEF Drop
    <2>2. EvidenceType'
      BY <2>1 DEF EvidenceType
    <2>3. EvidenceStands' /\ NothingOutlivesEvidence' /\ {held, levels}' \subseteq BOOLEAN
      BY <2>1 DEF EvidenceStands, NothingOutlivesEvidence
    <2>4. QED
      BY <2>2, <2>3
  <1>2. CASE Keep
    BY <1>2 DEF Keep, IInv, EvidenceType, EvidenceStands, NothingOutlivesEvidence, ReaderType
  <1>3. QED
    BY <1>1, <1>2

\* The strengthening is inductive.
LEMMA Inductive == (Init => IInv) /\ (IInv /\ [Next]_vars => IInv')
  <1>1. Init => IInv
    <2> SUFFICES ASSUME Init PROVE IInv
      OBVIOUS
    <2>1. EngineType /\ ReaderType
      BY DEF Init, EngineType, ReaderType, Engageable
    <2>2. SpentType
      BY BoundsAssumption DEF Init, SpentType, Bounded, Budget
    <2>3. EvidenceType /\ EvidenceStands /\ NothingOutlivesEvidence
      BY DEF Init, EvidenceType, EvidenceStands, NothingOutlivesEvidence
    <2>4. QED
      BY <2>1, <2>2, <2>3 DEF IInv
  <1>2. ASSUME IInv, [Next]_vars PROVE IInv'
    <2> USE <1>2
    <2>a. Drop \/ Keep => EvidenceType' /\ EvidenceStands' /\ NothingOutlivesEvidence' /\ {held, levels}' \subseteq BOOLEAN
      BY DropStep
    <2>b. EngineType /\ ReaderType /\ EvidenceType /\ SpentType /\ EvidenceStands /\ NothingOutlivesEvidence
      BY DEF IInv
    <2>c. UNCHANGED <<agg, heard>> => EvidenceType' /\ EvidenceStands'
      BY <2>b DEF EvidenceType, EvidenceStands
    <2>d. HeldNow \in BOOLEAN /\ (agg = None => HeldNow = held)
      BY <2>b DEF HeldNow, Eligible, Decide, ReaderType
    <2>1. CASE Gate
      <3>1. EngineType' /\ SpentType' /\ reader' \in {"gate", "check", "read", "pause", "ended"}
        BY <2>1, <2>b DEF Gate, Goes, EngineType, SpentType
      <3>2. Drop \/ Keep \/ (levels' = FALSE /\ UNCHANGED <<agg, held, heard>>)
        BY <2>1 DEF Gate
      <3>3. EvidenceType' /\ EvidenceStands' /\ NothingOutlivesEvidence' /\ {held, levels}' \subseteq BOOLEAN
        <4>1. CASE levels' = FALSE /\ UNCHANGED <<agg, held, heard>>
          <5>1. EvidenceType' /\ EvidenceStands'
            BY <4>1, <2>c
          <5>2. NothingOutlivesEvidence' /\ {held, levels}' \subseteq BOOLEAN
            BY <4>1, <2>b DEF NothingOutlivesEvidence, ReaderType
          <5>3. QED
            BY <5>1, <5>2
        <4>2. QED
          BY <4>1, <3>2, <2>a
      <3>4. QED
        BY <3>1, <3>3, <2>1, <2>b DEF IInv, ReaderType, Gate
    <2>2. CASE Check
      <3>1. EngineType' /\ SpentType' /\ reader' \in {"gate", "check", "read", "pause", "ended"} /\ (Drop \/ Keep)
        BY <2>2, <2>b DEF Check, Goes, EngineType, SpentType
      <3>2. QED
        BY <3>1, <2>a, <2>2, <2>b DEF IInv, ReaderType, Check
    <2>3. CASE Tick \/ Pace
      <3>1. EngineType' /\ SpentType' /\ reader' \in {"gate", "check"} /\ Keep
        BY <2>3, <2>b DEF Tick, Pace, EngineType, SpentType
      <3>2. QED
        BY <3>1, <2>a, <2>3, <2>b DEF IInv, ReaderType, Tick, Pace
    <2>4. CASE Ages
      <3>1. EngineType' /\ SpentType'
        BY <2>4, <2>b DEF Ages, EngineType, SpentType
      <3>2. QED
        BY <3>1, <2>c, <2>4, <2>b DEF IInv, ReaderType, Ages, NothingOutlivesEvidence
    <2>5. CASE Breaks
      <3>1. EngineType'
        BY <2>5, <2>b DEF Breaks, EngineType
      <3>2. SpentType'
        BY <2>5, <2>b, SpendType DEF Breaks, Bounded
      <3>3. reader' \in {"pause", "ended"} /\ Drop
        BY <2>5 DEF Breaks, Goes
      <3>4. QED
        BY <3>1, <3>2, <3>3, <2>a, <2>5, <2>b DEF IInv, ReaderType, Breaks
    <2>6. CASE Stop
      <3>1. EngineType' /\ Keep
        BY <2>6, <2>b DEF Stop, EngineType
      <3>2. SpentType'
        BY <2>6, <2>b, SpendType DEF Stop, Bounded
      <3>3. QED
        BY <3>1, <3>2, <2>a, <2>6, <2>b DEF IInv, ReaderType, Stop
    <2>7. ASSUME NEW f \in Contents \cup {None}, NEW closes \in BOOLEAN, Ingest(f, closes) PROVE IInv'
      BY <2>7, IngestStep
    <2>8. CASE Advise
      <3>1. EngineType' /\ SpentType'
        BY <2>8, <2>b DEF Advise, EngineType, SpentType
      <3>2. QED
        BY <3>1, <2>c, <2>d, <2>8, <2>b DEF IInv, ReaderType, Advise, NothingOutlivesEvidence
    <2>9. CASE Act
      <3>1. Desired \in Engageable
        BY ClassifyType DEF Desired, Engageable
      <3>2. EngineType' /\ SpentType'
        BY <3>1, <2>9, <2>b DEF Act, EngineType, SpentType
      <3>3. QED
        BY <3>2, <2>c, <2>d, <2>9, <2>b DEF IInv, ReaderType, Act, NothingOutlivesEvidence
    <2>10. CASE Choose \/ Track
      <3>1. ASSUME Choose PROVE EngineType'
        <4>1. \/ engine' = [engine EXCEPT !.junk = "2x", !.pilot = FALSE]
              \/ engine' = [engine EXCEPT !.pilot = TRUE]
              \/ \E m \in Mains : engine' = [engine EXCEPT !.main = m]
          BY <3>1 DEF Choose
        <4>2. QED
          BY <4>1, <2>b DEF EngineType, Engageable
      <3>2. ASSUME Track PROVE EngineType'
        <4>1. PICK l \in Layouts, h \in BOOLEAN : engine' = [engine EXCEPT !.layout = l, !.hires = h]
          BY <3>2 DEF Track
        <4>2. QED
          BY <4>1, <2>b DEF EngineType
      <3>3. EngineType'
        BY <2>10, <3>1, <3>2
      <3>4. Spend("turns") /\ UNCHANGED <<context, reader, agg, held, levels, stopped, heard>>
        <4>1. ASSUME Choose PROVE Spend("turns") /\ UNCHANGED <<context, reader, agg, held, levels, stopped, heard>>
          BY <4>1 DEF Choose
        <4>2. ASSUME Track PROVE Spend("turns") /\ UNCHANGED <<context, reader, agg, held, levels, stopped, heard>>
          BY <4>2 DEF Track
        <4>3. QED
          BY <2>10, <4>1, <4>2
      <3>5. SpentType'
        BY <3>4, <2>b, SpendType DEF Bounded
      <3>6. QED
        BY <3>3, <3>4, <3>5, <2>c, <2>b DEF IInv, ReaderType, NothingOutlivesEvidence
    <2>11. CASE Polled
      <3>1. EngineType' /\ SpentType'
        BY <2>11, <2>b, SpendType DEF Polled, Bounded, EngineType
      <3>2. QED
        BY <3>1, <2>c, <2>11, <2>b DEF IInv, ReaderType, Polled, NothingOutlivesEvidence
    <2>12. CASE Serves
      <3>1. EngineType' /\ SpentType' /\ Keep
        BY <2>12, <2>b DEF Serves, EngineType, SpentType
      <3>2. QED
        BY <3>1, <2>a, <2>12, <2>b DEF IInv, ReaderType, Serves
    <2>13. CASE UNCHANGED vars
      BY <2>13, <2>b DEF vars, IInv, EngineType, ReaderType, EvidenceType, SpentType, EvidenceStands, NothingOutlivesEvidence
    <2>14. QED
      BY <2>1, <2>2, <2>3, <2>4, <2>5, <2>6, <2>7, <2>8, <2>9, <2>10, <2>11, <2>12, <2>13 DEF Next
  <1>3. QED
    BY <1>1, <1>2

LEMMA Always == Spec => []IInv
  BY Inductive, PTL DEF Spec

-----------------------------------------------------------------------------
(* Theorems.                                                                *)

\* The evidence, the hold and the reader are in range for any window, gap and bounds.
THEOREM TypeCorrect == Spec => []TypeOK
  <1>1. IInv => TypeOK
    <2> SUFFICES ASSUME IInv PROVE TypeOK
      OBVIOUS
    <2>1. agg # None => agg.run \in Runs
      BY DEF IInv, EvidenceType, Evidence
    <2>2. QED
      BY <2>1 DEF IInv, TypeOK, EngineType, ReaderType, EvidenceType, SpentType
  <1>2. QED
    BY <1>1, Always, PTL

\* The corner of the junk run stands on the blocks of one unbroken stream, on all of
\* them, and on them exactly as the rule words it (JunkRun.observe).
THEOREM RunAlwaysStandsOnBlocks == Spec => []RunStandsOnBlocks
  <1>1. IInv => RunStandsOnBlocks
    BY DEF IInv, EvidenceStands, RunIs, RunStandsOnBlocks
  <1>2. QED
    BY <1>1, Always, PTL

\* What was read off a stream goes with it (SpurHolder, BandRing).
THEOREM NothingEverOutlivesEvidence == Spec => []NothingOutlivesEvidence
  <1>1. IInv => NothingOutlivesEvidence
    BY DEF IInv
  <1>2. QED
    BY <1>1, Always, PTL

\* A tick of auto-pilot leaves the note nothing to say (autopilotops, junkadvisor).
THEOREM PilotAlwaysQuietsNote == Spec => PilotQuietsNote
  <1>1. ASSUME IInv, Act PROVE Recommendation' = None
    <2> USE <1>1
    <2>1. /\ engine' = [engine EXCEPT !.junk = Desired] /\ held' = HeldNow
          /\ agg' = agg /\ context' = context
      BY DEF Act
    <2>2. /\ engine'.junk = Desired /\ engine'.hires = engine.hires /\ engine'.main = engine.main
      BY <2>1 DEF IInv, EngineType
    <2>3. WindowMin(agg)' = WindowMin(agg) /\ Eligible' = Eligible
      BY <2>1, <2>2 DEF WindowMin, Eligible
    <2>4. HeldNow' = HeldNow
      BY <2>1, <2>3 DEF HeldNow, Decide
    <2>5. Verdicts' = Verdicts
      BY <2>1, <2>3, <2>4 DEF Verdicts
    <2>6. Classify' = Classify
      BY <2>5 DEF Classify
    <2>7. CASE Classify = None
      BY <2>6, <2>7 DEF Recommendation
    <2>8. CASE Classify # None
      <3>1. Classify \in Corners
        BY <2>8, ClassifyType
      <3>2. Treats(Classify, Desired, engine.main)
        <4>1. CASE Treats(Classify, "none", engine.main)
          BY <4>1, <2>8 DEF Desired
        <4>2. CASE ~Treats(Classify, "none", engine.main)
          <5>1. Desired = Classify
            BY <4>2, <2>8 DEF Desired
          <5>2. Classify # "none" /\ CORNER_KHZ[Classify] <= CORNER_KHZ[Classify]
            BY <3>1 DEF Corners, CORNER_KHZ
          <5>3. QED
            BY <5>1, <5>2 DEF Treats, Treated
        <4>3. QED
          BY <4>1, <4>2
      <3>3. QED
        BY <3>2, <2>2, <2>6 DEF Recommendation
    <2>9. QED
      BY <2>7, <2>8
  <1>2. IInv /\ [Next]_vars => [Act => Recommendation' = None]_vars
    BY <1>1
  <1>3. QED
    BY <1>2, Always, PTL DEF Spec, PilotQuietsNote

-----------------------------------------------------------------------------
(* The METER feed.                                                          *)

USE StrideAssumption, DepthAssumption, FeedBoundsAssumption, FeedNoneAssumption

-----------------------------------------------------------------------------
(* The parts of the invariant.                                              *)

\* Consecutive frames of one connection in one layout.
Piece(fs) ==
    /\ \A f, h \in fs : f.connection = h.connection /\ f.layout = h.layout
    /\ \A f, h \in fs : \A n \in f.n..h.n : \E k \in fs : k.n = n

\* From position a to position b the queue holds frames only.
FramesOnly(q, a, b) == \A k \in a..b : q[k].name = "frame"

\* With bars for l laid out before the first event of a queue, they are for g before
\* the event at i.
InForce(l, q, i, g) ==
    \/ l = g /\ FramesOnly(q, 1, i - 1)
    \/ \E j \in 1..(i - 1) : q[j] = Geometry(g) /\ FramesOnly(q, j + 1, i - 1)

\* The frames queued are pieces, each behind the geometry it is in.
Pieces(q) == \A i \in 1..Len(q) : q[i].name = "frame" => Piece(q[i].of)
InOrder(l, q) == \A i \in 1..Len(q) : q[i].name = "frame" => \A f \in q[i].of : InForce(l, q, i, f.layout)

Types ==
    /\ arriving \in Frames
    /\ feed \in [geo : Geometries \cup {Absent}, stride : SUBSET Frames]
    /\ queue \in [Pages -> Seq(Events) \cup {Absent}]
    /\ page \in [Pages -> [laid : Geometries \cup {Absent}, drew : SUBSET Frames]]
    /\ overran \in [Pages -> BOOLEAN] /\ visits \in Nat
    /\ \A p \in Subscribers : Len(queue[p]) <= QUEUE_DEPTH

\* The stride in hand ends with the frame that arrived last, and nobody subscribed
\* means there is none.
StrideRuns ==
    /\ Piece(feed.stride) /\ IsFiniteSet(feed.stride)
    /\ \A f \in feed.stride : f.n < arriving.n /\ f.connection = arriving.connection /\ f.layout = feed.geo
    /\ feed.stride # {} => Subscribers # {} /\ \E f \in feed.stride : f.n = arriving.n - 1
    /\ feed.geo # Absent => Cardinality(feed.stride) < STRIDE[feed.geo]

\* Every event queued or drawn is one piece.
Whole ==
    /\ \A p \in Subscribers : Pieces(queue[p])
    /\ \A p \in Pages : Piece(page[p].drew)

\* A page that dropped nothing finds each frame behind the geometry it is in, and
\* behind all of them the geometry the feed holds.
Announced ==
    \A p \in Pages : overran[p] \/
        /\ \A f \in page[p].drew : f.layout = page[p].laid
        /\ p \in Subscribers =>
              /\ InOrder(page[p].laid, queue[p])
              /\ feed.geo # Absent => InForce(page[p].laid, queue[p], Len(queue[p]) + 1, feed.geo)

FeedIInv == Types /\ StrideRuns /\ Whole /\ Announced

-----------------------------------------------------------------------------
(* Queues.                                                                  *)

\* An event more at the end.
LEMMA AppendIs ==
    ASSUME NEW q \in Seq(Events), NEW e \in Events
    PROVE  /\ Append(q, e) \in Seq(Events) /\ Len(Append(q, e)) = Len(q) + 1 /\ Len(q) \in Nat
           /\ Append(q, e)[Len(q) + 1] = e
           /\ \A i \in 1..Len(q) : Append(q, e)[i] = q[i] /\ q[i] \in Events
  OBVIOUS

\* An event less at the front.
LEMMA TailIs ==
    ASSUME NEW q \in Seq(Events), q # <<>>
    PROVE  /\ Tail(q) \in Seq(Events) /\ Len(Tail(q)) = Len(q) - 1 /\ Len(q) \in Nat /\ Len(q) > 0
           /\ Head(q) = q[1] /\ Head(q) \in Events
           /\ \A i \in 1..(Len(q) - 1) : Tail(q)[i] = q[i + 1]
  OBVIOUS

\* What is in force before an event stays so with events added behind it.
LEMMA ForceKept ==
    ASSUME NEW q \in Seq(Events), NEW e \in Events, NEW l, NEW g, NEW i \in 1..(Len(q) + 1), InForce(l, q, i, g)
    PROVE  InForce(l, Append(q, e), i, g)
  <1> DEFINE a == Append(q, e)
  <1>1. Len(q) \in Nat /\ \A k \in 1..Len(q) : a[k] = q[k]
    BY AppendIs
  <1> HIDE DEF a
  <1>2. \A b \in 1..(i - 1) : b \in 1..Len(q)
    BY <1>1
  <1>3. CASE l = g /\ FramesOnly(q, 1, i - 1)
    <2>1. FramesOnly(a, 1, i - 1)
      BY <1>1, <1>2, <1>3 DEF FramesOnly
    <2>2. QED
      BY <2>1, <1>3 DEF InForce, a
  <1>4. ASSUME NEW j \in 1..(i - 1), q[j] = Geometry(g), FramesOnly(q, j + 1, i - 1)
        PROVE  InForce(l, a, i, g)
    <2>1. a[j] = Geometry(g)
      BY <1>1, <1>2, <1>4
    <2>2. FramesOnly(a, j + 1, i - 1)
      BY <1>1, <1>2, <1>4 DEF FramesOnly
    <2>3. QED
      BY <2>1, <2>2 DEF InForce
  <1>5. QED
    BY <1>3, <1>4 DEF InForce, a

\* A frame leaves in force what was, a geometry is in force behind itself.
LEMMA ForceNext ==
    ASSUME NEW q \in Seq(Events), NEW e \in Events, NEW l, NEW g
    PROVE  /\ e.name = "frame" /\ InForce(l, q, Len(q) + 1, g) => InForce(l, Append(q, e), Len(q) + 2, g)
           /\ e = Geometry(g) => InForce(l, Append(q, e), Len(q) + 2, g)
  <1> DEFINE a == Append(q, e)
             n == Len(q)
  <1>1. n \in Nat /\ a[n + 1] = e /\ \A k \in 1..n : a[k] = q[k]
    BY AppendIs
  <1> HIDE DEF a, n
  <1>2. (n + 1) - 1 = n /\ (n + 2) - 1 = n + 1
    BY <1>1
  <1>3. ASSUME e = Geometry(g) PROVE InForce(l, a, n + 2, g)
    <2>1. FramesOnly(a, (n + 1) + 1, (n + 2) - 1)
      BY <1>1 DEF FramesOnly
    <2>2. n + 1 \in 1..((n + 2) - 1)
      BY <1>1
    <2>3. QED
      BY <2>1, <2>2, <1>1, <1>3 DEF InForce
  <1>4. ASSUME e.name = "frame", l = g, FramesOnly(q, 1, n) PROVE InForce(l, a, n + 2, g)
    <2>1. FramesOnly(a, 1, n + 1)
      BY <1>1, <1>4 DEF FramesOnly
    <2>2. QED
      BY <2>1, <1>2, <1>4 DEF InForce
  <1>5. ASSUME e.name = "frame", NEW j \in 1..n, q[j] = Geometry(g), FramesOnly(q, j + 1, n)
        PROVE  InForce(l, a, n + 2, g)
    <2>1. ASSUME NEW k \in (j + 1)..(n + 1) PROVE a[k].name = "frame"
      <3>1. k = n + 1 \/ (k \in 1..n /\ k \in (j + 1)..n)
        BY <1>1, <1>5, <2>1
      <3>2. QED
        BY <3>1, <1>1, <1>5 DEF FramesOnly
    <2>2. FramesOnly(a, j + 1, n + 1)
      BY <2>1 DEF FramesOnly
    <2>3. a[j] = Geometry(g) /\ j \in 1..(n + 1)
      BY <1>1, <1>5
    <2>4. QED
      BY <2>2, <2>3, <1>2 DEF InForce
  <1>6. e.name = "frame" /\ InForce(l, q, n + 1, g) => InForce(l, a, n + 2, g)
    BY <1>2, <1>4, <1>5 DEF InForce
  <1>7. QED
    BY <1>3, <1>6 DEF a, n

\* The page takes the event in front of the others.
LEMMA ForceTaken ==
    ASSUME NEW q \in Seq(Events), q # <<>>, NEW l, NEW g, NEW i \in 2..(Len(q) + 1), InForce(l, q, i, g)
    PROVE  InForce(IF Head(q).name = "geometry" THEN Head(q).of ELSE l, Tail(q), i - 1, g)
  <1> DEFINE t == Tail(q)
             n == Len(q)
             m == IF Head(q).name = "geometry" THEN Head(q).of ELSE l
  <1>1. n \in Nat /\ n > 0 /\ Head(q) = q[1] /\ \A k \in 1..(n - 1) : t[k] = q[k + 1]
    BY TailIs
  <1> HIDE DEF t, n, m
  <1>2. ASSUME NEW b \in Nat, b > 0, FramesOnly(q, b + 1, i - 1) PROVE FramesOnly(t, b, (i - 1) - 1)
    <2>1. ASSUME NEW k \in b..((i - 1) - 1) PROVE t[k].name = "frame"
      <3>1. k \in 1..(n - 1) /\ k + 1 \in (b + 1)..(i - 1)
        BY <1>1, <1>2, <2>1 DEF n
      <3>2. QED
        BY <3>1, <1>1, <1>2 DEF FramesOnly
    <2>2. QED
      BY <2>1 DEF FramesOnly
  <1>3. ASSUME l = g, FramesOnly(q, 1, i - 1) PROVE InForce(m, t, i - 1, g)
    <2>1. q[1].name = "frame"
      BY <1>1, <1>3 DEF FramesOnly
    <2>2. m = g
      BY <2>1, <1>1, <1>3 DEF m
    <2>3. FramesOnly(q, 1 + 1, i - 1)
      BY <1>3 DEF FramesOnly
    <2>4. FramesOnly(t, 1, (i - 1) - 1)
      BY <2>3, <1>2
    <2>5. QED
      BY <2>2, <2>4 DEF InForce
  <1>4. ASSUME NEW j \in 1..(i - 1), q[j] = Geometry(g), FramesOnly(q, j + 1, i - 1) PROVE InForce(m, t, i - 1, g)
    <2>1. CASE j = 1
      <3>1. m = g
        BY <2>1, <1>1, <1>4 DEF m, Geometry
      <3>2. FramesOnly(t, 1, (i - 1) - 1)
        BY <2>1, <1>2, <1>4
      <3>3. QED
        BY <3>1, <3>2 DEF InForce
    <2>2. CASE j # 1
      <3>1. j - 1 \in 1..((i - 1) - 1) /\ j - 1 \in 1..(n - 1) /\ (j - 1) + 1 = j
        BY <2>2, <1>1, <1>4 DEF n
      <3>2. t[j - 1] = Geometry(g)
        BY <3>1, <1>1, <1>4
      <3>3. FramesOnly(t, (j - 1) + 1, (i - 1) - 1)
        BY <3>1, <1>2, <1>4
      <3>4. QED
        BY <3>1, <3>2, <3>3 DEF InForce
    <2>3. QED
      BY <2>1, <2>2
  <1>5. QED
    BY <1>3, <1>4 DEF InForce, t, m

\* A queue that gains an event is still bounded and in pieces; one with room drops none.
LEMMA SentIs ==
    ASSUME NEW q \in Seq(Events), Len(q) <= QUEUE_DEPTH, NEW e \in Events, Pieces(q),
           e.name = "frame" => Piece(e.of)
    PROVE  /\ Sent(q, e) \in Seq(Events) /\ Len(Sent(q, e)) <= QUEUE_DEPTH /\ Pieces(Sent(q, e))
           /\ Len(q) < QUEUE_DEPTH => Sent(q, e) = Append(q, e)
  <1>1. ASSUME NEW r \in Seq(Events), Len(r) < QUEUE_DEPTH, Pieces(r)
        PROVE  Append(r, e) \in Seq(Events) /\ Len(Append(r, e)) <= QUEUE_DEPTH /\ Pieces(Append(r, e))
    <2> DEFINE a == Append(r, e)
    <2>1. a \in Seq(Events) /\ Len(a) = Len(r) + 1 /\ Len(r) \in Nat /\ a[Len(r) + 1] = e
      BY AppendIs
    <2>2. \A i \in 1..Len(r) : a[i] = r[i]
      BY AppendIs
    <2> HIDE DEF a
    <2>3. ASSUME NEW i \in 1..Len(a), a[i].name = "frame" PROVE Piece(a[i].of)
      <3>1. i = Len(r) + 1 \/ i \in 1..Len(r)
        BY <2>1
      <3>2. QED
        BY <3>1, <1>1, <2>1, <2>2, <2>3 DEF Pieces
    <2>4. a \in Seq(Events) /\ Len(a) <= QUEUE_DEPTH /\ Pieces(a)
      BY <1>1, <2>1, <2>3 DEF Pieces
    <2>5. QED
      BY <2>4 DEF a
  <1>2. Len(q) \in Nat
    OBVIOUS
  <1>3. CASE Len(q) = QUEUE_DEPTH
    <2>1. q # <<>>
      BY <1>3
    <2>2. Tail(q) \in Seq(Events) /\ Len(Tail(q)) < QUEUE_DEPTH
      BY <1>3, <2>1, TailIs
    <2>3. Pieces(Tail(q))
      BY <2>1, TailIs DEF Pieces
    <2>4. Sent(q, e) = Append(Tail(q), e) /\ ~(Len(q) < QUEUE_DEPTH)
      BY <1>2, <1>3 DEF Sent
    <2>5. QED
      BY <1>1, <2>2, <2>3, <2>4
  <1>4. CASE Len(q) # QUEUE_DEPTH
    <2>1. Len(q) < QUEUE_DEPTH
      BY <1>2, <1>4
    <2>2. QED
      BY <1>1, <1>4, <2>1 DEF Sent
  <1>5. QED
    BY <1>3, <1>4

\* An event behind the others keeps them in order, and is in order when it is a geometry
\* or a frame in the geometry in force at the end.
LEMMA OrderNext ==
    ASSUME NEW q \in Seq(Events), NEW e \in Events, NEW l, InOrder(l, q),
           e.name = "frame" => \A f \in e.of : InForce(l, q, Len(q) + 1, f.layout)
    PROVE  InOrder(l, Append(q, e))
  <1> DEFINE a == Append(q, e)
  <1>1. Len(a) = Len(q) + 1 /\ Len(q) \in Nat /\ a[Len(q) + 1] = e /\ \A i \in 1..Len(q) : a[i] = q[i]
    BY AppendIs
  <1>2. \A g : \A i \in 1..(Len(q) + 1) : InForce(l, q, i, g) => InForce(l, a, i, g)
    BY ForceKept
  <1> HIDE DEF a
  <1>3. ASSUME NEW i \in 1..Len(a), a[i].name = "frame", NEW f \in a[i].of PROVE InForce(l, a, i, f.layout)
    <2>1. i \in 1..(Len(q) + 1) /\ (i = Len(q) + 1 \/ i \in 1..Len(q))
      BY <1>1
    <2>2. InForce(l, q, i, f.layout)
      BY <2>1, <1>1, <1>3 DEF InOrder
    <2>3. QED
      BY <2>1, <2>2, <1>2
  <1>4. InOrder(l, a)
    BY <1>3 DEF InOrder
  <1>5. QED
    BY <1>4 DEF a

\* Without its first event, which the page takes, the rest is in order for the page.
LEMMA OrderTaken ==
    ASSUME NEW q \in Seq(Events), q # <<>>, NEW l, InOrder(l, q)
    PROVE  InOrder(IF Head(q).name = "geometry" THEN Head(q).of ELSE l, Tail(q))
  <1> DEFINE t == Tail(q)
             m == IF Head(q).name = "geometry" THEN Head(q).of ELSE l
  <1>1. Len(t) = Len(q) - 1 /\ Len(q) \in Nat /\ \A i \in 1..(Len(q) - 1) : t[i] = q[i + 1]
    BY TailIs
  <1>2. \A g : \A i \in 2..(Len(q) + 1) : InForce(l, q, i, g) => InForce(m, t, i - 1, g)
    BY ForceTaken
  <1> HIDE DEF t, m
  <1>3. ASSUME NEW i \in 1..Len(t), t[i].name = "frame", NEW f \in t[i].of PROVE InForce(m, t, i, f.layout)
    <2>1. i \in 1..(Len(q) - 1) /\ i + 1 \in 1..Len(q) /\ i + 1 \in 2..(Len(q) + 1) /\ (i + 1) - 1 = i
      BY <1>1
    <2>2. InForce(l, q, i + 1, f.layout)
      BY <2>1, <1>1, <1>3 DEF InOrder
    <2>3. QED
      BY <2>1, <2>2, <1>2
  <1>4. InOrder(m, t)
    BY <1>3 DEF InOrder
  <1>5. QED
    BY <1>4 DEF t, m

-----------------------------------------------------------------------------
(* Strides.                                                                 *)

\* The next frame of the same stream lengthens a piece that ends with the one before.
LEMMA PieceGrows ==
    ASSUME NEW fs \in SUBSET Frames, NEW e \in Frames, Piece(fs),
           \A f \in fs : f.n < e.n /\ f.connection = e.connection /\ f.layout = e.layout,
           fs # {} => \E f \in fs : f.n = e.n - 1
    PROVE  Piece(fs \cup {e})
  <1> DEFINE gs == fs \cup {e}
  <1>1. \A f, h \in gs : f.connection = h.connection /\ f.layout = h.layout
    OBVIOUS
  <1>2. \A f \in gs : f.n \in Nat
    BY DEF Frames
  <1>3. ASSUME NEW f \in gs, NEW h \in gs, NEW n \in f.n..h.n PROVE \E k \in gs : k.n = n
    <2>1. CASE n = e.n
      BY <2>1
    <2>2. CASE n # e.n
      <3>1. f \in fs
        BY <1>2, <1>3, <2>2
      <3>2. PICK z \in fs : z.n = e.n - 1
        BY <3>1
      <3>3. n \in f.n..z.n \/ (h \in fs /\ n \in f.n..h.n)
        BY <1>2, <1>3, <2>2, <3>1, <3>2
      <3>4. QED
        BY <3>1, <3>2, <3>3 DEF Piece
    <2>3. QED
      BY <2>1, <2>2
  <1>4. QED
    BY <1>1, <1>3 DEF Piece

\* The first frame alone is a piece.
LEMMA PieceStarts ==
    ASSUME NEW e \in Frames
    PROVE  Piece({e}) /\ Piece({})
  BY DEF Piece, Frames

-----------------------------------------------------------------------------
(* The invariant is inductive.                                              *)

LEMMA Initially == FeedInit => FeedIInv
  <1> SUFFICES ASSUME FeedInit PROVE FeedIInv
    OBVIOUS
  <1>1. Subscribers = {}
    BY DEF FeedInit, Subscribers
  <1>2. Types
    BY <1>1 DEF FeedInit, Types, Frames
  <1>3. StrideRuns
    BY PieceStarts, FS_EmptySet DEF FeedInit, StrideRuns, Piece
  <1>4. Whole /\ Announced
    BY <1>1 DEF FeedInit, Whole, Announced, Piece
  <1>5. QED
    BY <1>2, <1>3, <1>4 DEF FeedIInv

\* A page comes.
LEMMA Subscribed ==
    ASSUME FeedIInv, NEW p \in Pages, Subscribe(p)
    PROVE  FeedIInv'
  <1> DEFINE q == IF feed.geo = Absent THEN <<>> ELSE <<Geometry(feed.geo)>>
  <1> USE DEF FeedIInv
  <1>1. PICK bars \in {Absent, page[p].laid} : page' = [page EXCEPT ![p] = [laid |-> bars, drew |-> {}]]
    BY DEF Subscribe
  <1>2. q \in Seq(Events) /\ Len(q) <= QUEUE_DEPTH /\ q # Absent
    <2>1. feed.geo # Absent => Geometry(feed.geo) \in Events
      BY DEF Types, Geometry, Events
    <2>2. q \in Seq(Events) /\ Len(q) \in {0, 1}
      BY <2>1
    <2>3. q # Absent
      BY <2>2
    <2>4. QED
      BY <2>2, <2>3
  <1>3. queue' = [queue EXCEPT ![p] = q] /\ UNCHANGED <<arriving, feed>>
    BY DEF Subscribe
  <1>4. Pieces(q) /\ \A l : InOrder(l, q)
    BY DEF Pieces, InOrder, Geometry
  <1>5. feed.geo # Absent => \A l : InForce(l, q, Len(q) + 1, feed.geo)
    <2>1. ASSUME feed.geo # Absent, NEW l PROVE InForce(l, q, 2, feed.geo)
      <3>1. 1 \in 1..(2 - 1) /\ q[1] = Geometry(feed.geo) /\ FramesOnly(q, 1 + 1, 2 - 1)
        BY <2>1 DEF FramesOnly
      <3>2. QED
        BY <3>1 DEF InForce
    <2>2. feed.geo # Absent => Len(q) + 1 = 2
      OBVIOUS
    <2>3. QED
      BY <2>1, <2>2
  <1> HIDE DEF q
  <1>6. Subscribers' = Subscribers \cup {p}
    BY <1>2, <1>3 DEF Subscribers, Types
  <1>7. Types'
    <2>1. page' \in [Pages -> [laid : Geometries \cup {Absent}, drew : SUBSET Frames]]
      BY <1>1 DEF Types
    <2>2. queue' \in [Pages -> Seq(Events) \cup {Absent}]
      BY <1>2, <1>3 DEF Types
    <2>3. overran' \in [Pages -> BOOLEAN] /\ visits' \in Nat
      BY DEF Types, Subscribe
    <2>4. \A r \in Subscribers' : Len(queue'[r]) <= QUEUE_DEPTH
      BY <1>2, <1>3, <1>6 DEF Types
    <2>5. QED
      BY <1>3, <2>1, <2>2, <2>3, <2>4 DEF Types
  <1>8. StrideRuns'
    BY <1>3, <1>6 DEF StrideRuns
  <1>9. Whole'
    <2>1. \A r \in Subscribers' : Pieces(queue'[r])
      BY <1>3, <1>4, <1>6 DEF Whole, Types
    <2>2. \A r \in Pages : Piece(page'[r].drew)
      BY <1>1, PieceStarts DEF Whole, Types, Piece
    <2>3. QED
      BY <2>1, <2>2 DEF Whole, Pieces, Piece
  <1>10. Announced'
    <2>1. ASSUME NEW r \in Pages, ~overran'[r] PROVE
             /\ \A f \in page'[r].drew : f.layout = page'[r].laid
             /\ r \in Subscribers' =>
                   /\ InOrder(page'[r].laid, queue'[r])
                   /\ feed.geo # Absent => InForce(page'[r].laid, queue'[r], Len(queue'[r]) + 1, feed.geo)
      <3>1. CASE r = p
        <4>1. page'[r].drew = {} /\ queue'[r] = q
          BY <1>1, <1>3, <3>1 DEF Types
        <4>2. QED
          BY <4>1, <1>4, <1>5
      <3>2. CASE r # p
        <4>1. page'[r] = page[r] /\ queue'[r] = queue[r] /\ ~overran[r] /\ (r \in Subscribers' => r \in Subscribers)
          BY <1>1, <1>3, <1>6, <2>1, <3>2 DEF Types, Subscribe
        <4>2. QED
          BY <4>1 DEF Announced
      <3>3. QED
        BY <3>1, <3>2
    <2>2. QED
      BY <2>1, <1>3 DEF Announced, InOrder, InForce, FramesOnly
  <1>11. QED
    BY <1>7, <1>8, <1>9, <1>10

\* A page goes.
LEMMA Unsubscribed ==
    ASSUME FeedIInv, NEW p \in Pages, Unsubscribe(p)
    PROVE  FeedIInv'
  <1> USE DEF FeedIInv
  <1>1. queue' = [queue EXCEPT ![p] = Absent] /\ UNCHANGED <<arriving, page, overran, visits>> /\ p \in Subscribers
    BY DEF Unsubscribe, Subscribers
  <1>2. Subscribers' = Subscribers \ {p} /\ \A r \in Subscribers' : queue'[r] = queue[r]
    BY <1>1 DEF Subscribers, Types
  <1>3. \/ feed' = feed /\ Subscribers' # {}
        \/ feed' = [feed EXCEPT !.stride = {}]
    BY <1>1, <1>2 DEF Unsubscribe
  <1>4. feed'.geo = feed.geo /\ (feed'.stride = feed.stride \/ feed'.stride = {})
    BY <1>3 DEF Types
  <1>5. Types'
    <2>1. feed' \in [geo : Geometries \cup {Absent}, stride : SUBSET Frames]
      BY <1>3 DEF Types
    <2>2. queue' \in [Pages -> Seq(Events) \cup {Absent}]
      BY <1>1 DEF Types
    <2>3. \A r \in Subscribers' : Len(queue'[r]) <= QUEUE_DEPTH
      BY <1>2 DEF Types
    <2>4. QED
      BY <1>1, <2>1, <2>2, <2>3 DEF Types
  <1>6. StrideRuns'
    <2>1. CASE feed' = feed /\ Subscribers' # {}
      BY <1>1, <2>1 DEF StrideRuns
    <2>2. CASE feed'.stride = {}
      <3>1. Piece({}) /\ IsFiniteSet({}) /\ Cardinality({}) = 0
        BY FS_EmptySet DEF Piece
      <3>2. feed'.geo # Absent => 0 < STRIDE[feed'.geo]
        BY <1>4 DEF Types
      <3>3. QED
        BY <2>2, <3>1, <3>2 DEF StrideRuns, Piece
    <2>3. QED
      BY <1>3, <2>1, <2>2 DEF Types
  <1>7. Whole'
    <2>1. \A r \in Subscribers' : Pieces(queue'[r])
      BY <1>2 DEF Whole
    <2>2. QED
      BY <1>1, <2>1 DEF Whole, Pieces, Piece
  <1>8. Announced'
    <2>1. ASSUME NEW r \in Pages, ~overran[r] PROVE
             /\ \A f \in page[r].drew : f.layout = page[r].laid
             /\ r \in Subscribers' =>
                   /\ InOrder(page[r].laid, queue'[r])
                   /\ feed.geo # Absent => InForce(page[r].laid, queue'[r], Len(queue'[r]) + 1, feed.geo)
      BY <1>2, <2>1 DEF Announced
    <2>2. QED
      BY <2>1, <1>1, <1>4 DEF Announced, InOrder, InForce, FramesOnly
  <1>9. QED
    BY <1>5, <1>6, <1>7, <1>8

\* A page takes its next event.
LEMMA Redrawn ==
    ASSUME FeedIInv, NEW p \in Pages, Redraw(p)
    PROVE  FeedIInv'
  <1> DEFINE q == queue[p]
             e == Head(q)
             m == IF e.name = "geometry" THEN e.of ELSE page[p].laid
             d == IF e.name = "geometry" THEN {} ELSE e.of
  <1> USE DEF FeedIInv
  <1>1. /\ queue' = [queue EXCEPT ![p] = Tail(q)] /\ UNCHANGED <<arriving, feed, overran, visits>>
        /\ p \in Subscribers /\ q \in Seq(Events) /\ q # <<>>
    BY DEF Redraw, Subscribers, Types
  <1>2. /\ Tail(q) \in Seq(Events) /\ Len(Tail(q)) = Len(q) - 1 /\ Len(q) \in Nat /\ Len(q) > 0
        /\ e = q[1] /\ e \in Events /\ \A i \in 1..(Len(q) - 1) : Tail(q)[i] = q[i + 1]
    BY <1>1, TailIs
  <1>3. page' = [page EXCEPT ![p] = [laid |-> m, drew |-> d]]
    <2>1. page' = [page EXCEPT ![p] = IF e.name = "geometry" THEN [laid |-> e.of, drew |-> {}]
                                      ELSE [page[p] EXCEPT !.drew = e.of]]
      BY DEF Redraw, Types
    <2>2. [page[p] EXCEPT !.drew = e.of] = [laid |-> page[p].laid, drew |-> e.of]
      BY DEF Types
    <2>3. (IF e.name = "geometry" THEN [laid |-> e.of, drew |-> {}] ELSE [page[p] EXCEPT !.drew = e.of])
             = [laid |-> m, drew |-> d]
      BY <2>2
    <2>4. QED
      BY <2>1, <2>3
  <1>4. m \in Geometries \cup {Absent} /\ d \in SUBSET Frames
    BY <1>2 DEF Events, Types
  <1>5. Tail(q) # Absent
    BY <1>2
  <1>6. Subscribers' = Subscribers
    BY <1>1, <1>5 DEF Subscribers, Types
  <1>7. e.name \in {"geometry", "frame"}
    BY <1>2 DEF Events
  <1>8. Piece(d) /\ Pieces(Tail(q))
    <2>1. Pieces(q)
      BY <1>1 DEF Whole
    <2>2. Piece(d)
      BY <2>1, <1>2, <1>7 DEF Pieces, Piece
    <2>3. QED
      BY <2>1, <2>2, <1>2 DEF Pieces
  <1>9. ASSUME ~overran[p]
        PROVE  /\ \A f \in d : f.layout = m
               /\ InOrder(m, Tail(q))
               /\ feed.geo # Absent => InForce(m, Tail(q), Len(Tail(q)) + 1, feed.geo)
    <2>1. /\ InOrder(page[p].laid, q)
          /\ feed.geo # Absent => InForce(page[p].laid, q, Len(q) + 1, feed.geo)
      BY <1>1, <1>9 DEF Announced
    <2>2. InOrder(m, Tail(q))
      BY <2>1, <1>1, OrderTaken
    <2>3. feed.geo # Absent => InForce(m, Tail(q), Len(Tail(q)) + 1, feed.geo)
      <3>1. Len(q) + 1 \in 2..(Len(q) + 1) /\ (Len(q) + 1) - 1 = Len(Tail(q)) + 1
        BY <1>2
      <3>2. QED
        BY <2>1, <3>1, <1>1, ForceTaken
    <2>4. ASSUME NEW f \in d PROVE f.layout = m
      <3>1. e.name = "frame" /\ f \in q[1].of /\ 1 \in 1..Len(q)
        BY <2>4, <1>2, <1>7
      <3>2. InForce(page[p].laid, q, 1, f.layout)
        BY <2>1, <3>1, <1>2 DEF InOrder
      <3>3. page[p].laid = f.layout
        BY <3>2 DEF InForce
      <3>4. QED
        BY <3>1, <3>3
    <2>5. QED
      BY <2>2, <2>3, <2>4
  <1> HIDE DEF q, e, m, d
  <1>10. Types'
    <2>1. page' \in [Pages -> [laid : Geometries \cup {Absent}, drew : SUBSET Frames]]
      BY <1>3, <1>4 DEF Types
    <2>2. queue' \in [Pages -> Seq(Events) \cup {Absent}]
      BY <1>1, <1>2 DEF Types
    <2>3. \A r \in Subscribers' : Len(queue'[r]) <= QUEUE_DEPTH
      BY <1>1, <1>2, <1>6 DEF Types, q
    <2>4. QED
      BY <1>1, <2>1, <2>2, <2>3 DEF Types
  <1>11. StrideRuns'
    BY <1>1, <1>6 DEF StrideRuns
  <1>12. Whole'
    <2>1. \A r \in Subscribers' : Pieces(queue'[r])
      BY <1>1, <1>6, <1>8 DEF Whole, Types
    <2>2. \A r \in Pages : Piece(page'[r].drew)
      BY <1>3, <1>8 DEF Whole, Types
    <2>3. QED
      BY <2>1, <2>2 DEF Whole, Pieces, Piece
  <1>13. Announced'
    <2>1. ASSUME NEW r \in Pages, ~overran'[r] PROVE
             /\ \A f \in page'[r].drew : f.layout = page'[r].laid
             /\ r \in Subscribers' =>
                   /\ InOrder(page'[r].laid, queue'[r])
                   /\ feed'.geo # Absent => InForce(page'[r].laid, queue'[r], Len(queue'[r]) + 1, feed'.geo)
      <3>1. CASE r = p
        <4>1. page'[r] = [laid |-> m, drew |-> d] /\ queue'[r] = Tail(q)
          BY <1>1, <1>3, <3>1 DEF Types
        <4>2. QED
          BY <4>1, <2>1, <3>1, <1>1, <1>9
      <3>2. CASE r # p
        <4>1. page'[r] = page[r] /\ queue'[r] = queue[r]
          BY <1>1, <1>3, <3>2 DEF Types
        <4>2. QED
          BY <4>1, <2>1, <1>1, <1>6 DEF Announced
      <3>3. QED
        BY <3>1, <3>2
    <2>2. QED
      BY <2>1 DEF Announced, InOrder, InForce, FramesOnly
  <1>14. QED
    BY <1>10, <1>11, <1>12, <1>13

\* The source changes its layout.
LEMMA Relaid ==
    ASSUME FeedIInv, Relayout
    PROVE  FeedIInv'
  <1> USE DEF FeedIInv
  <1>1. PICK g \in Geometries : arriving' = [arriving EXCEPT !.layout = g]
    BY DEF Relayout
  <1>2. UNCHANGED <<feed, queue, page, overran, visits>> /\ Subscribers' = Subscribers
    BY DEF Relayout, Subscribers
  <1>3. arriving' \in Frames /\ arriving'.n = arriving.n /\ arriving'.connection = arriving.connection
    BY <1>1 DEF Types, Frames
  <1>4. Types'
    BY <1>2, <1>3 DEF Types
  <1>5. StrideRuns'
    BY <1>2, <1>3 DEF StrideRuns
  <1>6. Whole'
    BY <1>2 DEF Whole, Pieces, Piece
  <1>7. Announced'
    BY <1>2 DEF Announced, InOrder, InForce, FramesOnly
  <1>8. QED
    BY <1>4, <1>5, <1>6, <1>7

\* The reader connects anew.
LEMMA Connected ==
    ASSUME FeedIInv, Reset
    PROVE  FeedIInv'
  <1> USE DEF FeedIInv
  <1>1. PICK g \in Geometries : arriving' = [arriving EXCEPT !.connection = @ + 1, !.layout = g]
    BY DEF Reset
  <1>2. /\ UNCHANGED <<queue, page, overran, visits>> /\ Subscribers' = Subscribers
        /\ feed' = [geo |-> Absent, stride |-> {}]
    BY DEF Reset, Subscribers
  <1>3. arriving' \in Frames
    <2>1. arriving' = [n |-> arriving.n, connection |-> arriving.connection + 1, layout |-> g]
      BY <1>1 DEF Types, Frames
    <2>2. QED
      BY <2>1 DEF Types, Frames
  <1>4. Types'
    BY <1>2, <1>3 DEF Types
  <1>5. StrideRuns'
    BY <1>2, FS_EmptySet DEF StrideRuns, Piece
  <1>6. Whole'
    BY <1>2 DEF Whole, Pieces, Piece
  <1>7. Announced'
    BY <1>2 DEF Announced, InOrder, InForce, FramesOnly
  <1>8. QED
    BY <1>4, <1>5, <1>6, <1>7

\* A frame arrives.
LEMMA Added ==
    ASSUME FeedIInv, Add
    PROVE  FeedIInv'
  <1> DEFINE g == arriving.layout
             moved == feed.geo # g
             kept == IF moved THEN {} ELSE feed.stride
             stride == kept \cup {arriving}
             full == Cardinality(stride) >= STRIDE[g]
             es == (IF moved THEN <<Geometry(g)>> ELSE <<>>) \o (IF full THEN <<Frame(stride)>> ELSE <<>>)
             first(p) == IF moved THEN Sent(queue[p], Geometry(g)) ELSE queue[p]
             both(p) == IF full THEN Sent(first(p), Frame(stride)) ELSE first(p)
  <1> USE DEF FeedIInv
  <1>1. /\ arriving' = [arriving EXCEPT !.n = @ + 1] /\ UNCHANGED <<page, visits>>
        /\ arriving \in Frames /\ g \in Geometries
    BY DEF Add, Types, Frames
  <1>2. arriving' \in Frames /\ arriving'.n = arriving.n + 1 /\ arriving'.connection = arriving.connection
    BY <1>1 DEF Frames
  <1>3. CASE Subscribers = {}
    <2>1. UNCHANGED <<feed, queue, overran>> /\ Subscribers' = {}
      BY <1>3 DEF Add, Subscribers
    <2>2. Types'
      BY <2>1, <1>1, <1>2, <1>3 DEF Types
    <2>3. StrideRuns'
      BY <2>1, <1>2, <1>3 DEF StrideRuns
    <2>4. Whole'
      BY <2>1, <1>1, <1>3 DEF Whole, Pieces, Piece
    <2>5. Announced'
      BY <2>1, <1>1, <1>3 DEF Announced, InOrder, InForce, FramesOnly
    <2>6. QED
      BY <2>2, <2>3, <2>4, <2>5
  <1>4. CASE Subscribers # {}
    <2>1. /\ feed' = [geo |-> g, stride |-> IF full THEN {} ELSE stride]
          /\ queue' = SentAll(es) /\ overran' = Overruns(es)
      BY <1>4 DEF Add
    <2>2. /\ kept \in SUBSET Frames /\ IsFiniteSet(kept) /\ Piece(kept)
          /\ \A f \in kept : f.n < arriving.n /\ f.connection = arriving.connection /\ f.layout = g
          /\ kept # {} => \E f \in kept : f.n = arriving.n - 1
      BY FS_EmptySet, PieceStarts, <1>1 DEF StrideRuns, Types
    <2>3. /\ stride \in SUBSET Frames /\ IsFiniteSet(stride) /\ Piece(stride)
          /\ \A f \in stride : f.n < arriving'.n /\ f.connection = arriving'.connection /\ f.layout = g
          /\ Cardinality(stride) \in Nat
      <3>1. Piece(stride)
        BY <2>2, <1>1, PieceGrows
      <3>2. IsFiniteSet(stride) /\ Cardinality(stride) \in Nat
        BY <2>2, FS_AddElement, FS_CardinalityType
      <3>3. \A f \in stride : f.n < arriving'.n /\ f.connection = arriving'.connection /\ f.layout = g
        <4>1. arriving.n < arriving'.n /\ \A f \in kept : f.n < arriving'.n
          BY <1>1, <1>2, <2>2 DEF Frames
        <4>2. QED
          BY <4>1, <1>2, <2>2
      <3>4. QED
        BY <3>1, <3>2, <3>3, <2>2, <1>1
    <2>4. Geometry(g) \in Events /\ Frame(stride) \in Events
      BY <1>1, <2>3 DEF Geometry, Frame, Events
    <2>5. /\ Geometry(g).name = "geometry" /\ Frame(stride).name = "frame" /\ Frame(stride).of = stride
      BY DEF Geometry, Frame
    <2>6. ASSUME NEW p \in Subscribers
          PROVE  /\ queue'[p] = both(p) /\ both(p) \in Seq(Events) /\ Len(both(p)) <= QUEUE_DEPTH
                 /\ Pieces(both(p)) /\ (~overran'[p] => ~overran[p])
                 /\ ~overran'[p] => /\ InOrder(page[p].laid, both(p))
                                    /\ InForce(page[p].laid, both(p), Len(both(p)) + 1, g)
      <3> DEFINE l == page[p].laid
      <3>1. queue[p] \in Seq(Events) /\ Len(queue[p]) <= QUEUE_DEPTH /\ Pieces(queue[p]) /\ p \in Pages
        BY DEF Types, Whole, Subscribers
      <3>2. /\ first(p) \in Seq(Events) /\ Len(first(p)) <= QUEUE_DEPTH /\ Pieces(first(p))
            /\ moved /\ Len(queue[p]) < QUEUE_DEPTH => first(p) = Append(queue[p], Geometry(g))
        BY <3>1, <2>4, <2>5, SentIs
      <3>3. /\ both(p) \in Seq(Events) /\ Len(both(p)) <= QUEUE_DEPTH /\ Pieces(both(p))
            /\ full /\ Len(first(p)) < QUEUE_DEPTH => both(p) = Append(first(p), Frame(stride))
        BY <3>2, <2>3, <2>4, <2>5, SentIs
      <3>4. /\ moved /\ full => es = <<Geometry(g), Frame(stride)>>
            /\ moved /\ ~full => es = <<Geometry(g)>>
            /\ ~moved /\ full => es = <<Frame(stride)>>
            /\ ~moved /\ ~full => es = <<>>
        <4>1. moved /\ full => es = <<Geometry(g)>> \o <<Frame(stride)>>
          OBVIOUS
        <4>2. moved /\ ~full => es = <<Geometry(g)>> \o <<>>
          OBVIOUS
        <4>3. ~moved /\ full => es = <<>> \o <<Frame(stride)>>
          OBVIOUS
        <4>4. ~moved /\ ~full => es = <<>> \o <<>>
          OBVIOUS
        <4>5. ASSUME NEW a \in Events, NEW b \in Events
              PROVE  /\ <<a>> \o <<b>> = <<a, b>>
                     /\ <<a>> \o <<>> = <<a>> /\ <<>> \o <<b>> = <<b>>
          <5>1. <<a>> \in Seq(Events) /\ <<b>> \in Seq(Events) /\ <<>> \in Seq(Events)
            OBVIOUS
          <5>2. <<a>> \o <<b>> = <<a, b>>
            <6> DEFINE c == <<a>> \o <<b>>
                       d == <<a, b>>
            <6>1. c \in Seq(Events) /\ Len(c) = 2 /\ c[1] = a /\ c[2] = b
              BY <5>1
            <6>2. d \in Seq(Events) /\ Len(d) = 2 /\ d[1] = a /\ d[2] = b
              OBVIOUS
            <6> HIDE DEF c, d
            <6>3. c = d
              BY <6>1, <6>2, SeqEqual
            <6>4. QED
              BY <6>3 DEF c, d
          <5>3. <<a>> \o <<>> = <<a>>
            BY <5>1
          <5>4. <<>> \o <<b>> = <<b>>
            BY <5>1
          <5>5. QED
            BY <5>2, <5>3, <5>4
        <4>6. <<>> \o <<>> = <<>>
          OBVIOUS
        <4> HIDE DEF es, moved, full, stride, g
        <4>7. QED
          BY <4>1, <4>2, <4>3, <4>4, <4>5, <4>6, <2>4
      <3>5. queue'[p] = both(p)
        <4>1. queue'[p] = IF es = <<>> THEN queue[p]
                          ELSE IF Len(es) = 1 THEN Sent(queue[p], es[1])
                          ELSE Sent(Sent(queue[p], es[1]), es[2])
          <5> HIDE DEF es
          <5>1. QED
            BY <2>1, <3>1 DEF SentAll
        <4>2. CASE moved /\ full
          <5>1. es = <<Geometry(g), Frame(stride)>>
            BY <3>4, <4>2
          <5> HIDE DEF es, moved, full, stride, g
          <5>2. queue'[p] = Sent(Sent(queue[p], Geometry(g)), Frame(stride))
            BY <4>1, <5>1
          <5>3. QED
            BY <4>2, <5>2
        <4>3. CASE moved /\ ~full
          <5>1. es = <<Geometry(g)>>
            BY <3>4, <4>3
          <5> HIDE DEF es, moved, full, stride, g
          <5>2. queue'[p] = Sent(queue[p], Geometry(g))
            BY <4>1, <5>1
          <5>3. QED
            BY <4>3, <5>2
        <4>4. CASE ~moved /\ full
          <5>1. es = <<Frame(stride)>>
            BY <3>4, <4>4
          <5> HIDE DEF es, moved, full, stride, g
          <5>2. queue'[p] = Sent(queue[p], Frame(stride))
            BY <4>1, <5>1
          <5>3. QED
            BY <4>4, <5>2
        <4>5. CASE ~moved /\ ~full
          BY <3>4, <4>1, <4>5
        <4>6. QED
          BY <4>2, <4>3, <4>4, <4>5
      <3>6. overran'[p] = (overran[p] \/ Len(queue[p]) + Len(es) > QUEUE_DEPTH)
        <4> HIDE DEF es
        <4>1. QED
          BY <2>1, <3>1 DEF Overruns
      <3>7. ASSUME ~overran'[p]
            PROVE  ~overran[p] /\ InOrder(l, both(p)) /\ InForce(l, both(p), Len(both(p)) + 1, g)
        <4>1. ~overran[p] /\ ~(Len(queue[p]) + Len(es) > QUEUE_DEPTH)
          BY <3>6, <3>7
        <4>2. Len(es) \in Nat /\ (moved \/ full => Len(es) >= 1) /\ (moved /\ full => Len(es) >= 2)
          <5>1. Len(<<Geometry(g), Frame(stride)>>) = 2 /\ Len(<<Geometry(g)>>) = 1 /\ Len(<<Frame(stride)>>) = 1
            OBVIOUS
          <5>2. (moved \/ ~moved) /\ (full \/ ~full) /\ Len(<<>>) = 0
            OBVIOUS
          <5>3. CASE moved /\ full
            <6>1. Len(es) = 2
              BY <5>1, <5>3, <3>4
            <6>2. QED
              BY <6>1
          <5>4. CASE (moved /\ ~full) \/ (~moved /\ full)
            <6>1. Len(es) = 1 /\ ~(moved /\ full)
              BY <5>1, <5>4, <3>4
            <6> HIDE DEF es, moved, full, stride, g
            <6>2. QED
              BY <6>1
          <5>5. CASE ~moved /\ ~full
            <6>1. Len(es) = 0 /\ ~(moved \/ full)
              BY <5>2, <5>5, <3>4
            <6> HIDE DEF es, moved, full, stride, g
            <6>2. QED
              BY <6>1
          <5>6. QED
            BY <5>3, <5>4, <5>5
        <4>3. /\ InOrder(l, queue[p])
              /\ feed.geo # Absent => InForce(l, queue[p], Len(queue[p]) + 1, feed.geo)
          BY <4>1, <3>1 DEF Announced
        <4>4. moved => Len(queue[p]) < QUEUE_DEPTH
          <5>1. Len(queue[p]) \in Nat
            BY <3>1
          <5> HIDE DEF es, moved, full, stride, g
          <5>2. QED
            BY <5>1, <4>1, <4>2
        <4>5. InOrder(l, first(p)) /\ InForce(l, first(p), Len(first(p)) + 1, g)
          <5>1. CASE moved
            <6>1. first(p) = Append(queue[p], Geometry(g)) /\ Len(first(p)) = Len(queue[p]) + 1
              BY <3>1, <3>2, <4>4, <5>1, <2>4, AppendIs
            <6>2. InOrder(l, Append(queue[p], Geometry(g)))
              BY <3>1, <2>4, <2>5, <4>3, OrderNext
            <6>3. InForce(l, Append(queue[p], Geometry(g)), Len(queue[p]) + 2, g)
              BY <3>1, <2>4, ForceNext
            <6>4. (Len(queue[p]) + 1) + 1 = Len(queue[p]) + 2
              BY <3>1
            <6>5. QED
              BY <6>1, <6>2, <6>3, <6>4
          <5>2. CASE ~moved
            <6>1. feed.geo = g /\ g # Absent
              BY <5>2, <1>1
            <6>2. QED
              BY <6>1, <5>2, <4>3
          <5>3. QED
            BY <5>1, <5>2
        <4>6. CASE full
          <5>1. Len(first(p)) < QUEUE_DEPTH
            <6>1. (moved /\ Len(first(p)) = Len(queue[p]) + 1) \/ (~moved /\ first(p) = queue[p])
              BY <3>1, <3>2, <4>4, <2>4, AppendIs
            <6>2. Len(queue[p]) \in Nat
              BY <3>1
            <6> HIDE DEF es, moved, full, stride, first, g
            <6>3. QED
              BY <6>1, <6>2, <4>1, <4>2, <4>6
          <5>2. both(p) = Append(first(p), Frame(stride)) /\ Len(both(p)) = Len(first(p)) + 1
            <6>1. both(p) = Append(first(p), Frame(stride))
              BY <3>3, <5>1, <4>6
            <6> HIDE DEF first, both
            <6>2. QED
              BY <6>1, <3>2, <2>4, AppendIs
          <5>3. \A f \in Frame(stride).of : InForce(l, first(p), Len(first(p)) + 1, f.layout)
            BY <2>3, <2>5, <4>5
          <5> HIDE DEF first, stride
          <5>4. InOrder(l, Append(first(p), Frame(stride)))
            BY <5>3, <3>2, <2>4, <4>5, OrderNext
          <5>5. InForce(l, Append(first(p), Frame(stride)), Len(first(p)) + 2, g)
            BY <3>2, <2>4, <2>5, <4>5, ForceNext
          <5>6. (Len(first(p)) + 1) + 1 = Len(first(p)) + 2
            BY <3>2
          <5>7. QED
            BY <4>1, <5>2, <5>4, <5>5, <5>6
        <4>7. CASE ~full
          BY <4>1, <4>5, <4>7
        <4>8. QED
          BY <4>6, <4>7
      <3>8. QED
        BY <3>3, <3>5, <3>7
    <2>7. \A p \in Pages : p \notin Subscribers => queue'[p] = queue[p] /\ (overran'[p] = overran[p])
      <3> HIDE DEF es
      <3>1. QED
        BY <2>1 DEF SentAll, Overruns, Types
    <2>8. Subscribers' = Subscribers
      <3>1. \A p \in Subscribers : queue'[p] # Absent
        BY <2>6
      <3>2. \A p \in Pages \ Subscribers : queue'[p] = Absent
        BY <2>7 DEF Subscribers
      <3>3. QED
        BY <3>1, <3>2 DEF Subscribers
    <2>9. Types'
      <3>1. feed' \in [geo : Geometries \cup {Absent}, stride : SUBSET Frames]
        BY <2>1, <2>3, <1>1
      <3>2. queue' \in [Pages -> Seq(Events) \cup {Absent}]
        <4>1. queue' = [p \in Pages |-> queue'[p]]
          <5> HIDE DEF es
          <5>1. QED
            BY <2>1 DEF SentAll
        <4>2. \A p \in Pages : queue'[p] \in Seq(Events) \cup {Absent}
          BY <2>6, <2>7 DEF Subscribers
        <4>3. QED
          BY <4>1, <4>2
      <3>3. overran' \in [Pages -> BOOLEAN]
        <4> HIDE DEF es
        <4>1. QED
          BY <2>1 DEF Overruns, Types
      <3>4. \A p \in Subscribers' : Len(queue'[p]) <= QUEUE_DEPTH
        BY <2>6, <2>8
      <3>5. QED
        BY <3>1, <3>2, <3>3, <3>4, <1>1, <1>2 DEF Types
    <2>10. StrideRuns'
      <3>1. CASE full
        <4>1. feed'.stride = {} /\ feed'.geo = g
          BY <2>1, <3>1
        <4>2. Cardinality({}) = 0 /\ IsFiniteSet({}) /\ STRIDE[g] > 0
          BY FS_EmptySet, <1>1
        <4>3. QED
          BY <4>1, <4>2 DEF StrideRuns, Piece
      <3>2. CASE ~full
        <4>1. feed'.stride = stride /\ feed'.geo = g
          BY <2>1, <3>2
        <4>2. Cardinality(stride) < STRIDE[g]
          BY <2>3, <3>2, <1>1
        <4>3. arriving \in stride /\ arriving.n = arriving'.n - 1
          BY <1>1, <1>2 DEF Frames
        <4> HIDE DEF stride, g
        <4>4. QED
          BY <4>1, <4>2, <4>3, <2>3, <2>8, <1>4 DEF StrideRuns, Piece
      <3>3. QED
        BY <3>1, <3>2
    <2>11. Whole'
      <3>1. \A p \in Subscribers' : Pieces(queue'[p])
        BY <2>6, <2>8
      <3>2. \A p \in Pages : Piece(page'[p].drew)
        BY <1>1 DEF Whole
      <3>3. QED
        BY <3>1, <3>2 DEF Whole, Pieces, Piece
    <2>12. Announced'
      <3>1. ASSUME NEW r \in Pages, ~overran'[r] PROVE
               /\ \A f \in page'[r].drew : f.layout = page'[r].laid
               /\ r \in Subscribers' =>
                     /\ InOrder(page'[r].laid, queue'[r])
                     /\ feed'.geo # Absent => InForce(page'[r].laid, queue'[r], Len(queue'[r]) + 1, feed'.geo)
        <4>1. ~overran[r] /\ feed'.geo = g
          BY <2>1, <2>6, <2>7, <3>1
        <4>2. \A f \in page'[r].drew : f.layout = page'[r].laid
          BY <4>1, <1>1 DEF Announced
        <4>3. QED
          BY <4>1, <4>2, <2>6, <2>8, <3>1, <1>1
      <3>2. QED
        BY <3>1 DEF Announced, InOrder, InForce, FramesOnly
    <2>13. QED
      BY <2>9, <2>10, <2>11, <2>12
  <1>5. QED
    BY <1>3, <1>4

\* The invariant is inductive.
LEMMA FeedInductive == FeedSpec => []FeedIInv
  <1>1. FeedInit => FeedIInv
    BY Initially
  <1>2. FeedIInv /\ [FeedNext]_feedVars => FeedIInv'
    <2> SUFFICES ASSUME FeedIInv, [FeedNext]_feedVars PROVE FeedIInv'
      OBVIOUS
    <2>1. CASE FeedNext
      BY <2>1, Subscribed, Unsubscribed, Redrawn, Added, Relaid, Connected DEF FeedNext
    <2>2. CASE UNCHANGED feedVars
      <3>1. Subscribers' = Subscribers /\ Types' /\ StrideRuns'
        BY <2>2 DEF feedVars, FeedIInv, Types, StrideRuns, Subscribers, Piece
      <3>2. Whole'
        BY <2>2, <3>1 DEF feedVars, FeedIInv, Whole, Pieces, Piece
      <3>3. Announced'
        BY <2>2, <3>1 DEF feedVars, FeedIInv, Announced, InOrder, InForce, FramesOnly
      <3>4. QED
        BY <3>1, <3>2, <3>3 DEF FeedIInv
    <2>3. QED
      BY <2>1, <2>2
  <1>3. QED
    BY <1>1, <1>2, PTL DEF FeedSpec

\* A queue is bounded, and a stride in hand is never one that should have been sent
\* (TypeOK).
THEOREM FeedTypeCorrect == FeedSpec => []FeedTypeOK
  <1>1. FeedIInv => FeedTypeOK
    BY DEF FeedIInv, Types, StrideRuns, FeedTypeOK, Frames
  <1>2. QED
    BY <1>1, FeedInductive, PTL

\* No event joins frames of two connections or two layouts, or leaves a frame out,
\* whatever pages come and go and however often the reader pauses (OneStream).
THEOREM OneStreamAlways == FeedSpec => []OneStream
  <1>1. FeedIInv => OneStream
    BY DEF FeedIInv, Whole, Piece, OneStream
  <1>2. QED
    BY <1>1, FeedInductive, PTL

\* A page that keeps up has bars for the frames it draws, in any number of layouts and
\* for any stride and queue depth (GeometryAhead).
THEOREM GeometryAlwaysAhead == FeedSpec => []GeometryAhead
  <1>1. FeedIInv => GeometryAhead
    BY DEF FeedIInv, Announced, GeometryAhead
  <1>2. QED
    BY <1>1, FeedInductive, PTL
=============================================================================
