---------------------------- MODULE LatencyProofs ----------------------------
(***************************************************************************)
(* What is proved of LatencySession for every set of samples and drivers,  *)
(* every capacity and every bound on the samples: the figures of a report  *)
(* agree, their origin is what its status says, the logger is left running *)
(* only after a failed OpenTraceW or ProcessTrace, and the ring keeps the  *)
(* latest samples.                                                         *)
(***************************************************************************)
EXTENDS LatencySession, WellFoundedInduction, TLAPS

-----------------------------------------------------------------------------
(* The inductive invariant                                                 *)

\* A real session, from its start to the end of its worker.
Tracing == {"sleep", "close", "end", "join"}

\* The worker lives during a real session only.  Before that is stopped, the worker ends
\* only when the logger is no longer ours, or its trace failed.
TraceInv ==
    /\ pc \notin Tracing => worker \in {"none", "ended"}
    /\ pc = "sleep" =>
         /\ ~closed /\ (~running => worker = "ended")
         /\ worker \in {"ending", "ended"} => logger # "ours" \/ failed
         /\ worker \in {"storing", "tracing"} /\ attached = "none" => logger # "ours"
    /\ pc \notin Tracing \ {"join"} /\ logger = "ours" => failed
    /\ pending # <<>> => worker = "tracing"

\* The status is that of the session that runs.
OriginInv ==
    /\ pc \in Tracing => status = "RealEtwCollected"
    /\ pc = "fixture" => status = "SyntheticTestFixture"
    /\ OriginIsDeclared

\* The highest time that the counters know.
Top == Higher(totals.max_dpc, totals.max_isr)

\* A verified driver of this name holds a routine that was sampled.
Traced(name) ==
    \E d \in drivers : d.name = name /\ d.verified /\
        \E i \in DOMAIN seen : seen[i].sample.addr \in d.base .. d.base + ImageSize - 1

\* The counters run ahead of the isolator by the one sample that is under way.
MeasureInv ==
    /\ totals.dpcs + totals.isrs = Len(seen) + Len(pending)
    /\ pending # <<>> => Len(seen) < MaxSamples /\ pending[1].us <= Top
    /\ \A d \in DOMAIN stats : stats[d].max <= Top
    /\ \/ Top = 0
       \/ pending # <<>> /\ pending[1].us = Top
       \/ \E d \in DOMAIN stats : stats[d].max = Top
    /\ \A name \in DOMAIN stats \ {Unknown} : Traced(name)

\* The report is being read, or was.
Reading == {"highest", "totals", "reported"}

\* The drivers whose longest routine took the highest time.
Slowest == {d \in DOMAIN stats : stats[d].max = Top}

\* What has been read for the report is still what was measured.
ReportInv ==
    /\ report = [offending |-> report.offending, top |-> report.top,
                 dpc_driver |-> report.dpc_driver, isr_driver |-> report.isr_driver,
                 dpcs |-> report.dpcs, isrs |-> report.isrs, max_dpc |-> report.max_dpc,
                 max_isr |-> report.max_isr, suitable |-> report.suitable]
    /\ pc \in Reading => report.offending = Offending /\ report.top = Top
                       /\ (Top > 0 => report.dpc_driver \in Slowest)
    /\ pc \in {"totals", "reported"} =>
         report.max_dpc = totals.max_dpc /\ report.max_isr = totals.max_isr
    /\ pc = "reported" => report.dpcs = totals.dpcs /\ report.isrs = totals.isrs

\* Slot by slot, in the order in which to_vec reads the ring: it holds the latest samples.
RingHoldsTheLatest ==
    LET start == IF ring.count < Capacity THEN 0 ELSE ring.head
    IN  /\ ring.count = IF Len(seen) < Capacity THEN Len(seen) ELSE Capacity
        /\ \A i \in 1 .. ring.count :
               ring.slots[(start + i - 1) % Capacity]
                   = <<seen[Len(seen) - ring.count + i].sample>>

RingInv ==
    /\ ring.count < Capacity => ring.head = ring.count
    /\ RingHoldsTheLatest

LatencyInv ==
    TypeOK /\ TraceInv /\ OriginInv /\ MeasureInv /\ ReportInv /\ RingInv /\ WarningsAreLatest

-----------------------------------------------------------------------------
(* Induction over data                                                     *)

\* A set that holds 0 and every successor holds all numbers.  (Induction in terms of a
\* set, taken from the well-foundedness of <, can be instantiated by the provers.)
LEMMA SetInduction ==
  ASSUME NEW S, 0 \in S, \A n \in Nat : n \in S => n + 1 \in S
  PROVE  Nat \subseteq S
  <1> DEFINE T == Nat \ S
  <1> SUFFICES ASSUME T # {} PROVE FALSE
    OBVIOUS
  <1>1. T \subseteq Nat
    OBVIOUS
  <1> HIDE DEF T
  <1>2. PICK x \in T : \A y \in T : ~(<<y, x>> \in OpToRel(<, Nat))
    BY <1>1, NatLessThanWellFounded, WFMin
  <1>3. x \in Nat /\ x \notin S /\ x # 0
    BY DEF T
  <1>4. x - 1 \in Nat /\ x - 1 \notin S
    BY <1>3
  <1>5. x - 1 \in T /\ <<x - 1, x>> \in OpToRel(<, Nat)
    BY <1>3, <1>4 DEF T, OpToRel
  <1> QED BY <1>2, <1>5

\* N sequences of one member each, the values val.
Singletons(N, seqs, val) == \A i \in 1 .. N : seqs[i] = <<val[i]>>

\* Put together, they are the sequence of the values.
LEMMA FlattenSingletons ==
  ASSUME NEW V, NEW N \in Nat, NEW seqs \in [1 .. N -> Seq(V)],
         NEW val \in [1 .. N -> V], Singletons(N, seqs, val)
  PROVE  FlattenSeq(seqs) = val
  <1>1. seqs \in Seq(Seq(V)) /\ Len(seqs) = N /\ val \in Seq(V) /\ Len(val) = N
    <2>1. seqs \in Seq(Seq(V)) /\ Len(seqs) = N
      OBVIOUS
    <2>2. val \in Seq(V) /\ Len(val) = N
      OBVIOUS
    <2> QED BY <2>1, <2>2
  <1>2. CASE N = 0
    <2>1. seqs = <<>> /\ val = <<>>
      BY <1>1, <1>2
    <2> QED BY <2>1 DEF FlattenSeq
  <1>3. CASE N # 0
    <2> DEFINE E(f) == [i \in 1 .. Len(seqs) |-> IF i = 1 THEN seqs[i] ELSE f[i - 1] \o seqs[i]]
               flatten == CHOOSE f : f = E(f)
               K == [i \in 1 .. N |-> [j \in 1 .. i |-> val[j]]]
    <2>1. FlattenSeq(seqs) = flatten[Len(seqs)]
      BY <1>1, <1>3 DEF FlattenSeq
    <2>2. ASSUME NEW i \in 1 .. N
          PROVE  K[i] = IF i = 1 THEN seqs[i] ELSE K[i - 1] \o seqs[i]
      <3>1. CASE i = 1
        <4>1. K[1] = [j \in 1 .. 1 |-> val[j]] /\ seqs[1] = <<val[1]>>
          BY <3>1 DEF Singletons
        <4>2. [j \in 1 .. 1 |-> val[j]] = <<val[1]>>
          OBVIOUS
        <4> QED BY <3>1, <4>1, <4>2
      <3>2. CASE i # 1
        <4>1. i - 1 \in 1 .. N
          BY <3>2
        <4> DEFINE u == [j \in 1 .. i - 1 |-> val[j]]
        <4>2. K[i - 1] = u /\ K[i] = [j \in 1 .. i |-> val[j]]
          BY <4>1
        <4>3. u \in Seq(V) /\ Len(u) = i - 1 /\ val[i] \in V
          BY <4>1
        <4>4. [j \in 1 .. i |-> val[j]] = u \o <<val[i]>>
          BY <4>1, <4>3
        <4> QED BY <3>2, <4>2, <4>4 DEF Singletons
      <3> QED BY <3>1, <3>2
    <2>3. K = E(K)
      BY <1>1, <2>2
    <2>4. flatten = E(flatten)
      <3> HIDE DEF E, K
      <3> QED BY <2>3, Zenon
    <2> DEFINE S == {i \in Nat : i \in 1 .. N => flatten[i] = K[i]}
    <2>5. \A i \in 1 .. N : flatten[i] = IF i = 1 THEN seqs[i] ELSE flatten[i - 1] \o seqs[i]
      <3> HIDE DEF flatten
      <3> QED BY <1>1, <2>4
    <2> HIDE DEF flatten, K, E
    <2>6. 0 \in S
      OBVIOUS
    <2>7. ASSUME NEW i \in Nat, i \in S PROVE i + 1 \in S
      <3> SUFFICES ASSUME i + 1 \in 1 .. N PROVE flatten[i + 1] = K[i + 1]
        OBVIOUS
      <3>1. CASE i = 0
        BY <2>2, <2>5, <3>1
      <3>2. CASE i # 0
        <4>1. i \in 1 .. N /\ i + 1 # 1 /\ (i + 1) - 1 = i
          BY <3>2
        <4>2. flatten[i] = K[i]
          BY <2>7, <4>1
        <4> QED BY <2>2, <2>5, <4>1, <4>2
      <3> QED BY <3>1, <3>2
    <2>8. N \in S
      <3> HIDE DEF S
      <3>1. Nat \subseteq S
        BY <2>6, <2>7, SetInduction
      <3> QED BY <3>1
    <2>9. flatten[N] = K[N]
      BY <1>3, <2>8
    <2>10. K[N] = val
      BY <1>3 DEF K
    <2> QED BY <1>1, <2>1, <2>9, <2>10
  <1> QED BY <1>2, <1>3

-----------------------------------------------------------------------------
(* What the operators do                                                 *)

\* The higher of three, in either order.
LEMMA HigherFacts ==
  ASSUME NEW x \in Nat, NEW y \in Nat, NEW z \in Nat
  PROVE  /\ Higher(x, y) \in Nat /\ x <= Higher(x, y) /\ y <= Higher(x, y)
         /\ Higher(x, y) = x \/ Higher(x, y) = y
         /\ Higher(Higher(x, y), z) = Higher(x, Higher(y, z))
         /\ Higher(y, Higher(x, z)) = Higher(x, Higher(y, z))
  BY DEF Higher

\* A sample counted raises the highest time and one of the counts.
LEMMA CountedFacts ==
  ASSUME TypeOK, NEW s \in Samples, totals' = Counted(s)
  PROVE  /\ totals' \in [dpcs : Nat, isrs : Nat, max_dpc : Nat, max_isr : Nat]
         /\ totals'.dpcs + totals'.isrs = totals.dpcs + totals.isrs + 1
         /\ Top \in Nat /\ Top' = Higher(s.us, Top)
  <1>1. s.us \in Nat /\ totals \in [dpcs : Nat, isrs : Nat, max_dpc : Nat, max_isr : Nat]
    BY LatencyAssumption DEF TypeOK
  <1>2. /\ totals.dpcs \in Nat /\ totals.isrs \in Nat
        /\ totals.max_dpc \in Nat /\ totals.max_isr \in Nat
    BY <1>1
  <1>3. CASE s.dpc
    <2>1. Higher(s.us, totals.max_dpc) \in Nat
      BY <1>1, <1>2, HigherFacts
    <2>2. totals' = [dpcs |-> totals.dpcs + 1, isrs |-> totals.isrs,
                    max_dpc |-> Higher(s.us, totals.max_dpc), max_isr |-> totals.max_isr]
      BY <1>1, <1>3 DEF Counted
    <2>3. /\ totals'.dpcs = totals.dpcs + 1 /\ totals'.isrs = totals.isrs
          /\ totals'.max_dpc = Higher(s.us, totals.max_dpc) /\ totals'.max_isr = totals.max_isr
          /\ totals' \in [dpcs : Nat, isrs : Nat, max_dpc : Nat, max_isr : Nat]
      BY <1>2, <2>1, <2>2
    <2>4. Top \in Nat /\ Top' = Higher(s.us, Top)
      <3>1. /\ Top = Higher(totals.max_dpc, totals.max_isr)
            /\ Top' = Higher(Higher(s.us, totals.max_dpc), totals.max_isr)
        BY <2>3 DEF Top
      <3> QED BY <1>1, <1>2, <3>1, HigherFacts, SMTT(60)
    <2> QED BY <1>2, <2>3, <2>4
  <1>4. CASE ~s.dpc
    <2>1. Higher(s.us, totals.max_isr) \in Nat
      BY <1>1, <1>2, HigherFacts
    <2>2. totals' = [dpcs |-> totals.dpcs, isrs |-> totals.isrs + 1,
                    max_dpc |-> totals.max_dpc, max_isr |-> Higher(s.us, totals.max_isr)]
      BY <1>1, <1>4 DEF Counted
    <2>3. /\ totals'.dpcs = totals.dpcs /\ totals'.isrs = totals.isrs + 1
          /\ totals'.max_isr = Higher(s.us, totals.max_isr) /\ totals'.max_dpc = totals.max_dpc
          /\ totals' \in [dpcs : Nat, isrs : Nat, max_dpc : Nat, max_isr : Nat]
      BY <1>2, <2>1, <2>2
    <2>4. Top \in Nat /\ Top' = Higher(s.us, Top)
      <3>1. /\ Top = Higher(totals.max_dpc, totals.max_isr)
            /\ Top' = Higher(totals.max_dpc, Higher(s.us, totals.max_isr))
        BY <2>3 DEF Top
      <3> QED BY <1>1, <1>2, <3>1, HigherFacts, SMTT(60)
    <2> QED BY <1>2, <2>3, <2>4
  <1> QED BY <1>3, <1>4

\* record_execution changes one driver's entry, or makes it.
LEMMA StatsFacts ==
  ASSUME TypeOK, NEW s \in Samples, stats' = record_execution(s)
  PROVE  /\ DOMAIN stats' = DOMAIN stats \cup {DriverOf(s.addr)}
         /\ \A x \in DOMAIN stats \ {DriverOf(s.addr)} : stats'[x] = stats[x]
         /\ stats'[DriverOf(s.addr)].max =
              (IF DriverOf(s.addr) \in DOMAIN stats
               THEN Higher(s.us, stats[DriverOf(s.addr)].max) ELSE s.us)
         /\ stats' \in [DOMAIN stats' -> [max : Nat, count : Nat]]
  <1> DEFINE d   == DriverOf(s.addr)
             old == IF d \in DOMAIN stats THEN stats[d] ELSE [max |-> 0, count |-> 0]
             new == [max |-> Higher(s.us, old.max), count |-> old.count + 1]
  <1>1. s.us \in Nat /\ stats \in [DOMAIN stats -> [max : Nat, count : Nat]]
    BY LatencyAssumption DEF TypeOK
  <1>2. stats' = [x \in DOMAIN stats \cup {d} |-> IF x = d THEN new ELSE stats[x]]
    BY DEF record_execution
  <1> HIDE DEF d
  <1>3. old \in [max : Nat, count : Nat]
    BY <1>1
  <1>4. /\ new \in [max : Nat, count : Nat]
        /\ new.max = IF d \in DOMAIN stats THEN Higher(s.us, stats[d].max) ELSE s.us
    BY <1>1, <1>3 DEF Higher
  <1> HIDE DEF new
  <1>5. /\ DOMAIN stats' = DOMAIN stats \cup {d} /\ stats'[d] = new
        /\ \A x \in DOMAIN stats \ {d} : stats'[x] = stats[x]
    BY <1>2
  <1>6. stats' \in [DOMAIN stats' -> [max : Nat, count : Nat]]
    BY <1>1, <1>2, <1>4
  <1> QED BY <1>4, <1>5, <1>6 DEF d

\* The highest time stays that of some driver when a sample is recorded.
LEMMA HighestFacts ==
  ASSUME TypeOK, NEW s \in Samples, stats' = record_execution(s),
         NEW T \in Nat, s.us <= T, \A d \in DOMAIN stats : stats[d].max <= T,
         T = 0 \/ s.us = T \/ \E d \in DOMAIN stats : stats[d].max = T
  PROVE  /\ \A d \in DOMAIN stats' : stats'[d].max <= T
         /\ T = 0 \/ \E d \in DOMAIN stats' : stats'[d].max = T
  <1> DEFINE e == DriverOf(s.addr)
  <1>1. s.us \in Nat /\ \A d \in DOMAIN stats : stats[d].max \in Nat
    BY LatencyAssumption DEF TypeOK
  <1>2. /\ DOMAIN stats' = DOMAIN stats \cup {e}
        /\ \A x \in DOMAIN stats \ {e} : stats'[x] = stats[x]
        /\ stats'[e].max = IF e \in DOMAIN stats THEN Higher(s.us, stats[e].max) ELSE s.us
    BY StatsFacts
  <1> HIDE DEF e
  <1>3. stats'[e].max <= T
    BY <1>1, <1>2 DEF Higher
  <1>4. \A d \in DOMAIN stats' : stats'[d].max <= T
    BY <1>2, <1>3
  <1>5. s.us = T => stats'[e].max = T
    BY <1>1, <1>2 DEF Higher
  <1>6. ASSUME NEW d \in DOMAIN stats, stats[d].max = T
        PROVE  stats'[d].max = T
    BY <1>1, <1>2, <1>6 DEF Higher
  <1> QED BY <1>2, <1>4, <1>5, <1>6

\* A driver that has an entry holds a sampled routine.
LEMMA TracedFacts ==
  ASSUME TypeOK, MeasureInv, NEW s \in Samples, NEW origin, Record(s, origin),
         drivers' = drivers
  PROVE  \A name \in DOMAIN stats' \ {Unknown} : Traced(name)'
  <1> SUFFICES ASSUME NEW name \in DOMAIN stats' \ {Unknown} PROVE Traced(name)'
    OBVIOUS
  <1> DEFINE r == [sample |-> s, origin |-> origin]
  <1>1. /\ seen' = Append(seen, r) /\ r.sample = s /\ seen \in Seq(Recorded \cup {r})
        /\ r \in Recorded \cup {r}
    BY DEF Record, TypeOK
  <1> HIDE DEF r
  <1>2. /\ \A i \in DOMAIN seen : i \in DOMAIN seen' /\ seen'[i] = seen[i]
        /\ Len(seen) + 1 \in DOMAIN seen' /\ seen'[Len(seen) + 1].sample = s
    BY <1>1
  <1>3. CASE name \in DOMAIN stats
    <2>1. Traced(name)
      BY <1>3 DEF MeasureInv
    <2> QED BY <1>2, <2>1 DEF Traced
  <1>4. CASE name = DriverOf(s.addr)
    <2>1. resolve_address(s.addr) # {} /\ name = (CHOOSE d \in resolve_address(s.addr) : TRUE).name
      BY <1>4 DEF DriverOf
    <2>2. PICK d \in resolve_address(s.addr) : d.name = name
      BY <2>1
    <2>3. /\ d \in drivers /\ d.verified /\ d.base <= s.addr
          /\ s.addr = d.base \/ s.addr < d.base + ImageSize
      BY DEF resolve_address
    <2>4. s.addr \in Nat /\ d.base \in Nat /\ ImageSize \in Nat \ {0}
      BY <2>3, LatencyAssumption DEF TypeOK
    <2>5. s.addr \in d.base .. d.base + ImageSize - 1
      BY <2>3, <2>4
    <2> QED BY <1>2, <2>2, <2>3, <2>5 DEF Traced
  <1> QED BY <1>3, <1>4, StatsFacts, ZenonT(60) DEF Record

\* A sample recorded has its place in the ring, the warnings and the history.
LEMMA RecordTypes ==
  ASSUME TypeOK, NEW s \in Samples, NEW origin \in {"kernel", "fixture"}, Record(s, origin)
  PROVE  /\ seen' \in Seq(Recorded) /\ Len(seen') = Len(seen) + 1 /\ Len(seen) \in Nat
         /\ warnings' \in Seq(Samples) /\ Len(warnings') <= MaxWarnings
         /\ ring' \in [slots : [0 .. Capacity - 1 -> Seq(Samples)],
                       head : 0 .. Capacity - 1, count : 0 .. Capacity]
  <1> USE LatencyAssumption
  <1>1. [sample |-> s, origin |-> origin] \in Recorded
    BY DEF Recorded
  <1>2. seen' \in Seq(Recorded) /\ Len(seen') = Len(seen) + 1 /\ Len(seen) \in Nat
    BY <1>1 DEF Record, TypeOK
  <1>3. warnings' \in Seq(Samples) /\ Len(warnings') <= MaxWarnings
    <2>1. warnings \in Seq(Samples) /\ Len(warnings) <= MaxWarnings /\ warnings' = Warned(s)
      BY DEF Record, TypeOK
    <2>2. CASE s.us < 500
      BY <2>1, <2>2 DEF Warned
    <2>3. CASE ~(s.us < 500) /\ Len(warnings) >= MaxWarnings
      <3>1. warnings' = Append(Tail(warnings), s) /\ warnings # <<>>
        BY <2>1, <2>3 DEF Warned
      <3>2. Tail(warnings) \in Seq(Samples) /\ Len(Tail(warnings)) = Len(warnings) - 1
        BY <2>1, <3>1
      <3> QED BY <2>1, <3>1, <3>2
    <2>4. CASE ~(s.us < 500) /\ ~(Len(warnings) >= MaxWarnings)
      BY <2>1, <2>4 DEF Warned
    <2> QED BY <2>2, <2>3, <2>4
  <1>4. ring' \in [slots : [0 .. Capacity - 1 -> Seq(Samples)],
                   head : 0 .. Capacity - 1, count : 0 .. Capacity]
    <2>1. /\ ring.slots \in [0 .. Capacity - 1 -> Seq(Samples)]
          /\ ring.head \in 0 .. Capacity - 1 /\ ring.count \in 0 .. Capacity
          /\ ring' = Push(ring, s)
      BY DEF Record, TypeOK
    <2>2. <<s>> \in Seq(Samples)
      OBVIOUS
    <2>3. (ring.head + 1) % Capacity \in 0 .. Capacity - 1
      BY <2>1
    <2>4. [ring.slots EXCEPT ![ring.head] = <<s>>] \in [0 .. Capacity - 1 -> Seq(Samples)]
      BY <2>1, <2>2
    <2>5. (IF ring.count < Capacity THEN ring.count + 1 ELSE ring.count) \in 0 .. Capacity
      BY <2>1
    <2> QED BY <2>1, <2>3, <2>4, <2>5 DEF Push
  <1> QED BY <1>2, <1>3, <1>4

\* The history gains the sample with its origin.
LEMMA SeenGrows ==
  ASSUME TypeOK, NEW s \in Samples, NEW origin \in {"kernel", "fixture"}, Record(s, origin)
  PROVE  \A i \in DOMAIN seen' :
            \/ i \in DOMAIN seen /\ seen'[i] = seen[i]
            \/ seen'[i].origin = origin
  <1> DEFINE r == [sample |-> s, origin |-> origin]
  <1>1. r \in Recorded /\ r.origin = origin
    BY DEF Recorded
  <1> HIDE DEF r
  <1>2. seen \in Seq(Recorded) /\ seen' = Append(seen, r)
    BY DEF Record, TypeOK, r
  <1> QED BY <1>1, <1>2

\* Where the i-th oldest sample of the ring lies.
LEMMA Slot ==
  ASSUME NEW x \in 0 .. 2 * Capacity - 1
  PROVE  x % Capacity = IF x < Capacity THEN x ELSE x - Capacity
  <1>1. Capacity \in Nat \ {0}
    BY LatencyAssumption
  <1>2. CASE x < Capacity
    BY <1>1, <1>2
  <1>3. CASE ~(x < Capacity)
    BY <1>1, <1>3
  <1> QED BY <1>2, <1>3

\* A ring that fills: the new sample comes behind the others.
LEMMA RingFills ==
  ASSUME NEW n \in Nat, n < Capacity, NEW i \in 1 .. n + 1
  PROVE  /\ (0 + i - 1) % Capacity = i - 1
         /\ n + 1 = Capacity => (n + 1) % Capacity = 0
         /\ n + 1 < Capacity => (n + 1) % Capacity = n + 1
  <1>1. Capacity \in Nat \ {0}
    BY LatencyAssumption
  <1>2. 0 + i - 1 \in 0 .. 2 * Capacity - 1 /\ 0 + i - 1 < Capacity
    BY <1>1
  <1>3. n + 1 \in 0 .. 2 * Capacity - 1
    BY <1>1
  <1>4. (0 + i - 1) % Capacity = 0 + i - 1
    BY <1>2, Slot
  <1>5. (n + 1) % Capacity = IF n + 1 < Capacity THEN n + 1 ELSE n + 1 - Capacity
    <2>1. \A x \in 0 .. 2 * Capacity - 1 :
             x % Capacity = IF x < Capacity THEN x ELSE x - Capacity
      BY Slot
    <2> QED BY <1>1, <1>3, <2>1
  <1> QED BY <1>1, <1>4, <1>5

\* A full ring: the next slot is the oldest, and each other moves up by one place.
LEMMA RingTurns ==
  ASSUME NEW h \in 0 .. Capacity - 1, NEW i \in 1 .. Capacity
  PROVE  /\ i = Capacity => (((h + 1) % Capacity) + i - 1) % Capacity = h
         /\ i < Capacity =>
              /\ (((h + 1) % Capacity) + i - 1) % Capacity = (h + (i + 1) - 1) % Capacity
              /\ (h + (i + 1) - 1) % Capacity \in (0 .. Capacity - 1) \ {h}
  <1>1. Capacity \in Nat \ {0}
    BY LatencyAssumption
  <1> DEFINE k == IF h + 1 < Capacity THEN h + 1 ELSE 0
             a == k + i - 1
             b == h + (i + 1) - 1
  <1>2. (h + 1) % Capacity = k
    <2>1. h + 1 \in 0 .. 2 * Capacity - 1 /\ (h + 1 < Capacity \/ h + 1 = Capacity)
      BY <1>1
    <2> QED BY <1>1, <2>1, Slot
  <1>3. a \in 0 .. 2 * Capacity - 1
    BY <1>1
  <1>4. a % Capacity = IF a < Capacity THEN a ELSE a - Capacity
    <2> HIDE DEF a
    <2> QED BY <1>3, Slot
  <1>5. ASSUME i < Capacity PROVE b \in 0 .. 2 * Capacity - 1
    BY <1>1, <1>5
  <1>6. ASSUME i < Capacity PROVE b % Capacity = IF b < Capacity THEN b ELSE b - Capacity
    <2> HIDE DEF b
    <2> QED BY <1>5, <1>6, Slot
  <1>7. i = Capacity => a % Capacity = h
    BY <1>1, <1>4
  <1>8. ASSUME i < Capacity
        PROVE  a % Capacity = b % Capacity /\ b % Capacity \in (0 .. Capacity - 1) \ {h}
    <2>1. /\ a % Capacity = IF a < Capacity THEN a ELSE a - Capacity
          /\ b % Capacity = IF b < Capacity THEN b ELSE b - Capacity
      BY <1>4, <1>6, <1>8
    <2>2. (IF a < Capacity THEN a ELSE a - Capacity) = IF b < Capacity THEN b ELSE b - Capacity
      BY <1>1, <1>8
    <2>3. (IF b < Capacity THEN b ELSE b - Capacity) \in (0 .. Capacity - 1) \ {h}
      BY <1>1, <1>8
    <2> QED BY <2>1, <2>2, <2>3
  <1> QED BY <1>2, <1>7, <1>8

\* A sample pushed takes the place of the oldest once the ring is full.
LEMMA RingRecord ==
  ASSUME TypeOK, RingInv, NEW s \in Samples, NEW origin \in {"kernel", "fixture"},
         Record(s, origin)
  PROVE  RingInv'
  <1>0. Capacity \in Nat \ {0}
    BY LatencyAssumption
  <1> DEFINE c == ring.count
             h == ring.head
             n == Len(seen)
             slots == ring.slots
             c1 == ring'.count
             h1 == ring'.head
             slots1 == ring'.slots
  <1>1. /\ slots \in [0 .. Capacity - 1 -> Seq(Samples)]
        /\ h \in 0 .. Capacity - 1 /\ c \in 0 .. Capacity /\ n \in Nat
        /\ seen \in Seq(Recorded)
    BY DEF TypeOK
  <1>2. /\ slots1 = [slots EXCEPT ![h] = <<s>>]
        /\ h1 = (h + 1) % Capacity
        /\ c1 = IF c < Capacity THEN c + 1 ELSE c
    BY DEF Record, Push
  <1>3. /\ Len(seen') = n + 1 /\ seen'[n + 1].sample = s
        /\ \A i \in 1 .. n : seen'[i] = seen[i]
    <2>1. [sample |-> s, origin |-> origin] \in Recorded
      BY DEF Recorded
    <2> QED BY <1>1, <2>1 DEF Record
  <1>4. /\ c = IF n < Capacity THEN n ELSE Capacity
        /\ \A i \in 1 .. c : slots[((IF c < Capacity THEN 0 ELSE h) + i - 1) % Capacity]
                               = <<seen[n - c + i].sample>>
        /\ c < Capacity => h = c
    BY DEF RingInv, RingHoldsTheLatest
  <1> SUFFICES /\ c1 < Capacity => h1 = c1
               /\ c1 = IF n + 1 < Capacity THEN n + 1 ELSE Capacity
               /\ \A i \in 1 .. c1 : slots1[((IF c1 < Capacity THEN 0 ELSE h1) + i - 1) % Capacity]
                                       = <<seen'[n + 1 - c1 + i].sample>>
    <2>1. RingHoldsTheLatest' <=>
            /\ c1 = IF Len(seen') < Capacity THEN Len(seen') ELSE Capacity
            /\ \A i \in 1 .. c1 : slots1[((IF c1 < Capacity THEN 0 ELSE h1) + i - 1) % Capacity]
                                    = <<seen'[Len(seen') - c1 + i].sample>>
      BY DEF RingHoldsTheLatest
    <2>2. RingInv' <=> (c1 < Capacity => h1 = c1) /\ RingHoldsTheLatest'
      BY DEF RingInv
    <2> HIDE DEF c1, h1, slots1, n
    <2>3. /\ c1 = IF Len(seen') < Capacity THEN Len(seen') ELSE Capacity
          /\ \A i \in 1 .. c1 : n + 1 - c1 + i = Len(seen') - c1 + i
      <3>1. Len(seen') = n + 1 /\ n \in Nat /\ c1 \in Nat
        BY <1>0, <1>1, <1>2, <1>3
      <3> QED BY <1>0, <3>1
    <2>4. \A i \in 1 .. c1 : slots1[((IF c1 < Capacity THEN 0 ELSE h1) + i - 1) % Capacity]
                               = <<seen'[Len(seen') - c1 + i].sample>>
      BY <2>3
    <2> QED BY <2>1, <2>2, <2>3, <2>4
  <1> HIDE DEF c, h, n, slots, c1, h1, slots1
  <1>6. CASE c < Capacity
    <2>1. /\ c1 = n + 1 /\ h = n /\ c = n /\ n < Capacity
          /\ \A i \in 1 .. n : slots[(0 + i - 1) % Capacity] = <<seen[n - n + i].sample>>
      <3>1. c = n /\ n < Capacity /\ c1 = n + 1 /\ h = n
        BY <1>0, <1>1, <1>2, <1>4, <1>6
      <3>2. \A i \in 1 .. c : slots[(0 + i - 1) % Capacity] = <<seen[n - c + i].sample>>
        BY <1>4, <1>6
      <3> QED BY <3>1, <3>2
    <2>2. (IF c1 < Capacity THEN 0 ELSE h1) = 0 /\ (c1 < Capacity => h1 = c1)
      <3>1. /\ n + 1 = Capacity => (n + 1) % Capacity = 0
            /\ n + 1 < Capacity => (n + 1) % Capacity = n + 1
        <4>1. 1 \in 1 .. n + 1
          BY <1>1
        <4> QED BY <1>1, <2>1, <4>1, RingFills
      <3> QED BY <1>0, <1>1, <1>2, <2>1, <3>1
    <2>3. ASSUME NEW i \in 1 .. n + 1
          PROVE  slots1[(0 + i - 1) % Capacity] = <<seen'[i].sample>>
      <3>1. (0 + i - 1) % Capacity = i - 1
        BY <1>1, <2>1, RingFills
      <3>2. i - 1 \in 0 .. Capacity - 1 /\ (i - 1 = h <=> i = n + 1)
        BY <1>0, <1>1, <2>1
      <3>3. CASE i = n + 1
        BY <1>1, <1>2, <1>3, <3>1, <3>2, <3>3
      <3>4. CASE i # n + 1
        <4>1. i \in 1 .. n /\ n - n + i = i
          BY <1>1, <3>4
        <4>2. slots[i - 1] = <<seen[i].sample>>
          BY <2>1, <3>1, <4>1
        <4>3. slots1[i - 1] = slots[i - 1]
          BY <1>1, <1>2, <3>2, <3>4
        <4>4. seen'[i] = seen[i]
          BY <1>3, <4>1
        <4> QED BY <3>1, <4>2, <4>3, <4>4
      <3> QED BY <3>3, <3>4
    <2>4. \A i \in 1 .. n + 1 : n + 1 - (n + 1) + i = i
      BY <1>1
    <2>5. c1 = IF n + 1 < Capacity THEN n + 1 ELSE Capacity
      BY <1>0, <1>1, <2>1
    <2> QED BY <2>1, <2>2, <2>3, <2>4, <2>5
  <1>7. CASE ~(c < Capacity)
    <2>1. /\ c = Capacity /\ c1 = Capacity /\ n >= Capacity
          /\ (IF c1 < Capacity THEN 0 ELSE h1) = h1 /\ (IF c < Capacity THEN 0 ELSE h) = h
      BY <1>0, <1>1, <1>2, <1>4, <1>7
    <2>2. \A i \in 1 .. Capacity : slots[(h + i - 1) % Capacity] = <<seen[n - Capacity + i].sample>>
      BY <1>4, <2>1
    <2>3. ASSUME NEW i \in 1 .. Capacity
          PROVE  slots1[(((h + 1) % Capacity) + i - 1) % Capacity]
                   = <<seen'[n + 1 - Capacity + i].sample>>
      <3>1. CASE i = Capacity
        <4>1. (((h + 1) % Capacity) + i - 1) % Capacity = h
          BY <1>1, <3>1, RingTurns
        <4>2. n + 1 - Capacity + i = n + 1
          BY <1>0, <1>1, <3>1
        <4>3. slots1[h] = <<s>>
          BY <1>1, <1>2
        <4> QED BY <1>3, <4>1, <4>2, <4>3
      <3>2. CASE i # Capacity
        <4>1. i < Capacity /\ i + 1 \in 1 .. Capacity
          BY <1>0, <3>2
        <4>2. /\ (((h + 1) % Capacity) + i - 1) % Capacity = (h + (i + 1) - 1) % Capacity
              /\ (h + (i + 1) - 1) % Capacity \in (0 .. Capacity - 1) \ {h}
          BY <1>1, <4>1, RingTurns
        <4>3. slots1[(h + (i + 1) - 1) % Capacity] = slots[(h + (i + 1) - 1) % Capacity]
          <5> DEFINE k == (h + (i + 1) - 1) % Capacity
          <5>1. k \in (0 .. Capacity - 1) \ {h}
            BY <4>2
          <5> HIDE DEF k
          <5>2. slots1[k] = slots[k]
            BY <1>1, <1>2, <5>1
          <5> QED BY <5>2 DEF k
        <4>4. slots[(h + (i + 1) - 1) % Capacity] = <<seen[n - Capacity + (i + 1)].sample>>
          BY <2>2, <4>1
        <4>5. n + 1 - Capacity + i = n - Capacity + (i + 1) /\ n - Capacity + (i + 1) \in 1 .. n
          BY <1>0, <1>1, <2>1, <4>1
        <4>6. seen'[n + 1 - Capacity + i] = seen[n - Capacity + (i + 1)]
          BY <1>3, <4>5
        <4> QED BY <4>2, <4>3, <4>4, <4>6
      <3> QED BY <3>1, <3>2
    <2>4. Capacity = IF n + 1 < Capacity THEN n + 1 ELSE Capacity
      BY <1>0, <1>1, <2>1
    <2>5. ~(Capacity < Capacity)
      BY <1>0
    <2> QED BY <1>2, <2>1, <2>3, <2>4, <2>5
  <1> QED BY <1>6, <1>7

\* A warning that is added is the latest; the one that makes room for it is the oldest.
LEMMA WarningsRecord ==
  ASSUME TypeOK, WarningsAreLatest, NEW s \in Samples, NEW origin \in {"kernel", "fixture"},
         Record(s, origin)
  PROVE  WarningsAreLatest'
  <1> DEFINE n == Len(seen)
             k == Len(warnings)
             D == DOMAIN warnings
  <1>0. /\ seen \in Seq(Recorded) /\ warnings \in Seq(Samples) /\ k <= MaxWarnings
        /\ MaxWarnings \in Nat \ {0} /\ s.us \in Nat /\ n \in Nat /\ k \in Nat
        /\ DOMAIN seen = 1 .. n /\ D = 1 .. k
    BY LatencyAssumption, SMTT(30) DEF TypeOK
  <1>1. /\ Len(seen') = n + 1 /\ seen'[n + 1].sample = s /\ DOMAIN seen' = 1 .. n + 1
        /\ \A i \in 1 .. n : seen'[i] = seen[i]
    <2>1. [sample |-> s, origin |-> origin] \in Recorded
      BY DEF Recorded
    <2> QED BY <1>0, <2>1 DEF Record
  <1>2. PICK from \in [D -> Slow] :
          /\ \A i, j \in D : i < j => from[i] < from[j]
          /\ \A i \in D : warnings[i] = seen[from[i]].sample
          /\ \A m \in Slow \ Range(from) : k = MaxWarnings /\ \A i \in D : m < from[i]
    BY DEF WarningsAreLatest
  <1>3. Slow \subseteq 1 .. n
    BY <1>0 DEF Slow
  <1>4. warnings' = Warned(s)
    BY DEF Record
  <1> HIDE DEF n, k, D
  <1>5. CASE s.us < 500
    <2>1. warnings' = warnings
      BY <1>4, <1>5 DEF Warned
    <2>2. Slow' = Slow
      BY <1>0, <1>1, <1>5 DEF Slow
    <2>3. \A i \in D : warnings'[i] = seen'[from[i]].sample
      BY <1>1, <1>2, <1>3, <2>1
    <2> QED BY <1>2, <2>1, <2>2, <2>3 DEF WarningsAreLatest, D, k
  <1>6. CASE ~(s.us < 500)
    <2>1. Slow' = Slow \cup {n + 1}
      BY <1>0, <1>1, <1>6 DEF Slow
    <2>2. CASE k < MaxWarnings
      <3> DEFINE g == [i \in 1 .. k + 1 |-> IF i = k + 1 THEN n + 1 ELSE from[i]]
      <3>1. /\ Len(warnings') = k + 1 /\ warnings'[k + 1] = s /\ DOMAIN warnings' = 1 .. k + 1
            /\ \A i \in 1 .. k : warnings'[i] = warnings[i]
        <4>1. warnings' = Append(warnings, s)
          BY <1>0, <1>4, <1>6, <2>2 DEF Warned, k
        <4> QED BY <1>0, <4>1 DEF k
      <3>2. g \in [DOMAIN warnings' -> Slow']
        BY <1>0, <1>2, <2>1, <3>1
      <3>3. ASSUME NEW i \in DOMAIN warnings', NEW j \in DOMAIN warnings', i < j
            PROVE  g[i] < g[j]
        <4>1. i \in D /\ i \in 1 .. k + 1 /\ i # k + 1 /\ j \in 1 .. k + 1
          BY <1>0, <3>1, <3>3
        <4>2. g[i] = from[i] /\ from[i] \in 1 .. n
          BY <1>2, <1>3, <4>1
        <4>3. CASE j = k + 1
          <5>1. g[j] = n + 1
            BY <4>1, <4>3
          <5> QED BY <1>0, <4>2, <5>1
        <4>4. CASE j # k + 1
          <5>1. g[j] = from[j] /\ j \in D
            BY <1>0, <4>1, <4>4
          <5> QED BY <1>2, <3>3, <4>1, <4>2, <5>1
        <4> QED BY <4>3, <4>4
      <3>4. ASSUME NEW i \in DOMAIN warnings' PROVE warnings'[i] = seen'[g[i]].sample
        <4>1. CASE i = k + 1
          <5>1. g[i] = n + 1 /\ warnings'[i] = s
            BY <3>1, <4>1
          <5> QED BY <1>1, <5>1
        <4>2. CASE i # k + 1
          <5>1. i \in 1 .. k /\ i \in D /\ g[i] = from[i] /\ warnings'[i] = warnings[i]
            BY <1>0, <3>1, <4>2
          <5> QED BY <1>1, <1>2, <1>3, <5>1
        <4> QED BY <4>1, <4>2
      <3>5. Slow' \ Range(g) = {}
        <4>1. Slow \ Range(from) = {}
          BY <1>0, <1>2, <2>2
        <4>2. g[k + 1] = n + 1 /\ k + 1 \in DOMAIN g /\ \A i \in D : i \in DOMAIN g /\ g[i] = from[i]
          BY <1>0
        <4> HIDE DEF g
        <4> QED BY <1>2, <2>1, <4>1, <4>2 DEF Range
      <3> HIDE DEF g
      <3> QED BY <3>2, <3>3, <3>4, <3>5 DEF WarningsAreLatest
    <2>3. CASE ~(k < MaxWarnings)
      <3>0. k = MaxWarnings /\ k # 0
        BY <1>0, <2>3
      <3> DEFINE g == [i \in 1 .. k |-> IF i = k THEN n + 1 ELSE from[i + 1]]
      <3>1. /\ Len(warnings') = k /\ warnings'[k] = s /\ DOMAIN warnings' = 1 .. k
            /\ \A i \in 1 .. k - 1 : warnings'[i] = warnings[i + 1]
        <4>1. warnings' = Append(Tail(warnings), s)
          BY <1>0, <1>4, <1>6, <3>0 DEF Warned, k
        <4>2. /\ Tail(warnings) \in Seq(Samples) /\ Len(Tail(warnings)) = k - 1
              /\ \A i \in 1 .. k - 1 : Tail(warnings)[i] = warnings[i + 1]
          BY <1>0, <3>0 DEF k
        <4> HIDE DEF k
        <4> QED BY <1>0, <3>0, <4>1, <4>2
      <3>2. g \in [DOMAIN warnings' -> Slow']
        BY <1>0, <1>2, <2>1, <3>0, <3>1
      <3>3. ASSUME NEW i \in DOMAIN warnings', NEW j \in DOMAIN warnings', i < j
            PROVE  g[i] < g[j]
        <4>1. i + 1 \in D /\ i \in 1 .. k /\ i # k /\ j \in 1 .. k
          BY <1>0, <3>1, <3>3
        <4>2. g[i] = from[i + 1] /\ from[i + 1] \in 1 .. n
          BY <1>2, <1>3, <4>1
        <4>3. CASE j = k
          <5>1. g[j] = n + 1
            BY <4>1, <4>3
          <5> QED BY <1>0, <4>2, <5>1
        <4>4. CASE j # k
          <5>1. g[j] = from[j + 1] /\ j + 1 \in D /\ i + 1 < j + 1
            BY <1>0, <3>3, <4>1, <4>4
          <5> QED BY <1>2, <4>1, <4>2, <5>1
        <4> QED BY <4>3, <4>4
      <3>4. \A i \in DOMAIN warnings' : warnings'[i] = seen'[g[i]].sample
        <4> SUFFICES ASSUME NEW i \in 1 .. k PROVE warnings'[i] = seen'[g[i]].sample
          BY <3>1
        <4>1. CASE i = k
          BY <1>0, <1>1, <3>1, <4>1
        <4>2. CASE i # k
          <5>1. i \in 1 .. k - 1 /\ i + 1 \in D /\ g[i] = from[i + 1]
            BY <1>0, <4>2
          <5>2. warnings'[i] = seen[from[i + 1]].sample /\ from[i + 1] \in 1 .. n
            BY <1>2, <1>3, <3>1, <5>1
          <5> QED BY <1>1, <5>1, <5>2
        <4> QED BY <4>1, <4>2
      <3>5. ASSUME NEW m \in Slow' \ Range(g), NEW i \in DOMAIN warnings' PROVE m < g[i]
        <4>0. DOMAIN g = 1 .. k /\ k \in 1 .. k /\ g[k] = n + 1
          BY <1>0, <3>0
        <4>1. /\ \A j \in 1 .. k : g[j] \in Range(g)
              /\ \A j \in 1 .. k - 1 : g[j] = from[j + 1]
          <5>1. \A j \in 1 .. k - 1 : g[j] = from[j + 1]
            BY <1>0, <3>0
          <5>2. \A j \in 1 .. k : g[j] \in Range(g)
            <6> HIDE DEF g
            <6> QED BY <4>0 DEF Range
          <5> QED BY <5>1, <5>2
        <4> HIDE DEF g
        <4>2. m \in Slow /\ m \in 1 .. n
          <5>1. n + 1 \in Range(g)
            BY <4>0, <4>1
          <5> QED BY <1>3, <2>1, <5>1
        <4>3. \A j \in 2 .. k : m # from[j]
          <5> SUFFICES ASSUME NEW j \in 2 .. k PROVE m # from[j]
            OBVIOUS
          <5>1. j - 1 \in 1 .. k - 1 /\ (j - 1) + 1 = j /\ j - 1 \in 1 .. k
            BY <1>0
          <5>2. from[j] \in Range(g)
            BY <4>1, <5>1
          <5> QED BY <5>2
        <4>4. 1 \in D /\ m <= from[1] /\ from[1] \in 1 .. n
          <5>1. 1 \in D /\ from[1] \in 1 .. n
            <6>1. 1 \in D
              BY <1>0, <3>0
            <6> QED BY <1>2, <1>3, <6>1
          <5>2. CASE m \in Range(from)
            <6>1. PICK j \in D : m = from[j]
              BY <5>2 DEF Range
            <6>2. j = 1
              BY <1>0, <4>3, <6>1
            <6> QED BY <5>1, <6>1, <6>2, <4>2
          <5>3. CASE m \notin Range(from)
            BY <1>2, <4>2, <5>1, <5>3
          <5> QED BY <5>2, <5>3
        <4>5. CASE i = k
          BY <1>0, <4>0, <4>2, <4>5
        <4>6. CASE i # k
          <5>1. i \in 1 .. k - 1 /\ i + 1 \in D /\ 1 < i + 1 /\ g[i] = from[i + 1]
            BY <1>0, <3>1, <4>1, <4>6
          <5>2. from[1] < from[i + 1] /\ from[i + 1] \in 1 .. n
            BY <1>2, <1>3, <4>4, <5>1
          <5> QED BY <1>0, <4>2, <4>4, <5>1, <5>2
        <4> QED BY <4>5, <4>6
      <3> HIDE DEF g
      <3> QED BY <3>0, <3>1, <3>2, <3>3, <3>4, <3>5 DEF WarningsAreLatest
    <2> QED BY <2>2, <2>3
  <1> QED BY <1>5, <1>6

\* Everything that is reset is empty.
LEMMA ResetFacts ==
  ASSUME Reset
  PROVE  /\ totals' = Zero /\ DOMAIN stats' = {} /\ seen' = <<>> /\ Len(seen') = 0
         /\ totals' \in [dpcs : Nat, isrs : Nat, max_dpc : Nat, max_isr : Nat]
         /\ totals'.dpcs + totals'.isrs = 0 /\ Top' = 0
         /\ stats' \in [DOMAIN stats' -> [max : Nat, count : Nat]]
         /\ ring' \in [slots : [0 .. Capacity - 1 -> Seq(Samples)],
                       head : 0 .. Capacity - 1, count : 0 .. Capacity]
         /\ warnings' \in Seq(Samples) /\ Len(warnings') = 0 /\ seen' \in Seq(Recorded)
         /\ RingInv' /\ WarningsAreLatest'
  <1> USE LatencyAssumption
  <1>1. totals' = Zero /\ stats' = NoStats /\ seen' = <<>> /\ warnings' = <<>> /\ ring' = EmptyRing
    BY DEF Reset
  <1>2. /\ totals' \in [dpcs : Nat, isrs : Nat, max_dpc : Nat, max_isr : Nat]
        /\ totals'.dpcs + totals'.isrs = 0 /\ Top' = 0
    BY <1>1 DEF Zero, Top, Higher
  <1>3. DOMAIN stats' = {} /\ stats' \in [DOMAIN stats' -> [max : Nat, count : Nat]]
    BY <1>1 DEF NoStats
  <1>4. /\ ring' \in [slots : [0 .. Capacity - 1 -> Seq(Samples)],
                      head : 0 .. Capacity - 1, count : 0 .. Capacity]
        /\ ring'.count = 0 /\ ring'.head = 0
    <2>1. <<>> \in Seq(Samples)
      OBVIOUS
    <2>2. [i \in 0 .. Capacity - 1 |-> <<>>] \in [0 .. Capacity - 1 -> Seq(Samples)]
      BY <2>1
    <2> QED BY <1>1, <2>2 DEF EmptyRing
  <1>5. /\ warnings' \in Seq(Samples) /\ Len(warnings') = 0
        /\ seen' \in Seq(Recorded) /\ Len(seen') = 0
    BY <1>1
  <1>6. RingInv'
    BY <1>4, <1>5 DEF RingInv, RingHoldsTheLatest
  <1>7. WarningsAreLatest'
    <2>1. DOMAIN warnings' = {} /\ Slow' = {}
      BY <1>1 DEF Slow
    <2>2. [i \in {} |-> i] \in [DOMAIN warnings' -> Slow']
      BY <2>1
    <2> QED BY <2>1, <2>2 DEF WarningsAreLatest
  <1> QED BY <1>1, <1>2, <1>3, <1>4, <1>5, <1>6, <1>7

\* Between two samples the highest time of the drivers is that of the counters.
LEMMA HighestOfDrivers ==
  ASSUME TypeOK, MeasureInv, pending = <<>>
  PROVE  Max({stats[d].max : d \in DOMAIN stats} \cup {0}) = Top
  <1> DEFINE S == {stats[d].max : d \in DOMAIN stats} \cup {0}
  <1>1. Top \in Nat /\ \A d \in DOMAIN stats : stats[d].max \in Nat
    BY DEF TypeOK, Top, Higher
  <1>2. Top \in S /\ \A y \in S : Top >= y
    BY <1>1 DEF MeasureInv
  <1>3. \A y \in S : y \in Nat
    BY <1>1
  <1> HIDE DEF S
  <1>4. Max(S) \in S /\ \A y \in S : Max(S) >= y
    BY <1>2 DEF Max
  <1>5. Max(S) = Top
    <2>1. Max(S) \in Nat /\ Top >= Max(S) /\ Max(S) >= Top
      BY <1>2, <1>3, <1>4
    <2> QED BY <1>1, <2>1
  <1> QED BY <1>5 DEF S

-----------------------------------------------------------------------------
(* Every step keeps the invariant                                          *)

\* The steps that leave alone what is measured.
Quiet ==
    \/ StartSession \/ StopStale \/ StopSession \/ CloseTrace \/ StopLogger \/ Join
    \/ FixtureEnds \/ ReadDrivers \/ ReadHighest \/ ReadTotals \/ OpenTrace \/ StoreHandle
    \/ TraceReturns \/ TraceFails \/ WorkerEnds \/ OtherStops \/ OtherStarts \/ UNCHANGED vars

LEMMA QuietFacts ==
  ASSUME Quiet PROVE UNCHANGED <<measured, drivers, pending>>
  BY DEF Quiet, StartSession, StopStale, EndLogger, StopSession, CloseTrace, StopLogger, Join,
    FixtureEnds, ReadDrivers, ReadHighest, ReadTotals, OpenTrace, StoreHandle, TraceReturns,
    TraceFails, WorkerEnds, OtherStops, OtherStarts, vars, trace, measured

\* A sample under way is one of the kernel's.
LEMMA PendingFacts ==
  ASSUME TypeOK, pending # <<>> PROVE pending[1] \in Samples /\ Len(pending) = 1
  <1>1. pending \in Seq(Samples) /\ Len(pending) <= 1
    BY DEF TypeOK
  <1> DEFINE n == Len(pending)
  <1>2. n \in Nat /\ n # 0 /\ n <= 1
    BY <1>1
  <1> HIDE DEF n
  <1>3. n = 1
    BY <1>2
  <1> QED BY <1>1, <1>3 DEF n

\* What the counters and the history say depends on nothing else.
LEMMA MeasureFrame ==
  ASSUME MeasureInv, UNCHANGED <<stats, totals, seen, drivers, pending>> PROVE MeasureInv'
  BY DEF MeasureInv, Top, Traced

\* What was read for the report stays true while nothing is measured.
LEMMA ReportFrame ==
  ASSUME ReportInv, UNCHANGED <<report, stats, totals>>,
         pc' \in Reading => pc' = pc
  PROVE  ReportInv'
  BY DEF ReportInv, Reading, Top, Offending, Slowest

\* Outside of those steps nothing is asked of the report but its fields.
LEMMA ReportIdle ==
  ASSUME ReportInv, UNCHANGED report, pc' \notin Reading PROVE ReportInv'
  BY DEF ReportInv, Reading

\* A session that is stopped takes its worker and the logger with it.
LEMMA TraceStep ==
  ASSUME TypeOK, TraceInv, [Next]_vars PROVE TraceInv'
  <1> USE LatencyAssumption DEF TraceInv, Tracing, Goto, trace, measured
  <1>1. CASE StartSession
    BY <1>1 DEF StartSession
  <1>2. CASE StartFixture
    BY <1>2 DEF StartFixture
  <1>3. CASE NextSession
    BY <1>3 DEF NextSession
  <1>4. CASE StopStale
    BY <1>4 DEF StopStale, EndLogger
  <1>5. CASE StartTrace
    BY <1>5 DEF StartTrace
  <1>6. CASE StopSession
    BY <1>6 DEF StopSession, TypeOK
  <1>7. CASE CloseTrace
    BY <1>7 DEF CloseTrace
  <1>8. CASE StopLogger
    BY <1>8 DEF StopLogger, EndLogger
  <1>9. CASE Join
    BY <1>9 DEF Join
  <1>10. CASE FixtureEnds
    BY <1>10 DEF FixtureEnds
  <1>11. CASE ReadDrivers \/ ReadHighest
    BY <1>11 DEF ReadDrivers, ReadHighest
  <1>12. CASE ReadTotals
    BY <1>12 DEF ReadTotals
  <1>13. CASE OpenTrace
    BY <1>13 DEF OpenTrace, TypeOK
  <1>14. CASE StoreHandle
    BY <1>14 DEF StoreHandle
  <1>15. CASE RecordSample
    BY <1>15 DEF RecordSample
  <1>16. CASE TraceReturns \/ TraceFails
    BY <1>16 DEF TraceReturns, TraceFails
  <1>17. CASE WorkerEnds
    BY <1>17 DEF WorkerEnds
  <1>18. ASSUME NEW s \in Samples, CountSample(s) PROVE TraceInv'
    BY <1>18 DEF CountSample
  <1>19. ASSUME NEW s \in Samples, FixtureSample(s) PROVE TraceInv'
    BY <1>19 DEF FixtureSample
  <1>20. CASE OtherStops
    BY <1>20 DEF OtherStops, EndLogger
  <1>21. CASE OtherStarts
    BY <1>21 DEF OtherStarts
  <1>22. CASE UNCHANGED vars
    BY <1>22 DEF vars
  <1> QED
    BY <1>1, <1>2, <1>3, <1>4, <1>5, <1>6, <1>7, <1>8, <1>9, <1>10, <1>11, <1>12, <1>13,
       <1>14, <1>15, <1>16, <1>17, <1>18, <1>19, <1>20, <1>21, <1>22
    DEF Next, Manager, Worker

\* Samples come from the session that the status names.
LEMMA OriginStep ==
  ASSUME TypeOK, TraceInv, OriginInv, [Next]_vars PROVE OriginInv'
  <1> USE LatencyAssumption DEF OriginInv, OriginIsDeclared, Tracing, Goto, trace, measured
  <1>1. CASE StartSession
    BY <1>1 DEF StartSession
  <1>2. CASE StartFixture
    <2>1. seen' = <<>>
      BY <1>2, ResetFacts DEF StartFixture
    <2> QED BY <1>2, <2>1 DEF StartFixture
  <1>3. CASE NextSession
    <2>1. CASE UNCHANGED <<status, seen>>
      BY <1>3, <2>1 DEF NextSession
    <2>2. CASE Reset
      <3>1. seen' = <<>>
        BY <2>2, ResetFacts
      <3> QED BY <1>3, <3>1 DEF NextSession
    <2> QED BY <1>3, <2>1, <2>2 DEF NextSession
  <1>4. CASE StopStale
    BY <1>4 DEF StopStale, EndLogger
  <1>5. CASE StartTrace
    <2>1. CASE Reset
      <3>1. seen' = <<>>
        BY <2>1, ResetFacts
      <3> QED BY <1>5, <3>1 DEF StartTrace
    <2>2. CASE Goto("startTrace", "drivers")
      <3>1. status' \notin {"RealEtwCollected", "SyntheticTestFixture"} /\ pc' = "drivers"
        BY <1>5, <2>2 DEF StartTrace
      <3> QED BY <3>1
    <2> QED BY <1>5, <2>1, <2>2 DEF StartTrace
  <1>6. CASE StopSession
    BY <1>6 DEF StopSession
  <1>7. CASE CloseTrace
    BY <1>7 DEF CloseTrace
  <1>8. CASE StopLogger
    BY <1>8 DEF StopLogger, EndLogger
  <1>9. CASE Join
    BY <1>9 DEF Join
  <1>10. CASE FixtureEnds
    BY <1>10 DEF FixtureEnds
  <1>11. CASE ReadDrivers \/ ReadHighest
    BY <1>11 DEF ReadDrivers, ReadHighest
  <1>12. CASE ReadTotals
    BY <1>12 DEF ReadTotals
  <1>13. CASE OpenTrace
    BY <1>13 DEF OpenTrace
  <1>14. CASE StoreHandle
    BY <1>14 DEF StoreHandle
  <1>15. CASE RecordSample
    <2>1. /\ worker = "tracing" /\ UNCHANGED <<pc, status>> /\ pending[1] \in Samples
          /\ Record(pending[1], "kernel")
      BY <1>15 DEF RecordSample, TypeOK
    <2>2. pc \in Tracing
      BY <2>1 DEF TraceInv
    <2>3. \A i \in DOMAIN seen' :
             (i \in DOMAIN seen /\ seen'[i] = seen[i]) \/ seen'[i].origin = "kernel"
      BY <2>1, SeenGrows
    <2> QED BY <2>1, <2>2, <2>3
  <1>16. CASE TraceReturns \/ TraceFails
    BY <1>16 DEF TraceReturns, TraceFails
  <1>17. CASE WorkerEnds
    BY <1>17 DEF WorkerEnds
  <1>18. ASSUME NEW s \in Samples, CountSample(s) PROVE OriginInv'
    BY <1>18 DEF CountSample
  <1>19. ASSUME NEW s \in Samples, FixtureSample(s) PROVE OriginInv'
    <2>1. pc = "fixture" /\ UNCHANGED <<pc, status>> /\ Record(s, "fixture")
      BY <1>19 DEF FixtureSample
    <2>2. \A i \in DOMAIN seen' :
             (i \in DOMAIN seen /\ seen'[i] = seen[i]) \/ seen'[i].origin = "fixture"
      BY <2>1, SeenGrows
    <2> QED BY <2>1, <2>2
  <1>20. CASE OtherStops
    BY <1>20 DEF OtherStops, EndLogger
  <1>21. CASE OtherStarts
    BY <1>21 DEF OtherStarts
  <1>22. CASE UNCHANGED vars
    BY <1>22 DEF vars
  <1> QED
    BY <1>1, <1>2, <1>3, <1>4, <1>5, <1>6, <1>7, <1>8, <1>9, <1>10, <1>11, <1>12, <1>13,
       <1>14, <1>15, <1>16, <1>17, <1>18, <1>19, <1>20, <1>21, <1>22
    DEF Next, Manager, Worker

\* Counters, isolator and history agree but for the sample under way.
LEMMA MeasureStep ==
  ASSUME TypeOK, TraceInv, MeasureInv, [Next]_vars PROVE MeasureInv'
  <1> USE LatencyAssumption DEF MeasureInv
  <1>1. CASE Quiet
    BY <1>1, QuietFacts, MeasureFrame DEF measured
  <1>2. CASE StartFixture
    <2>1. pending' = <<>> /\ Reset
      BY <1>2 DEF StartFixture, TraceInv, Tracing, Goto
    <2> QED BY <2>1, ResetFacts
  <1>3. CASE NextSession
    <2>1. pending' = <<>> /\ UNCHANGED pending
      BY <1>3 DEF NextSession, TraceInv, Tracing, Goto, trace
    <2>2. CASE Reset
      BY <2>1, <2>2, ResetFacts
    <2>3. CASE UNCHANGED <<stats, totals, seen, drivers>>
      BY <2>1, <2>3, MeasureFrame
    <2> QED BY <1>3, <2>2, <2>3 DEF NextSession, measured
  <1>4. CASE StartTrace
    <2>1. pending' = <<>>
      BY <1>4 DEF StartTrace, TraceInv, Tracing, Goto, trace
    <2>2. CASE Reset
      BY <2>1, <2>2, ResetFacts
    <2>3. CASE UNCHANGED <<stats, totals, seen, drivers, pending>>
      BY <2>3, MeasureFrame
    <2> QED BY <1>4, <2>2, <2>3 DEF StartTrace, trace, measured
  <1>5. CASE RecordSample
    <2> DEFINE s == pending[1]
    <2>1. /\ s \in Samples /\ Len(pending) = 1 /\ Record(s, "kernel")
          /\ pending' = <<>> /\ UNCHANGED <<totals, drivers>> /\ pending # <<>>
      <3> HIDE DEF MeasureInv
      <3>1. /\ pending # <<>> /\ Record(s, "kernel")
            /\ pending' = <<>> /\ UNCHANGED <<totals, drivers>>
        BY <1>5 DEF RecordSample
      <3> QED BY <3>1, PendingFacts
    <2> HIDE DEF s
    <2>2. s.us <= Top /\ Top \in Nat /\ Top' = Top
      <3>1. totals.max_dpc \in Nat /\ totals.max_isr \in Nat
        BY DEF TypeOK
      <3> QED BY <2>1, <3>1, HigherFacts DEF s, Top
    <2>3. /\ \A d \in DOMAIN stats' : stats'[d].max <= Top
          /\ Top = 0 \/ \E d \in DOMAIN stats' : stats'[d].max = Top
      <3>1. /\ \A d \in DOMAIN stats : stats[d].max <= Top
            /\ Top = 0 \/ s.us = Top \/ \E d \in DOMAIN stats : stats[d].max = Top
        BY DEF s
      <3>2. stats' = record_execution(s)
        BY <2>1 DEF Record
      <3> HIDE DEF MeasureInv
      <3> QED BY <2>1, <2>2, <3>1, <3>2, HighestFacts
    <2>4. \A name \in DOMAIN stats' \ {Unknown} : Traced(name)'
      <3> HIDE DEF MeasureInv
      <3> QED BY <2>1, TracedFacts
    <2>5. totals'.dpcs + totals'.isrs = Len(seen') + Len(pending')
      <3>1. Len(seen') = Len(seen) + 1 /\ Len(seen) \in Nat
        BY <2>1, RecordTypes
      <3>2. totals.dpcs + totals.isrs = Len(seen) + Len(pending)
        OBVIOUS
      <3> QED BY <2>1, <3>1, <3>2
    <2> QED BY <2>1, <2>2, <2>3, <2>4, <2>5
  <1>6. ASSUME NEW s \in Samples, CountSample(s) PROVE MeasureInv'
    <2>1. /\ pending = <<>> /\ pending' = <<s>> /\ totals' = Counted(s) /\ Len(seen) < MaxSamples
          /\ UNCHANGED <<stats, seen, drivers>>
      BY <1>6 DEF CountSample
    <2>2. Top \in Nat /\ Top' = Higher(s.us, Top) /\ s.us \in Nat
      BY <2>1, CountedFacts, LatencyAssumption
    <2>3. totals'.dpcs + totals'.isrs = Len(seen') + Len(pending')
      <3>1. totals'.dpcs + totals'.isrs = totals.dpcs + totals.isrs + 1
        BY <2>1, CountedFacts
      <3>2. Len(pending) = 0 /\ Len(pending') = 1 /\ seen' = seen /\ Len(seen) \in Nat
        BY <2>1 DEF TypeOK
      <3> QED BY <3>1, <3>2
    <2>4. \A d \in DOMAIN stats : stats[d].max \in Nat
      BY DEF TypeOK
    <2>5. \A d \in DOMAIN stats' : stats'[d].max <= Top'
      BY <2>1, <2>2, <2>4 DEF Higher
    <2>6. s.us <= Top' /\ (Top' = s.us \/ Top' = Top)
      BY <2>2, HigherFacts
    <2>7. \/ Top' = 0
          \/ pending' # <<>> /\ pending'[1].us = Top'
          \/ \E d \in DOMAIN stats' : stats'[d].max = Top'
      BY <2>1, <2>2, <2>6
    <2>8. \A name \in DOMAIN stats' \ {Unknown} : Traced(name)'
      BY <2>1 DEF Traced
    <2> QED BY <2>1, <2>3, <2>5, <2>6, <2>7, <2>8
  <1>7. ASSUME NEW s \in Samples, FixtureSample(s) PROVE MeasureInv'
    <2>1. /\ pending = <<>> /\ pending' = <<>> /\ totals' = Counted(s) /\ Len(seen) < MaxSamples
          /\ Record(s, "fixture") /\ drivers' = drivers
      BY <1>7 DEF FixtureSample, TraceInv, Tracing, trace
    <2>2. Top \in Nat /\ Top' = Higher(s.us, Top) /\ s.us \in Nat
      BY <2>1, CountedFacts, LatencyAssumption
    <2>3. totals'.dpcs + totals'.isrs = Len(seen') + Len(pending')
      <3>1. totals'.dpcs + totals'.isrs = totals.dpcs + totals.isrs + 1
        BY <2>1, CountedFacts
      <3>2. Len(pending) = 0 /\ Len(pending') = 0 /\ Len(seen') = Len(seen) + 1 /\ Len(seen) \in Nat
        BY <2>1, RecordTypes
      <3> QED BY <3>1, <3>2
    <2>4. \A d \in DOMAIN stats : stats[d].max \in Nat
      BY DEF TypeOK
    <2>5. \A d \in DOMAIN stats : stats[d].max <= Top'
      BY <2>2, <2>4 DEF Higher
    <2>6. s.us <= Top' /\ Top' \in Nat /\ (Top' = s.us \/ Top' = Top)
      BY <2>2, HigherFacts
    <2>7. Top' = 0 \/ s.us = Top' \/ \E d \in DOMAIN stats : stats[d].max = Top'
      BY <2>1, <2>2, <2>6
    <2>8. /\ \A d \in DOMAIN stats' : stats'[d].max <= Top'
          /\ Top' = 0 \/ \E d \in DOMAIN stats' : stats'[d].max = Top'
      BY <2>1, <2>5, <2>6, <2>7, HighestFacts DEF Record
    <2>9. \A name \in DOMAIN stats' \ {Unknown} : Traced(name)'
      <3> HIDE DEF MeasureInv
      <3> QED BY <2>1, TracedFacts
    <2> QED BY <2>1, <2>3, <2>8, <2>9
  <1> QED
    BY <1>1, <1>2, <1>3, <1>4, <1>5, <1>6, <1>7
    DEF Next, Manager, Worker, Quiet

\* The ring changes with the history.
LEMMA RingStep ==
  ASSUME TypeOK, RingInv, [Next]_vars PROVE RingInv'
  <1> USE LatencyAssumption DEF measured
  <1>1. CASE Quiet
    BY <1>1, QuietFacts DEF RingInv, RingHoldsTheLatest
  <1>2. CASE StartFixture
    BY <1>2, ResetFacts DEF StartFixture
  <1>3. CASE NextSession
    BY <1>3, ResetFacts DEF NextSession, RingInv, RingHoldsTheLatest
  <1>4. CASE StartTrace
    BY <1>4, ResetFacts DEF StartTrace, RingInv, RingHoldsTheLatest
  <1>5. CASE RecordSample
    <2>1. pending[1] \in Samples /\ Record(pending[1], "kernel")
      BY <1>5 DEF RecordSample, TypeOK
    <2> QED BY <2>1, RingRecord
  <1>6. ASSUME NEW s \in Samples, CountSample(s) PROVE RingInv'
    BY <1>6 DEF CountSample, RingInv, RingHoldsTheLatest
  <1>7. ASSUME NEW s \in Samples, FixtureSample(s) PROVE RingInv'
    <2>1. Record(s, "fixture")
      BY <1>7 DEF FixtureSample
    <2> QED BY <2>1, RingRecord
  <1> QED
    BY <1>1, <1>2, <1>3, <1>4, <1>5, <1>6, <1>7
    DEF Next, Manager, Worker, Quiet

\* So do the warnings.
LEMMA WarningsStep ==
  ASSUME TypeOK, WarningsAreLatest, [Next]_vars PROVE WarningsAreLatest'
  <1> USE LatencyAssumption DEF measured
  <1>1. CASE Quiet
    BY <1>1, QuietFacts DEF WarningsAreLatest, Slow
  <1>2. CASE StartFixture
    BY <1>2, ResetFacts DEF StartFixture
  <1>3. CASE NextSession
    BY <1>3, ResetFacts, SMTT(30) DEF NextSession, WarningsAreLatest, Slow
  <1>4. CASE StartTrace
    BY <1>4, ResetFacts, ZenonT(60) DEF StartTrace, WarningsAreLatest, Slow
  <1>5. CASE RecordSample
    <2>1. pending[1] \in Samples /\ Record(pending[1], "kernel")
      BY <1>5 DEF RecordSample, TypeOK
    <2> QED BY <2>1, WarningsRecord
  <1>6. ASSUME NEW s \in Samples, CountSample(s) PROVE WarningsAreLatest'
    BY <1>6 DEF CountSample, WarningsAreLatest, Slow
  <1>7. ASSUME NEW s \in Samples, FixtureSample(s) PROVE WarningsAreLatest'
    <2>1. Record(s, "fixture")
      BY <1>7 DEF FixtureSample
    <2> QED BY <2>1, WarningsRecord
  <1> QED
    BY <1>1, <1>2, <1>3, <1>4, <1>5, <1>6, <1>7
    DEF Next, Manager, Worker, Quiet

\* Nothing is measured while the report is read.
LEMMA ReportStep ==
  ASSUME TypeOK, TraceInv, MeasureInv, ReportInv, [Next]_vars PROVE ReportInv'
  <1> USE LatencyAssumption DEF Goto, Reading, trace, measured
  <1>1. CASE StartSession
    BY <1>1, ReportIdle DEF StartSession
  <1>2. CASE StartFixture
    BY <1>2, ReportIdle DEF StartFixture
  <1>3. CASE NextSession
    <2>1. pc' = "ready" /\ report' = NoReport
      BY <1>3 DEF NextSession
    <2> QED BY <2>1 DEF NoReport, ReportInv, Reading
  <1>4. CASE StopStale
    BY <1>4, ReportIdle DEF StopStale
  <1>5. CASE StartTrace
    BY <1>5, ReportIdle DEF StartTrace
  <1>6. CASE StopSession
    BY <1>6, ReportIdle DEF StopSession
  <1>7. CASE CloseTrace
    BY <1>7, ReportIdle DEF CloseTrace
  <1>8. CASE StopLogger
    BY <1>8, ReportIdle DEF StopLogger
  <1>9. CASE Join
    BY <1>9, ReportIdle DEF Join
  <1>10. CASE FixtureEnds
    BY <1>10, ReportIdle DEF FixtureEnds
  <1>11. CASE ReadDrivers \/ ReadHighest
    <2>1. CASE ReadDrivers
      <3>1. /\ pending = <<>> /\ UNCHANGED <<stats, totals>> /\ pc' = "highest"
        BY <2>1 DEF ReadDrivers, TraceInv, Tracing
      <3>2. PICK first, second :
              /\ first \in FirstOf(DOMAIN stats, "None")
              /\ report' = [NoReport EXCEPT
                              !.offending = Offending,
                              !.top = Max({stats[d].max : d \in DOMAIN stats} \cup {0}),
                              !.dpc_driver = first, !.isr_driver = second]
        BY <2>1 DEF ReadDrivers
      <3>3. Max({stats[d].max : d \in DOMAIN stats} \cup {0}) = Top
        BY <3>1, HighestOfDrivers
      <3>4. Offending' = Offending /\ Top' = Top
        BY <3>1 DEF Offending, Top
      <3>5. report' = [offending |-> Offending, top |-> Top, dpc_driver |-> first,
                       isr_driver |-> second, dpcs |-> 0, isrs |-> 0,
                       max_dpc |-> 0, max_isr |-> 0, suitable |-> FALSE]
        BY <3>2, <3>3 DEF NoReport
      <3>6. /\ report'.offending = Offending /\ report'.top = Top
            /\ report' = [offending |-> report'.offending, top |-> report'.top,
                          dpc_driver |-> report'.dpc_driver, isr_driver |-> report'.isr_driver,
                          dpcs |-> report'.dpcs, isrs |-> report'.isrs,
                          max_dpc |-> report'.max_dpc, max_isr |-> report'.max_isr,
                          suitable |-> report'.suitable]
        BY <3>5
      <3>7. report'.dpc_driver = first
        BY <3>5
      <3>8. Top > 0 => first \in Slowest
        <4> SUFFICES ASSUME Top > 0 PROVE first \in Slowest
          OBVIOUS
        <4>1. Top \in Nat /\ \A d \in DOMAIN stats : stats[d].max \in Nat
          BY DEF TypeOK, Top, Higher
        <4>2. PICK d \in DOMAIN stats : stats[d].max = Top
          BY <3>1, <4>1 DEF MeasureInv
        <4>3. /\ first \in DOMAIN stats
              /\ \A e \in DOMAIN stats : stats[e].max <= stats[first].max
          BY <3>2, <4>2 DEF FirstOf
        <4>4. stats[first].max <= Top /\ Top <= stats[first].max
          BY <4>2, <4>3 DEF MeasureInv
        <4> QED BY <4>1, <4>3, <4>4 DEF Slowest
      <3>9. Slowest' = Slowest
        BY <3>1, <3>4 DEF Slowest
      <3> QED BY <3>1, <3>4, <3>6, <3>7, <3>8, <3>9 DEF ReportInv
    <2>2. CASE ReadHighest
      <3>1. /\ pc = "highest" /\ pc' = "totals" /\ UNCHANGED <<stats, totals>>
            /\ report' = [report EXCEPT !.max_dpc = totals.max_dpc, !.max_isr = totals.max_isr,
                                        !.suitable = Suitable]
        BY <2>2 DEF ReadHighest
      <3>2. report' = [offending |-> report.offending, top |-> report.top,
                       dpc_driver |-> report.dpc_driver, isr_driver |-> report.isr_driver,
                       dpcs |-> report.dpcs, isrs |-> report.isrs, max_dpc |-> totals.max_dpc,
                       max_isr |-> totals.max_isr, suitable |-> Suitable]
        BY <3>1 DEF ReportInv
      <3>3. /\ report.offending = Offending' /\ report.top = Top'
            /\ Top' > 0 => report.dpc_driver \in Slowest'
        BY <3>1 DEF ReportInv, Reading, Offending, Top, Slowest
      <3> QED BY <3>1, <3>2, <3>3 DEF ReportInv
    <2> QED BY <1>11, <2>1, <2>2
  <1>12. CASE ReadTotals
    <2>1. /\ pc = "totals" /\ pc' = "reported" /\ UNCHANGED <<stats, totals>>
          /\ report' = [report EXCEPT !.dpcs = totals.dpcs, !.isrs = totals.isrs]
      BY <1>12 DEF ReadTotals
    <2>2. report' = [offending |-> report.offending, top |-> report.top,
                     dpc_driver |-> report.dpc_driver, isr_driver |-> report.isr_driver,
                     dpcs |-> totals.dpcs, isrs |-> totals.isrs, max_dpc |-> report.max_dpc,
                     max_isr |-> report.max_isr, suitable |-> report.suitable]
      BY <2>1 DEF ReportInv
    <2>3. /\ report.offending = Offending' /\ report.top = Top'
          /\ Top' > 0 => report.dpc_driver \in Slowest'
          /\ report.max_dpc = totals.max_dpc /\ report.max_isr = totals.max_isr
      BY <2>1 DEF ReportInv, Reading, Offending, Top, Slowest
    <2> QED BY <2>1, <2>2, <2>3 DEF ReportInv
  <1>13. CASE OpenTrace
    BY <1>13, ReportFrame DEF OpenTrace
  <1>14. CASE StoreHandle
    BY <1>14, ReportFrame DEF StoreHandle
  <1>15. CASE RecordSample
    BY <1>15, ReportIdle DEF RecordSample, TraceInv, Tracing
  <1>16. CASE TraceReturns \/ TraceFails
    BY <1>16, ReportFrame DEF TraceReturns, TraceFails
  <1>17. CASE WorkerEnds
    BY <1>17, ReportFrame DEF WorkerEnds
  <1>18. ASSUME NEW s \in Samples, CountSample(s) PROVE ReportInv'
    BY <1>18, ReportIdle DEF CountSample, TraceInv, Tracing
  <1>19. ASSUME NEW s \in Samples, FixtureSample(s) PROVE ReportInv'
    BY <1>19, ReportIdle DEF FixtureSample
  <1>20. CASE OtherStops
    BY <1>20, ReportFrame DEF OtherStops
  <1>21. CASE OtherStarts
    BY <1>21, ReportFrame DEF OtherStarts
  <1>22. CASE UNCHANGED vars
    BY <1>22, ReportFrame DEF vars
  <1> QED
    BY <1>1, <1>2, <1>3, <1>4, <1>5, <1>6, <1>7, <1>8, <1>9, <1>10, <1>11, <1>12, <1>13,
       <1>14, <1>15, <1>16, <1>17, <1>18, <1>19, <1>20, <1>21, <1>22
    DEF Next, Manager, Worker

\* The types of what is not measured.
PlainTypes ==
    /\ pc \in {"ready", "stopStale", "startTrace", "sleep", "close", "end", "join",
               "fixture", "drivers", "highest", "totals", "reported"}
    /\ logger \in {"none", "ours", "other"} /\ status \in Statuses
    /\ running \in BOOLEAN /\ session \in BOOLEAN
    /\ handle \in BOOLEAN /\ closed \in BOOLEAN /\ failed \in BOOLEAN
    /\ worker \in {"none", "opening", "storing", "tracing", "ending", "ended"}
    /\ attached \in {"none", "ours", "other"} /\ drivers \in DriverLists

\* The types of what is.
MeasuredTypes ==
    /\ pending \in Seq(Samples) /\ Len(pending) <= 1
    /\ totals \in [dpcs : Nat, isrs : Nat, max_dpc : Nat, max_isr : Nat]
    /\ totals.dpcs + totals.isrs <= MaxSamples
    /\ stats \in [DOMAIN stats -> [max : Nat, count : Nat]]
    /\ ring \in [slots : [0 .. Capacity - 1 -> Seq(Samples)],
                 head : 0 .. Capacity - 1, count : 0 .. Capacity]
    /\ warnings \in Seq(Samples) /\ Len(warnings) <= MaxWarnings
    /\ seen \in Seq(Recorded) /\ Len(seen) <= MaxSamples

\* The plain types are kept.
LEMMA PlainStep ==
  ASSUME PlainTypes, [Next]_vars PROVE PlainTypes'
  <1> USE LatencyAssumption DEF PlainTypes, Goto, trace, measured
  <1>1. CASE StartSession
    BY <1>1 DEF StartSession, Statuses
  <1>2. CASE StartFixture
    BY <1>2 DEF StartFixture, Statuses
  <1>3. CASE NextSession
    BY <1>3 DEF NextSession, Statuses
  <1>4. CASE StopStale
    BY <1>4 DEF StopStale, EndLogger
  <1>5. CASE StartTrace
    <2>1. CASE Goto("startTrace", "sleep")
      BY <1>5, <2>1 DEF StartTrace, Statuses
    <2>2. CASE Goto("startTrace", "drivers")
      BY <1>5, <2>2 DEF StartTrace, Statuses
    <2> QED BY <1>5, <2>1, <2>2 DEF StartTrace
  <1>6. CASE StopSession
    BY <1>6 DEF StopSession
  <1>7. CASE CloseTrace
    BY <1>7 DEF CloseTrace
  <1>8. CASE StopLogger
    BY <1>8 DEF StopLogger, EndLogger
  <1>9. CASE Join
    BY <1>9 DEF Join
  <1>10. CASE FixtureEnds
    BY <1>10 DEF FixtureEnds
  <1>11. CASE ReadDrivers \/ ReadHighest
    <2>1. CASE ReadDrivers
      BY <2>1 DEF ReadDrivers
    <2>2. CASE ReadHighest
      BY <2>2 DEF ReadHighest
    <2> QED BY <1>11, <2>1, <2>2
  <1>12. CASE ReadTotals
    BY <1>12 DEF ReadTotals
  <1>13. CASE OpenTrace
    BY <1>13, ZenonT(60) DEF OpenTrace
  <1>14. CASE StoreHandle
    BY <1>14 DEF StoreHandle
  <1>15. CASE RecordSample
    BY <1>15 DEF RecordSample
  <1>16. CASE TraceReturns \/ TraceFails
    <2>1. CASE TraceReturns
      BY <2>1 DEF TraceReturns
    <2>2. CASE TraceFails
      BY <2>2 DEF TraceFails
    <2> QED BY <1>16, <2>1, <2>2
  <1>17. CASE WorkerEnds
    BY <1>17 DEF WorkerEnds
  <1>18. ASSUME NEW s \in Samples, CountSample(s) PROVE PlainTypes'
    BY <1>18 DEF CountSample
  <1>19. ASSUME NEW s \in Samples, FixtureSample(s) PROVE PlainTypes'
    BY <1>19 DEF FixtureSample
  <1>20. CASE OtherStops
    BY <1>20 DEF OtherStops, EndLogger
  <1>21. CASE OtherStarts
    BY <1>21 DEF OtherStarts
  <1>22. CASE UNCHANGED vars
    BY <1>22 DEF vars
  <1> QED
    BY <1>1, <1>2, <1>3, <1>4, <1>5, <1>6, <1>7, <1>8, <1>9, <1>10, <1>11, <1>12, <1>13,
       <1>14, <1>15, <1>16, <1>17, <1>18, <1>19, <1>20, <1>21, <1>22
    DEF Next, Manager, Worker

\* The types and bounds of what is measured are kept.
LEMMA MeasuredStep ==
  ASSUME TypeOK, MeasuredTypes, TraceInv, MeasureInv, [Next]_vars PROVE MeasuredTypes'
  <1> USE LatencyAssumption DEF measured
  <1>1. CASE Quiet
    BY <1>1, QuietFacts DEF MeasuredTypes
  <1>2. CASE StartFixture
    <2>1. Reset /\ UNCHANGED pending
      BY <1>2 DEF StartFixture
    <2> QED BY <2>1, ResetFacts DEF MeasuredTypes
  <1>3. CASE NextSession
    <2>1. UNCHANGED pending
      BY <1>3 DEF NextSession, trace
    <2>2. CASE Reset
      BY <2>1, <2>2, ResetFacts DEF MeasuredTypes
    <2>3. CASE UNCHANGED measured
      BY <2>1, <2>3 DEF MeasuredTypes
    <2> QED BY <1>3, <2>2, <2>3 DEF NextSession
  <1>4. CASE StartTrace
    <2>1. CASE Reset
      <3>1. UNCHANGED pending
        BY <1>4 DEF StartTrace, trace
      <3> QED BY <2>1, <3>1, ResetFacts DEF MeasuredTypes
    <2>2. CASE UNCHANGED <<pending, measured>>
      BY <2>2 DEF MeasuredTypes
    <2> QED BY <1>4, <2>1, <2>2 DEF StartTrace, trace
  <1>5. CASE RecordSample
    <2> DEFINE s == pending[1]
    <2>1. /\ s \in Samples /\ Record(s, "kernel") /\ pending' = <<>> /\ pending # <<>>
          /\ UNCHANGED totals
      BY <1>5 DEF RecordSample, TypeOK
    <2> HIDE DEF s
    <2>2. Len(seen) < MaxSamples
      BY <2>1 DEF MeasureInv
    <2>3. stats' \in [DOMAIN stats' -> [max : Nat, count : Nat]]
      BY <2>1, StatsFacts DEF Record
    <2>4. /\ seen' \in Seq(Recorded) /\ Len(seen') <= MaxSamples
          /\ warnings' \in Seq(Samples) /\ Len(warnings') <= MaxWarnings
          /\ ring' \in [slots : [0 .. Capacity - 1 -> Seq(Samples)],
                        head : 0 .. Capacity - 1, count : 0 .. Capacity]
      BY <2>1, <2>2, RecordTypes
    <2>5. pending' \in Seq(Samples) /\ Len(pending') <= 1
      BY <2>1
    <2> QED BY <2>1, <2>3, <2>4, <2>5 DEF MeasuredTypes
  <1>6. ASSUME NEW s \in Samples, CountSample(s) PROVE MeasuredTypes'
    <2>1. /\ pending = <<>> /\ pending' = <<s>> /\ totals' = Counted(s) /\ Len(seen) < MaxSamples
          /\ UNCHANGED <<stats, ring, warnings, seen>>
      BY <1>6 DEF CountSample
    <2>2. totals.dpcs + totals.isrs = Len(seen) /\ Len(seen) \in Nat
      BY <2>1 DEF MeasureInv, TypeOK
    <2>3. /\ totals' \in [dpcs : Nat, isrs : Nat, max_dpc : Nat, max_isr : Nat]
          /\ totals'.dpcs + totals'.isrs <= MaxSamples
      BY <2>1, <2>2, CountedFacts
    <2>4. pending' \in Seq(Samples) /\ Len(pending') <= 1
      BY <2>1
    <2> QED BY <2>1, <2>3, <2>4 DEF MeasuredTypes
  <1>7. ASSUME NEW s \in Samples, FixtureSample(s) PROVE MeasuredTypes'
    <2>1. /\ pending = <<>> /\ pending' = <<>> /\ totals' = Counted(s) /\ Len(seen) < MaxSamples
          /\ Record(s, "fixture")
      BY <1>7 DEF FixtureSample, TraceInv, Tracing, trace
    <2>2. totals.dpcs + totals.isrs = Len(seen) /\ Len(seen) \in Nat
      BY <2>1 DEF MeasureInv, TypeOK
    <2>3. /\ totals' \in [dpcs : Nat, isrs : Nat, max_dpc : Nat, max_isr : Nat]
          /\ totals'.dpcs + totals'.isrs <= MaxSamples
      BY <2>1, <2>2, CountedFacts
    <2>4. stats' \in [DOMAIN stats' -> [max : Nat, count : Nat]]
      BY <2>1, StatsFacts DEF Record
    <2>5. /\ seen' \in Seq(Recorded) /\ Len(seen') <= MaxSamples
          /\ warnings' \in Seq(Samples) /\ Len(warnings') <= MaxWarnings
          /\ ring' \in [slots : [0 .. Capacity - 1 -> Seq(Samples)],
                        head : 0 .. Capacity - 1, count : 0 .. Capacity]
      BY <2>1, RecordTypes
    <2>6. pending' \in Seq(Samples) /\ Len(pending') <= 1
      BY <2>1
    <2> QED BY <2>3, <2>4, <2>5, <2>6 DEF MeasuredTypes
  <1> QED
    BY <1>1, <1>2, <1>3, <1>4, <1>5, <1>6, <1>7
    DEF Next, Manager, Worker, Quiet

\* The inductive invariant holds throughout.
LEMMA LatencyInvariant == Spec => []LatencyInv
  <1>1. Init => LatencyInv
    <2> SUFFICES ASSUME Init PROVE LatencyInv
      OBVIOUS
    <2>1. MeasuredTypes
      <3>1. /\ pending = <<>> /\ warnings = <<>> /\ seen = <<>> /\ totals = Zero
            /\ stats = NoStats /\ ring = EmptyRing
        BY DEF Init
      <3>2. <<>> \in Seq(Samples) /\ <<>> \in Seq(Recorded) /\ Len(<<>>) = 0
        OBVIOUS
      <3>3. /\ ring \in [slots : [0 .. Capacity - 1 -> Seq(Samples)],
                         head : 0 .. Capacity - 1, count : 0 .. Capacity]
        BY <3>1, <3>2, LatencyAssumption DEF EmptyRing
      <3>4. /\ totals \in [dpcs : Nat, isrs : Nat, max_dpc : Nat, max_isr : Nat]
            /\ totals.dpcs + totals.isrs = 0
        BY <3>1 DEF Zero
      <3>5. stats \in [DOMAIN stats -> [max : Nat, count : Nat]]
        BY <3>1 DEF NoStats
      <3> QED BY <3>1, <3>2, <3>3, <3>4, <3>5, LatencyAssumption DEF MeasuredTypes
    <2>2. PlainTypes
      BY DEF Init, PlainTypes, Statuses
    <2>3. TypeOK
      BY <2>1, <2>2 DEF PlainTypes, MeasuredTypes, TypeOK
    <2>4. TraceInv /\ OriginInv
      BY DEF Init, TraceInv, OriginInv, OriginIsDeclared, Tracing
    <2>5. MeasureInv
      BY DEF Init, MeasureInv, Top, Higher, Zero, NoStats
    <2>6. ReportInv
      BY DEF Init, ReportInv, Reading, NoReport
    <2>7. RingInv
      BY LatencyAssumption DEF Init, RingInv, RingHoldsTheLatest, EmptyRing
    <2>8. WarningsAreLatest
      <3>1. DOMAIN warnings = {} /\ Slow = {}
        BY DEF Init, Slow
      <3>2. [i \in {} |-> i] \in [DOMAIN warnings -> Slow]
        BY <3>1
      <3> QED BY <3>1, <3>2 DEF WarningsAreLatest
    <2> QED BY <2>3, <2>4, <2>5, <2>6, <2>7, <2>8 DEF LatencyInv
  <1>2. LatencyInv /\ [Next]_vars => LatencyInv'
    <2> SUFFICES ASSUME LatencyInv, [Next]_vars PROVE LatencyInv'
      OBVIOUS
    <2>1. TypeOK'
      <3>1. PlainTypes /\ MeasuredTypes
        BY DEF LatencyInv, TypeOK, PlainTypes, MeasuredTypes
      <3>2. PlainTypes' /\ MeasuredTypes'
        BY <3>1, PlainStep, MeasuredStep DEF LatencyInv
      <3> QED BY <3>2 DEF TypeOK, PlainTypes, MeasuredTypes
    <2> QED BY <2>1, TraceStep, OriginStep, MeasureStep, RingStep, WarningsStep,
              ReportStep DEF LatencyInv
  <1> QED BY <1>1, <1>2, PTL DEF Spec

-----------------------------------------------------------------------------
(* The theorems                                                            *)

\* Every reachable state is well typed, and ring, warnings and samples keep their bounds.
THEOREM LatencyTypeCorrect == Spec => []TypeOK
  <1>1. LatencyInv => TypeOK
    BY DEF LatencyInv
  <1> QED BY <1>1, LatencyInvariant, PTL

\* A report never mixes samples of the kernel with those of the fixture.
THEOREM OriginIsTrue == Spec => []OriginIsDeclared
  <1>1. LatencyInv => OriginIsDeclared
    BY DEF LatencyInv, OriginInv
  <1> QED BY <1>1, LatencyInvariant, PTL

\* Whatever other programs do to the logger, a session leaves it running only if its
\* OpenTraceW or its ProcessTrace failed, the two failures stop_session does not learn of.
THEOREM LoggerIsStopped == Spec => []LoggerLeftOnlyAfterFailure
  <1>1. LatencyInv => LoggerLeftOnlyAfterFailure
    BY DEF LatencyInv, TraceInv, Tracing, LoggerLeftOnlyAfterFailure
  <1> QED BY <1>1, LatencyInvariant, PTL

\* The report's counts, highest times and offending drivers are those of the same samples,
\* although the callback records a sample in two steps and the report is read in three.
\* (Not so the drivers named for the highest times: see HighestDriversRanThem.)
THEOREM ReportsAreCoherent == Spec => []ReportIsCoherent
  <1>1. LatencyInv => ReportIsCoherent
    <2> SUFFICES ASSUME LatencyInv, pc = "reported" PROVE ReportIsCoherent
      BY DEF ReportIsCoherent
    <2>1. pending = <<>>
      BY DEF LatencyInv, TraceInv, Tracing
    <2>2. /\ report.offending = Offending /\ report.top = Top
          /\ report.dpcs = totals.dpcs /\ report.isrs = totals.isrs
          /\ report.max_dpc = totals.max_dpc /\ report.max_isr = totals.max_isr
      BY DEF LatencyInv, ReportInv, Reading
    <2>3. report.dpcs + report.isrs = Len(seen)
      BY <2>1, <2>2 DEF LatencyInv, MeasureInv, TypeOK
    <2>4. report.top = Higher(report.max_dpc, report.max_isr)
      BY <2>2 DEF Top
    <2>5. Top \in Nat /\ \A d \in DOMAIN stats : stats[d].max \in Nat /\ stats[d].max <= Top
      BY DEF LatencyInv, TypeOK, MeasureInv, Top, Higher
    <2>6. Top >= 500 => \E d \in DOMAIN stats : stats[d].max = Top
      BY <2>1, <2>5 DEF LatencyInv, MeasureInv
    <2>7. (report.offending # {}) = (report.top >= 500)
      BY <2>2, <2>5, <2>6 DEF Offending
    <2>8. \A name \in report.offending \ {Unknown} : Traced(name)
      BY <2>2 DEF LatencyInv, MeasureInv, Offending
    <2>9. report.top > 0 =>
            report.dpc_driver \in {d \in DOMAIN stats : stats[d].max = report.top}
      BY <2>2 DEF LatencyInv, ReportInv, Reading, Slowest
    <2> QED BY <2>3, <2>4, <2>7, <2>8, <2>9 DEF ReportIsCoherent, Traced
  <1> QED BY <1>1, LatencyInvariant, PTL

\* The monitor never loses a sample it should still have: to_vec yields the latest samples
\* in their order, and the warnings are the latest of the slow ones.
THEOREM MonitorIsUpToDate == Spec => []MonitorHoldsTheLatest
  <1>1. LatencyInv => MonitorHoldsTheLatest
    <2> SUFFICES ASSUME LatencyInv PROVE MonitorHoldsTheLatest
      OBVIOUS
    <2> DEFINE n == Len(seen)
               c == ring.count
               samples == [i \in DOMAIN seen |-> seen[i].sample]
               seqs == [i \in 1 .. c |->
                          ring.slots[((IF c < Capacity THEN 0 ELSE ring.head) + i - 1) % Capacity]]
               val == [i \in 1 .. c |-> seen[n - c + i].sample]
    <2>1. /\ seen \in Seq(Recorded) /\ n \in Nat /\ DOMAIN seen = 1 .. n /\ c \in Nat
          /\ Capacity \in Nat \ {0}
      BY LatencyAssumption DEF LatencyInv, TypeOK
    <2>2. /\ c = IF n < Capacity THEN n ELSE Capacity
          /\ \A i \in 1 .. c : seqs[i] = <<seen[n - c + i].sample>>
      BY DEF LatencyInv, RingInv, RingHoldsTheLatest
    <2>3. to_vec(ring) = FlattenSeq(seqs)
      BY DEF to_vec
    <2>4. WarningsAreLatest
      BY DEF LatencyInv
    <2>5. \A i \in 1 .. n : seen[i].sample \in Samples
      <3>1. \A i \in 1 .. n : seen[i] \in Recorded
        BY <2>1
      <3> QED BY <3>1 DEF Recorded
    <2> HIDE DEF n, c
    <2>6. val \in [1 .. c -> Samples] /\ \A i \in 1 .. c : seqs[i] = <<val[i]>>
      <3>1. \A i \in 1 .. c : n - c + i \in 1 .. n
        BY <2>1, <2>2
      <3> QED BY <2>2, <2>5, <3>1
    <2>7. seqs \in [1 .. c -> Seq(Samples)]
      <3>1. \A x \in Samples : <<x>> \in Seq(Samples)
        OBVIOUS
      <3> HIDE DEF val
      <3>2. \A i \in 1 .. c : seqs[i] \in Seq(Samples)
        BY <2>6, <3>1
      <3> QED BY <3>2
    <2> HIDE DEF seqs
    <2>8. FlattenSeq(seqs) = val
      <3> HIDE DEF val
      <3>1. Singletons(c, seqs, val)
        BY <2>6 DEF Singletons
      <3> QED BY <2>1, <2>6, <2>7, <3>1, FlattenSingletons
    <2>9. val = SubSeq(samples, Higher(1, n - Capacity + 1), n)
      <3>1. samples \in Seq(Samples) /\ Len(samples) = n
        BY <2>1, <2>5
      <3>2. Higher(1, n - Capacity + 1) = n - c + 1 /\ n - c + 1 \in 1 .. n + 1
        BY <2>1, <2>2 DEF Higher
      <3>3. \A i \in 1 .. c : val[i] = samples[n - c + 1 + i - 1] /\ n - c + 1 + i - 1 \in 1 .. n
        BY <2>1, <2>2
      <3> HIDE DEF samples
      <3>4. SubSeq(samples, n - c + 1, n) = [i \in 1 .. c |-> samples[n - c + 1 + i - 1]]
        BY <2>1, <2>2, <3>1, <3>2
      <3> QED BY <3>2, <3>3, <3>4
    <2> QED BY <2>3, <2>4, <2>8, <2>9 DEF MonitorHoldsTheLatest, n
  <1> QED BY <1>1, LatencyInvariant, PTL

=============================================================================
