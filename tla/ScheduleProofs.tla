--------------------------- MODULE ScheduleProofs ---------------------------
(***************************************************************************)
(* The safety properties of ScheduleProps hold of every instance of        *)
(* ProtocolSchedule: any nodes, documents, heights and bounds. What a node *)
(* runs and what its file holds is traced back to one published document   *)
(* by the inductive invariant IInv. What the base fee and the gas limit of *)
(* the next block do holds of all headers and all valid parameters that    *)
(* keep clear of 2^64.                                                     *)
(***************************************************************************)
EXTENDS ScheduleProps, TLAPS, WellFoundedInduction

(***************************************************************************)
(* The fee market                                                          *)
(***************************************************************************)

\* A quotient is a natural number, the largest whose product fits.
LEMMA Quotient ==
  ASSUME NEW a \in Nat, NEW b \in Nat \ {0}
  PROVE  /\ a \div b \in Nat
         /\ (a \div b) * b <= a
         /\ a < (a \div b) * b + b
OBVIOUS

\* A number below the modulus is its own remainder.
LEMMA Remainder ==
  ASSUME NEW a \in Nat, NEW m \in Nat \ {0}, a < m
  PROVE  a % m = a
OBVIOUS

LEMMA ProductPositive ==
  ASSUME NEW a \in Nat \ {0}, NEW b \in Nat \ {0}
  PROVE  a * b \in Nat \ {0}
OBVIOUS

LEMMA ProductMonotone ==
  ASSUME NEW a \in Nat, NEW b \in Nat, NEW c \in Nat, a <= b
  PROVE  /\ a * c \in Nat /\ b * c \in Nat /\ c * a \in Nat /\ c * b \in Nat
         /\ a * c <= b * c /\ c * a <= c * b
OBVIOUS

LEMMA ProductCancels ==
  ASSUME NEW a \in Nat, NEW b \in Nat, NEW c \in Nat \ {0}, a * c <= b * c
  PROVE  a <= b
OBVIOUS
-----------------------------------------------------------------------------
LEMMA Numbers ==
  ASSUME NEW h \in Header, NEW p \in ValidRates
  PROVE  /\ h.used \in Nat /\ h.limit \in Nat /\ h.fee \in Nat /\ h.desired \in Nat
         /\ p.minBaseFee \in Nat /\ p.elasticity \in Nat \ {0}
         /\ p.denominator \in Nat \ {0} /\ p.maxGasLimit \in Nat
         /\ GasTarget(h, p) \in Nat
<1>1. /\ h.used \in Nat /\ h.limit \in Nat /\ h.fee \in Nat /\ h.desired \in Nat
      /\ p.minBaseFee \in Nat /\ p.elasticity \in Nat \ {0}
      /\ p.denominator \in Nat \ {0} /\ p.maxGasLimit \in Nat
  BY DEF Header, ValidRates
<1>. QED
  BY <1>1, Quotient DEF GasTarget

\* Clear of 2^64 the update term is the quotient itself.
LEMMA ChangeIsQuotient ==
  ASSUME NEW h \in Header, NEW p \in ValidRates, NEW distance \in Nat,
         Fits(h, p), GasTarget(h, p) # 0,
         (h.fee * distance) \div (GasTarget(h, p) * p.denominator) < Word
  PROVE  /\ GasTarget(h, p) * p.denominator \in Nat \ {0}
         /\ h.fee * distance \in Nat
         /\ Change(distance, h, p) =
              (h.fee * distance) \div (GasTarget(h, p) * p.denominator)
         /\ Change(distance, h, p) \in Nat
         /\ Change(distance, h, p) % Word = Change(distance, h, p)
<1>. DEFINE scale == GasTarget(h, p) * p.denominator
            product == h.fee * distance
<1>1. scale \in Nat \ {0}
  BY Numbers, ProductPositive
<1>2. product \in Nat
  BY Numbers, ProductMonotone
<1>3. Word * Word \in Nat \ {0}
  BY FeeAssumption, ProductPositive
<1>4. scale % (Word * Word) = scale
  BY <1>1, <1>3, Remainder DEF Fits
<1>5. product \div scale \in Nat
  BY <1>1, <1>2, Quotient
<1>6. (product \div scale) % Word = product \div scale
  BY <1>5, FeeAssumption, Remainder
<1>. QED
  BY <1>1, <1>2, <1>4, <1>5, <1>6 DEF Change

\* A fall is at most the fee divided by the denominator.
LEMMA FallIsBounded ==
  ASSUME NEW h \in Header, NEW p \in ValidRates, Fits(h, p),
         h.used < GasTarget(h, p)
  PROVE  /\ Change(GasTarget(h, p) - h.used, h, p) \in Nat
         /\ Change(GasTarget(h, p) - h.used, h, p) % Word = Change(GasTarget(h, p) - h.used, h, p)
         /\ Change(GasTarget(h, p) - h.used, h, p) * p.denominator <= h.fee
<1>. DEFINE target == GasTarget(h, p)
            distance == target - h.used
            scale == target * p.denominator
            fall == (h.fee * distance) \div scale
<1>1. /\ target \in Nat \ {0} /\ distance \in Nat /\ distance <= target
      /\ h.fee \in Nat /\ p.denominator \in Nat \ {0}
  BY Numbers
<1>2. /\ scale \in Nat \ {0} /\ h.fee * distance \in Nat /\ h.fee * target \in Nat
      /\ h.fee * distance <= h.fee * target
  BY <1>1, ProductPositive, ProductMonotone
<1>3. fall \in Nat /\ fall * scale <= h.fee * distance
  BY <1>2, Quotient
<1>. HIDE DEF fall
<1>4. fall * p.denominator \in Nat
  BY <1>1, <1>3, ProductMonotone
<1>5. fall * scale = (fall * p.denominator) * target
  BY <1>1, <1>3
<1>6. (fall * p.denominator) * target <= h.fee * target
  BY <1>1, <1>2, <1>3, <1>4, <1>5
<1>7. fall * p.denominator <= h.fee
  BY <1>1, <1>4, <1>6, ProductCancels
<1>8. fall * 1 <= fall * p.denominator
  BY <1>1, <1>3, ProductMonotone
<1>9. fall < Word
  BY <1>1, <1>3, <1>4, <1>7, <1>8, FeeAssumption DEF Fits
<1>10. Change(distance, h, p) = fall /\ Change(distance, h, p) % Word = Change(distance, h, p)
  BY <1>1, <1>9, ChangeIsQuotient DEF fall
<1>. QED
  BY <1>3, <1>7, <1>10

\* The base fee keeps its floor and follows demand, by bounded steps.
THEOREM FeesFollow ==
  ASSUME NEW h \in Header, NEW p \in ValidRates, Fits(h, p)
  PROVE  FeeFollowsDemand(h, p)
<1>. DEFINE target == GasTarget(h, p)
            floor == p.minBaseFee
            next == NextBaseFee(h, p)
<1>1. /\ h.used \in Nat /\ h.fee \in Nat /\ floor \in Nat /\ target \in Nat
      /\ p.denominator \in Nat \ {0} /\ p.elasticity # 0
  BY Numbers
<1>2. CASE target = 0 \/ h.used = target
  <2>1. next = Larger(h.fee, floor)
    BY <1>1, <1>2 DEF NextBaseFee
  <2>2. next \in Nat /\ next >= h.fee /\ next >= floor
    BY <2>1, <1>1 DEF Larger
  <2>3. (h.fee - next) * p.denominator <= h.fee
    BY <1>1, <2>2
  <2>. QED
    BY <1>1, <1>2, <2>1, <2>2, <2>3 DEF FeeFollowsDemand
<1>3. CASE target # 0 /\ h.used > target
  <2>. DEFINE rise == Change(h.used - target, h, p)
  <2>1. h.used - target \in Nat
    BY <1>1, <1>3
  <2>2. h.fee * (h.used - target) \in Nat /\ target * p.denominator \in Nat \ {0}
    BY <1>1, <1>3, <2>1, ProductMonotone, ProductPositive
  <2>3. /\ (h.fee * (h.used - target)) \div (target * p.denominator) \in Nat
        /\ h.fee + 1 + (h.fee * (h.used - target)) \div (target * p.denominator) < Word
    BY <2>2, <1>3, Quotient DEF Fits
  <2>4. /\ rise = (h.fee * (h.used - target)) \div (target * p.denominator)
        /\ rise \in Nat
    BY <1>1, <1>3, <2>1, <2>3, FeeAssumption, ChangeIsQuotient
  <2>. HIDE DEF rise
  <2>5. h.fee + Larger(1, rise) \in Nat /\ h.fee + Larger(1, rise) < Word
        /\ h.fee + Larger(1, rise) > h.fee
        /\ Larger(1, rise) \in Nat /\ Larger(1, rise) < Word
    BY <1>1, <2>3, <2>4, FeeAssumption DEF Larger
  <2>6. /\ Larger(1, rise) % Word = Larger(1, rise)
        /\ (h.fee + Larger(1, rise)) % Word = h.fee + Larger(1, rise)
    BY <2>5, FeeAssumption, Remainder
  <2>7. next = Larger(h.fee + Larger(1, rise), floor)
    BY <1>1, <1>3, <2>6 DEF NextBaseFee, rise
  <2>8. next \in Nat /\ next > h.fee /\ next >= floor
    BY <1>1, <2>5, <2>7 DEF Larger
  <2>9. (h.fee - next) * p.denominator <= h.fee
    BY <1>1, <2>8
  <2>. QED
    BY <1>1, <1>3, <2>8, <2>9 DEF FeeFollowsDemand
<1>4. CASE target # 0 /\ h.used < target
  <2>. DEFINE fall == Change(target - h.used, h, p)
  <2>1. fall \in Nat /\ fall % Word = fall /\ fall * p.denominator <= h.fee
    BY <1>1, <1>4, FallIsBounded
  <2>. HIDE DEF fall
  <2>2. fall * 1 <= fall * p.denominator /\ fall * p.denominator \in Nat
    BY <1>1, <2>1, ProductMonotone
  <2>3. fall <= h.fee
    BY <1>1, <2>1, <2>2
  <2>4. next = Larger(h.fee - fall, floor)
    <3>1. next = Larger(Larger(0, h.fee - (fall % Word)), floor)
      BY <1>1, <1>4 DEF NextBaseFee, fall
    <3>2. Larger(0, h.fee - fall) = h.fee - fall
      BY <1>1, <2>1, <2>3 DEF Larger
    <3>. QED
      BY <2>1, <3>1, <3>2
  <2>5. /\ next \in Nat /\ next >= floor /\ next <= Larger(h.fee, floor)
        /\ next >= h.fee - fall
    BY <1>1, <2>1, <2>3, <2>4 DEF Larger
  <2>6. (h.fee - next) * p.denominator <= h.fee
    <3>1. h.fee - next <= fall /\ h.fee - next \in Int
      BY <1>1, <2>1, <2>5
    <3>2. (h.fee - next) * p.denominator <= fall * p.denominator
      BY <1>1, <2>1, <3>1
    <3>. QED
      BY <1>1, <2>1, <2>2, <3>1, <3>2
  <2>. QED
    BY <1>1, <1>4, <2>5, <2>6 DEF FeeFollowsDemand
<1>. QED
  BY <1>1, <1>2, <1>3, <1>4

\* The gas limit nears its goal within the band of header validation.
THEOREM LimitsFollow ==
  ASSUME NEW h \in Header, NEW p \in ValidRates, Fits(h, p)
  PROVE  LimitNearsGoal(h, p)
<1>. DEFINE goal == LimitGoal(h, p)
            band == h.limit \div Divisor
            next == NextGasLimit(h, p)
<1>1. /\ h.limit \in Nat /\ goal \in Nat /\ Divisor \in Nat \ {0} /\ Word \in Nat \ {0}
  BY Numbers, FeeAssumption DEF LimitGoal, Smaller
<1>2. band \in Nat /\ band * Divisor <= h.limit /\ h.limit < band * Divisor + Divisor
  BY <1>1, Quotient
<1>3. band <= h.limit
  <2>1. band * 1 <= band * Divisor /\ band * Divisor \in Nat
    BY <1>1, <1>2, ProductMonotone
  <2>. QED
    BY <1>1, <1>2, <2>1
<1>4. h.limit >= 2 * Divisor => band >= 2
  <2>1. SUFFICES ASSUME h.limit >= 2 * Divisor, band <= 1
                 PROVE  FALSE
    BY <1>2
  <2>2. band * Divisor <= 1 * Divisor
    BY <1>1, <1>2, <2>1, ProductMonotone
  <2>. QED
    BY <1>1, <1>2, <2>1, <2>2
<1>. HIDE DEF band
<1>5. /\ Delta(h) \in Nat /\ Delta(h) = Larger(1, band) - 1 /\ Delta(h) <= h.limit
  BY <1>1, <1>2, <1>3 DEF Delta, Larger, band
<1>6. (h.limit + Delta(h)) % Word = h.limit + Delta(h)
  <2>1. h.limit + Delta(h) \in Nat /\ h.limit + Delta(h) < Word
    BY <1>1, <1>5 DEF Fits
  <2>. QED
    BY <1>1, <2>1, Remainder
<1>7. next = Larger(h.limit - Delta(h), Smaller(h.limit + Delta(h), goal))
  BY <1>6 DEF NextGasLimit
<1>. HIDE DEF next, goal
<1>8. /\ next \in Int
      /\ h.limit <= goal => next \in h.limit .. goal
      /\ h.limit >= goal => next \in goal .. h.limit
      /\ next = h.limit \/ (next - h.limit) \in (1 - band) .. (band - 1)
      /\ (h.limit # goal /\ band >= 2) => next # h.limit
  BY <1>1, <1>2, <1>3, <1>5, <1>7 DEF Larger, Smaller
<1>. QED
  BY <1>1, <1>4, <1>8 DEF LimitNearsGoal, next, goal, band
-----------------------------------------------------------------------------
(***************************************************************************)
(* The schedule                                                            *)
(***************************************************************************)

\* The service's documents do not go back, and their gates were observed.
ServiceInv ==
  /\ \A d \in published : d.version <= current.version
  /\ \A d \in published : Observed(d)

\* What the poller of node n has in hand: a process that is down has no
\* memory; a document under way was published, and once installed it is what
\* the node runs.
PollerInv(n) ==
  /\ ~running[n] => /\ step[n] = "idle"
                    /\ schedule[n] = NoEntries
                    /\ lastVersion[n] = 0
  /\ step[n] # "idle" => document[n] \in published
  /\ step[n] \in {"installed", "writing"} =>
       /\ lastVersion[n] = document[n].version
       /\ schedule[n] = Selected(document[n])
       /\ unsaved[n]

WholeAt(n) ==
  \/ lastVersion[n] = 0 /\ schedule[n] = NoEntries
  \/ \E d \in Stored : lastVersion[n] = d.version /\ schedule[n] = Selected(d)

RestartAt(n) ==
  (/\ running[n]
   /\ step[n] \in {"idle", "fetched"}
   /\ lastVersion[n] # 0
   /\ ~unsaved[n]) =>
     /\ file[n] \notin {NoFile, Torn}
     /\ file[n].version = lastVersion[n]
     /\ Selected(file[n]) = schedule[n]

IInv ==
  /\ TypeOK
  /\ ServiceInv
  /\ \A n \in Node : PollerInv(n) /\ WholeAt(n) /\ RestartAt(n)
-----------------------------------------------------------------------------
\* Versions are natural numbers, and the sentinels of a file are none of the
\* documents it may hold.
LEMMA StoredFacts ==
  ASSUME published \subseteq Documents
  PROVE  /\ \A d \in Stored : d.version \in Nat
         /\ NoFile \notin Stored /\ Torn \notin Stored
<1>1. \A d \in Documents : d.version \in Nat
  BY ScheduleAssumption DEF AllDocuments
<1>2. DefaultFile.version = 1
  BY DEF DefaultFile
<1>. QED
  BY <1>1, <1>2, ScheduleAssumption DEF Stored

\* A selection keeps block 0 and adds no entry above the gate.
LEMMA SelectedFacts ==
  ASSUME published \subseteq Documents, NEW d \in Stored
  PROVE  /\ Selected(d) \in Schedules
         /\ d.currentBlock \in Heights \cup {NoGate}
         /\ \A b \in DOMAIN Selected(d) :
              b \in Heights /\ (b = 0 \/ d.currentBlock = NoGate \/ b <= d.currentBlock)
<1>1. d.schedule \in Schedules /\ d.currentBlock \in Heights \cup {NoGate}
  <2>1. CASE d \in Documents
    BY <2>1, ScheduleAssumption DEF AllDocuments
  <2>2. CASE d = DefaultFile
    <3>1. d.schedule = [b \in {0} |-> DefaultFileParams] /\ d.currentBlock = 0
      BY <2>2 DEF DefaultFile
    <3>2. 0 \in Heights
      BY ScheduleAssumption DEF Heights
    <3>. QED
      BY <3>1, <3>2, ScheduleAssumption DEF Schedules
  <2>. QED
    BY <2>1, <2>2 DEF Stored
<1>2. PICK blocks \in SUBSET Heights : 0 \in blocks /\ d.schedule \in [blocks -> Params]
  BY <1>1 DEF Schedules
<1>3. \A b \in Heights : b \in Nat
  BY ScheduleAssumption DEF Heights
<1>4. CASE d.currentBlock = NoGate
  <2>1. Selected(d) = [b \in blocks |-> d.schedule[b]]
    BY <1>2, <1>4 DEF Selected
  <2>. QED
    BY <1>1, <1>2, <1>4, <2>1 DEF Schedules
<1>5. CASE d.currentBlock # NoGate
  <2>. DEFINE active == {b \in blocks : b <= d.currentBlock}
  <2>1. 0 \in active
    BY <1>1, <1>2, <1>3, <1>5
  <2>2. Selected(d) = [b \in active |-> d.schedule[b]]
    BY <1>2, <1>5, <2>1 DEF Selected
  <2>3. active \in SUBSET Heights /\ [b \in active |-> d.schedule[b]] \in [active -> Params]
    BY <1>2
  <2>4. Selected(d) \in Schedules
    BY <2>1, <2>2, <2>3 DEF Schedules
  <2>. QED
    BY <1>1, <2>2, <2>3, <2>4
<1>. QED
  BY <1>4, <1>5

\* The initial states satisfy the invariant.
LEMMA InitInv == Init => IInv
<1>. SUFFICES ASSUME Init PROVE IInv
  OBVIOUS
<1>1. current.version \in Nat /\ current \in Documents
  BY StoredFacts, ScheduleAssumption DEF Init, AllDocuments
<1>2. TypeOK
  BY <1>1, ScheduleAssumption DEF Init, TypeOK, Heights, Stored
<1>3. ServiceInv
  BY <1>1 DEF Init, ServiceInv
<1>4. \A n \in Node : PollerInv(n) /\ WholeAt(n) /\ RestartAt(n)
  BY DEF Init, PollerInv, WholeAt, RestartAt
<1>. QED
  BY <1>2, <1>3, <1>4 DEF IInv

\* A new document of the service: what the nodes hold stays published.
LEMMA PublishInv ==
  ASSUME IInv, NEW d \in Documents, Publish(d)
  PROVE  IInv'
<1>1. published \subseteq published' /\ published' = published \cup {d} /\ current' = d
  BY DEF Publish
<1>2. d.version \in Nat /\ current.version \in Nat /\ \A e \in published : e.version \in Nat
  BY StoredFacts, ScheduleAssumption DEF IInv, TypeOK, Stored, AllDocuments
<1>3. TypeOK'
  BY <1>1, ScheduleAssumption DEF IInv, TypeOK, Stored, Publish, nodeVars
<1>4. ServiceInv'
  <2>1. \A e \in published' : e.version <= current'.version
    BY <1>1, <1>2 DEF IInv, ServiceInv, Publish
  <2>2. \A e \in published' : Observed(e)'
    BY <1>1 DEF IInv, ServiceInv, Publish, Observed
  <2>. QED
    BY <2>1, <2>2 DEF ServiceInv
<1>5. ASSUME NEW n \in Node
      PROVE  PollerInv(n)' /\ WholeAt(n)' /\ RestartAt(n)'
  <2>1. PollerInv(n) /\ WholeAt(n) /\ RestartAt(n)
    BY DEF IInv
  <2>2. Stored \subseteq Stored'
    BY <1>1 DEF Stored
  <2>3. PollerInv(n)'
    BY <2>1, <1>1 DEF PollerInv, Publish, nodeVars
  <2>4. WholeAt(n)'
    BY <2>1, <2>2 DEF WholeAt, Publish, nodeVars
  <2>5. RestartAt(n)'
    BY <2>1 DEF RestartAt, Publish, nodeVars
  <2>. QED
    BY <2>3, <2>4, <2>5
<1>. QED
  BY <1>3, <1>4, <1>5 DEF IInv

\* Steps of the chain.
LEMMA AdvanceInv ==
  ASSUME IInv, NEW n \in Node, Advance(n)
  PROVE  IInv'
<1>. USE DEF Advance, serviceVars, nodeVars
<1>1. \A m \in Node : height[m] \in Nat /\ height'[m] \in Nat /\ height[m] <= height'[m]
  BY ScheduleAssumption DEF IInv, TypeOK, Heights
<1>2. TypeOK'
  BY ScheduleAssumption DEF IInv, TypeOK, Heights, Stored
<1>3. ServiceInv'
  <2>1. ASSUME NEW d \in published, Observed(d)
        PROVE  Observed(d)'
    <3>1. d.currentBlock # NoGate => d.currentBlock \in Nat
      BY ScheduleAssumption DEF IInv, TypeOK, AllDocuments, Heights
    <3>. QED
      BY <2>1, <3>1, <1>1 DEF Observed
  <2>. QED
    BY <2>1 DEF IInv, ServiceInv
<1>4. \A m \in Node : PollerInv(m)' /\ WholeAt(m)' /\ RestartAt(m)'
  BY DEF IInv, PollerInv, WholeAt, RestartAt, Stored
<1>. QED
  BY <1>2, <1>3, <1>4 DEF IInv

\* The steps that touch one node and neither the service nor the chain: it is
\* enough to look at that node.
LEMMA NodeStep ==
  ASSUME IInv, NEW n \in Node,
         UNCHANGED <<serviceVars, height>>,
         TypeOK',
         PollerInv(n)', WholeAt(n)', RestartAt(n)',
         \A m \in Node \ {n} :
           /\ running'[m] = running[m] /\ schedule'[m] = schedule[m]
           /\ lastVersion'[m] = lastVersion[m] /\ file'[m] = file[m]
           /\ step'[m] = step[m] /\ document'[m] = document[m]
           /\ unsaved'[m] = unsaved[m]
  PROVE  IInv'
<1>1. ServiceInv'
  BY DEF IInv, ServiceInv, Observed, serviceVars
<1>2. ASSUME NEW m \in Node \ {n}
      PROVE  PollerInv(m)' /\ WholeAt(m)' /\ RestartAt(m)'
  BY <1>2 DEF IInv, PollerInv, WholeAt, RestartAt, Stored, serviceVars
<1>. QED
  BY <1>1, <1>2 DEF IInv
-----------------------------------------------------------------------------
\* A process that starts takes its schedule from its file, or has none.
LEMMA StartInv ==
  ASSUME IInv, NEW n \in Node, Start(n)
  PROVE  IInv'
<1>. USE DEF nodeVars, serviceVars
<1>1. /\ TypeOK /\ PollerInv(n) /\ WholeAt(n) /\ RestartAt(n)
      /\ ~running[n] /\ step[n] = "idle" /\ lastVersion[n] = 0 /\ schedule[n] = NoEntries
  BY DEF IInv, PollerInv, Start, StartTorn, StartPersisted, StartFresh
<1>2. CASE StartTorn(n)
  <2>1. TypeOK'
    BY <1>1, <1>2 DEF TypeOK, StartTorn, Stored
  <2>2. PollerInv(n)' /\ WholeAt(n)' /\ RestartAt(n)'
    BY <1>1, <1>2 DEF TypeOK, StartTorn, PollerInv, WholeAt, RestartAt
  <2>3. running' = [running EXCEPT ![n] = TRUE]
    BY <1>2 DEF StartTorn
  <2>. QED
    BY <1>1, <2>1, <2>2, <2>3, <1>2, NodeStep DEF StartTorn, TypeOK
<1>3. CASE StartPersisted(n)
  <2>1. file[n] \in Stored /\ file[n].version \in Nat /\ Selected(file[n]) \in Schedules
    BY <1>1, <1>3, StoredFacts, SelectedFacts DEF TypeOK, StartPersisted
  <2>2. TypeOK'
    BY <1>1, <1>3, <2>1 DEF TypeOK, StartPersisted, Install, Stored
  <2>3. /\ schedule'[n] = Selected(file[n]) /\ lastVersion'[n] = file[n].version
        /\ file' = file /\ step' = step /\ Stored' = Stored /\ running'[n]
    BY <1>1, <1>3 DEF TypeOK, StartPersisted, Install, Stored, IInv
  <2>4. schedule'[n] = Selected(file'[n])
    BY <2>3
  <2>5. PollerInv(n)' /\ WholeAt(n)'
    BY <1>1, <2>1, <2>3 DEF PollerInv, WholeAt
  <2>6. RestartAt(n)'
    BY <1>3, <2>3 DEF RestartAt, StartPersisted
  <2>7. \A m \in Node \ {n} : schedule'[m] = schedule[m] /\ lastVersion'[m] = lastVersion[m]
                               /\ running'[m] = running[m]
    BY <1>3, <1>1 DEF StartPersisted, Install, TypeOK
  <2>. QED
    BY <2>2, <2>5, <2>6, <2>7, <1>3, NodeStep DEF StartPersisted
<1>4. CASE StartFresh(n)
  <2>1. TypeOK'
    BY <1>1, <1>4 DEF TypeOK, StartFresh, Stored
  <2>2. PollerInv(n)' /\ WholeAt(n)' /\ RestartAt(n)'
    BY <1>1, <1>4 DEF TypeOK, StartFresh, PollerInv, WholeAt, RestartAt
  <2>. QED
    BY <1>1, <2>1, <2>2, <1>4, NodeStep DEF StartFresh, TypeOK
<1>. QED
  BY <1>2, <1>3, <1>4 DEF Start

\* A poll takes a document that was published into its hands, or turns down
\* the one it holds; neither touches what the node runs.
LEMMA PollInv ==
  ASSUME IInv, NEW n \in Node, NEW d \in published, Answered(n, d) \/ Reject(n)
  PROVE  IInv'
<1>. USE DEF serviceVars
<1>1. TypeOK /\ PollerInv(n) /\ WholeAt(n) /\ RestartAt(n)
  BY DEF IInv
<1>2. CASE Answered(n, d)
  <2>1. TypeOK'
    BY <1>1, <1>2 DEF TypeOK, Answered, Stored
  <2>2. PollerInv(n)' /\ WholeAt(n)' /\ RestartAt(n)'
    BY <1>1, <1>2 DEF TypeOK, Answered, PollerInv, WholeAt, RestartAt, Stored
  <2>. QED
    BY <1>1, <1>2, <2>1, <2>2, NodeStep DEF Answered, TypeOK
<1>3. CASE Reject(n)
  <2>1. TypeOK'
    BY <1>1, <1>3 DEF TypeOK, Reject, Done, Stored
  <2>2. PollerInv(n)' /\ WholeAt(n)' /\ RestartAt(n)'
    BY <1>1, <1>3 DEF TypeOK, Reject, Done, PollerInv, WholeAt, RestartAt, Stored
  <2>. QED
    BY <1>1, <1>3, <2>1, <2>2, NodeStep DEF Reject, Done, TypeOK
<1>. QED
  BY <1>2, <1>3

\* An accepted document is installed whole.
LEMMA AcceptInv ==
  ASSUME IInv, NEW n \in Node, Accept(n)
  PROVE  IInv'
<1>. USE DEF serviceVars
<1>1. TypeOK /\ PollerInv(n) /\ WholeAt(n) /\ RestartAt(n)
  BY DEF IInv
<1>2. /\ document[n] \in published /\ document[n] \in Stored
      /\ document[n].version \in Nat /\ Selected(document[n]) \in Schedules
  BY <1>1, StoredFacts, SelectedFacts DEF PollerInv, Accept, TypeOK, Stored
<1>3. TypeOK'
  BY <1>1, <1>2 DEF TypeOK, Accept, Install, Stored
<1>4. /\ schedule'[n] = Selected(document[n]) /\ lastVersion'[n] = document[n].version
      /\ document' = document /\ step'[n] = "installed" /\ unsaved'[n] /\ running'[n]
      /\ Stored' = Stored /\ published' = published
  BY <1>1 DEF TypeOK, Accept, Install, Stored
<1>5. schedule'[n] = Selected(document'[n])
  BY <1>4
<1>6. PollerInv(n)' /\ WholeAt(n)' /\ RestartAt(n)'
  BY <1>2, <1>4, <1>5 DEF PollerInv, WholeAt, RestartAt
<1>. QED
  BY <1>1, <1>3, <1>6, NodeStep DEF Accept, Install, TypeOK

\* The file is cut, filled, or left as a failed write leaves it.
LEMMA SaveInv ==
  ASSUME IInv, NEW n \in Node, Truncate(n) \/ Write(n) \/ WriteFails(n)
  PROVE  IInv'
<1>. USE DEF serviceVars
<1>1. /\ TypeOK /\ PollerInv(n) /\ WholeAt(n) /\ RestartAt(n)
      /\ document[n] \in published
  BY DEF IInv, PollerInv, Truncate, Write, WriteFails
<1>2. document[n] \in Stored /\ document[n] \notin {NoFile, Torn}
  BY <1>1, StoredFacts DEF TypeOK, Stored
<1>3. CASE Truncate(n)
  <2>1. TypeOK'
    BY <1>1, <1>3 DEF TypeOK, Truncate, Stored
  <2>2. PollerInv(n)' /\ WholeAt(n)' /\ RestartAt(n)'
    BY <1>1, <1>3 DEF TypeOK, Truncate, PollerInv, WholeAt, RestartAt, Stored
  <2>. QED
    BY <1>1, <1>3, <2>1, <2>2, NodeStep DEF Truncate, TypeOK
<1>4. CASE Write(n)
  <2>1. TypeOK'
    BY <1>1, <1>2, <1>4 DEF TypeOK, Write, Done, Stored
  <2>2. /\ file'[n] = document[n] /\ step'[n] = "idle" /\ ~unsaved'[n]
        /\ running'[n] /\ Stored' = Stored
        /\ schedule' = schedule /\ lastVersion' = lastVersion
    BY <1>1, <1>4 DEF TypeOK, Write, Done, Stored
  <2>3. Selected(file'[n]) = schedule'[n] /\ file'[n].version = lastVersion'[n]
    BY <1>1, <1>4, <2>2 DEF PollerInv, Write
  <2>4. PollerInv(n)' /\ WholeAt(n)' /\ RestartAt(n)'
    BY <1>1, <1>2, <2>2, <2>3 DEF PollerInv, WholeAt, RestartAt
  <2>. QED
    BY <1>1, <1>4, <2>1, <2>4, NodeStep DEF Write, Done, TypeOK
<1>5. CASE WriteFails(n)
  <2>1. TypeOK'
    BY <1>1, <1>5 DEF TypeOK, WriteFails, Done, Stored
  <2>2. PollerInv(n)' /\ WholeAt(n)' /\ RestartAt(n)'
    BY <1>1, <1>5 DEF TypeOK, WriteFails, Done, PollerInv, WholeAt, RestartAt, Stored
  <2>. QED
    BY <1>1, <1>5, <2>1, <2>2, NodeStep DEF WriteFails, Done, TypeOK
<1>. QED
  BY <1>3, <1>4, <1>5

\* The end of a process loses what it held in memory.
LEMMA CrashInv ==
  ASSUME IInv, NEW n \in Node, Crash(n)
  PROVE  IInv'
<1>. USE DEF serviceVars
<1>1. TypeOK /\ PollerInv(n) /\ WholeAt(n) /\ RestartAt(n)
  BY DEF IInv
<1>2. crashes' \in 0 .. MaxCrashes
  BY <1>1, ScheduleAssumption DEF TypeOK, Crash
<1>3. TypeOK'
  BY <1>1, <1>2 DEF TypeOK, Crash, Done, Stored
<1>4. PollerInv(n)' /\ WholeAt(n)' /\ RestartAt(n)'
  BY <1>1 DEF TypeOK, Crash, Done, PollerInv, WholeAt, RestartAt, Stored
<1>. QED
  BY <1>1, <1>3, <1>4, NodeStep DEF Crash, Done, TypeOK
-----------------------------------------------------------------------------
\* The invariant holds in every reachable state.
THEOREM Invariance == Spec => []IInv
<1>1. IInv /\ [Next]_vars => IInv'
  <2>. SUFFICES ASSUME IInv, [Next]_vars PROVE IInv'
    OBVIOUS
  <2>1. CASE UNCHANGED vars
    BY <2>1 DEF IInv, TypeOK, ServiceInv, Observed, PollerInv, WholeAt, RestartAt,
               Stored, vars, serviceVars, nodeVars
  <2>2. ASSUME NEW d \in Documents, Publish(d) PROVE IInv'
    BY <2>2, PublishInv
  <2>3. ASSUME NEW n \in Node,
               \/ Advance(n) \/ Start(n) \/ Crash(n)
               \/ Fetch(n) \/ FetchStale(n) \/ Reject(n) \/ Accept(n)
               \/ Truncate(n) \/ Write(n) \/ WriteFails(n)
        PROVE  IInv'
    <3>1. current \in published
      BY DEF IInv, TypeOK
    <3>2. CASE Fetch(n) \/ FetchStale(n) \/ Reject(n)
      BY <3>1, <3>2, PollInv DEF Fetch, FetchStale
    <3>. QED
      BY <2>3, <3>2, AdvanceInv, StartInv, CrashInv, AcceptInv, SaveInv
  <2>. QED
    BY <2>1, <2>2, <2>3 DEF Next
<1>. QED
  BY <1>1, InitInv, PTL DEF Spec

\* The types hold: in particular the entries a node runs always include one
\* for block 0 or are the compiled defaults.
THEOREM TypeCorrect == Spec => []TypeOK
<1>1. IInv => TypeOK
  BY DEF IInv
<1>. QED
  BY <1>1, Invariance, PTL

\* What a node runs is one whole document.
THEOREM SchedulesStayWhole == Spec => []SchedulesAreWhole
<1>1. IInv => SchedulesAreWhole
  BY DEF IInv, WholeAt, SchedulesAreWhole
<1>. QED
  BY <1>1, Invariance, PTL

\* A node that sleeps between polls restarts into the schedule it runs.
THEOREM RestartsKeepTheSchedule == Spec => []RestartKeepsSchedule
<1>1. IInv => RestartKeepsSchedule
  BY DEF IInv, RestartAt, RestartKeepsSchedule
<1>. QED
  BY <1>1, Invariance, PTL

\* Every node can take up what the service publishes next.
THEOREM NodesFollowTheService == Spec => []NeverAheadOfService
<1>1. ASSUME IInv, \A d \in Documents : d.version >= 1, NEW n \in Node
      PROVE  /\ lastVersion[n] <= current.version
             /\ file[n] \notin {NoFile, Torn} => file[n].version <= current.version
  <2>1. current.version \in Nat /\ current.version >= 1
    BY <1>1, StoredFacts DEF IInv, TypeOK, Stored
  <2>2. \A d \in Stored : d.version <= current.version
    BY <1>1, <2>1 DEF IInv, ServiceInv, Stored, DefaultFile
  <2>. QED
    BY <1>1, <2>1, <2>2 DEF IInv, TypeOK, WholeAt
<1>2. IInv => NeverAheadOfService
  BY <1>1 DEF NeverAheadOfService
<1>. QED
  BY <1>2, Invariance, PTL

\* Gated entries wait for the chain.
THEOREM GatesHold == Spec => []NoEarlyActivation
<1>1. ASSUME IInv, \A d \in Documents : d.currentBlock # NoGate,
             NEW n \in Node, NEW b \in DOMAIN schedule[n]
      PROVE  \E m \in Node : b <= height[m]
  <2>1. PICK d \in Stored : schedule[n] = Selected(d)
    BY <1>1 DEF IInv, WholeAt, NoEntries
  <2>2. /\ d.currentBlock \in Heights
        /\ b \in Heights
        /\ b = 0 \/ b <= d.currentBlock
    BY <1>1, <2>1, SelectedFacts, ScheduleAssumption
       DEF IInv, TypeOK, Stored, DefaultFile, Heights
  <2>3. \A m \in Node : height[m] \in Nat
    BY <1>1, ScheduleAssumption DEF IInv, TypeOK, Heights
  <2>4. \E m \in Node : d.currentBlock <= height[m]
    <3>1. CASE d \in published
      BY <1>1, <3>1 DEF IInv, TypeOK, ServiceInv, Observed
    <3>2. CASE d = DefaultFile
      BY <2>3, <3>2 DEF DefaultFile
    <3>. QED
      BY <3>1, <3>2 DEF Stored
  <2>. QED
    BY <2>2, <2>3, <2>4, ScheduleAssumption DEF Heights
<1>2. IInv => NoEarlyActivation
  BY <1>1 DEF NoEarlyActivation
<1>. QED
  BY <1>2, Invariance, PTL

\* A process never goes back to an older document.
THEOREM ProcessesNeverRollBack == Spec => NoRollback
<1>1. IInv /\ [Next]_vars =>
        [\A n \in Node :
           (running[n] /\ running'[n]) => lastVersion'[n] >= lastVersion[n]]_vars
  <2>. SUFFICES ASSUME IInv, Next, NEW n \in Node, running[n], running'[n]
       PROVE  lastVersion'[n] >= lastVersion[n]
    BY DEF vars
  <2>1. lastVersion[n] \in Nat /\ lastVersion \in [Node -> Nat]
    BY DEF IInv, TypeOK
  <2>2. CASE \E d \in Documents : Publish(d)
    BY <2>1, <2>2 DEF Publish, nodeVars
  <2>3. ASSUME NEW m \in Node, Accept(m) PROVE lastVersion'[n] >= lastVersion[n]
    <3>1. document[m].version \in Nat
      BY <2>3, StoredFacts DEF IInv, TypeOK, PollerInv, Accept, Stored
    <3>2. document[m].version >= lastVersion[m]
      BY <2>1, <2>3, <3>1 DEF Accept, Rejected, IInv, TypeOK
    <3>. QED
      BY <2>1, <2>3, <3>2 DEF Accept, Install
  <2>4. ASSUME NEW m \in Node, StartPersisted(m) PROVE lastVersion'[n] >= lastVersion[n]
    BY <2>1, <2>4 DEF StartPersisted, Install
  <2>5. ASSUME NEW m \in Node, Crash(m) PROVE lastVersion'[n] >= lastVersion[n]
    BY <2>1, <2>5 DEF Crash, IInv, TypeOK
  <2>6. ASSUME NEW m \in Node,
               \/ Advance(m) \/ StartTorn(m) \/ StartFresh(m)
               \/ Fetch(m) \/ FetchStale(m) \/ Reject(m)
               \/ Truncate(m) \/ Write(m) \/ WriteFails(m)
        PROVE  lastVersion'[n] >= lastVersion[n]
    BY <2>1, <2>6 DEF Advance, StartTorn, StartFresh, Fetch, FetchStale, Answered,
                     Reject, Truncate, Write, WriteFails, nodeVars
  <2>. QED
    BY <2>2, <2>3, <2>4, <2>5, <2>6 DEF Next, Start
<1>. QED
  BY <1>1, Invariance, PTL DEF Spec, NoRollback

\* A non-empty set of heights has a last member.
LEMMA LastExists ==
  ASSUME NEW blocks \in SUBSET Heights, blocks # {}
  PROVE  /\ Last(blocks) \in blocks
         /\ \A b \in blocks : b <= Last(blocks)
<1>. DEFINE below == {MaxHeight - b : b \in blocks}
<1>1. MaxHeight \in Nat /\ \A b \in blocks : b \in Nat /\ b <= MaxHeight
  BY ScheduleAssumption DEF Heights
<1>2. below \subseteq Nat /\ below # {}
  BY <1>1
<1>3. PICK x \in below : \A y \in below : ~(<<y, x>> \in OpToRel(<, Nat))
  BY <1>2, NatLessThanWellFounded, WFMin
<1>4. \A y \in below : ~(y < x)
  BY <1>2, <1>3 DEF OpToRel
<1>5. PICK b \in blocks : x = MaxHeight - b
  OBVIOUS
<1>6. \A c \in blocks : c <= b
  BY <1>1, <1>4, <1>5
<1>. QED
  BY <1>6 DEF Last

\* Up to the gate, a selection and its document give the same parameters.
LEMMA GateIsTransparent ==
  ASSUME published \subseteq Documents, NEW d \in Stored, NEW b \in Heights,
         d.currentBlock = NoGate \/ b <= d.currentBlock
  PROVE  ParamsForBlock(Selected(d), b) = ParamsForBlock(d.schedule, b)
<1>. DEFINE some == {c \in DOMAIN d.schedule : c <= b}
<1>1. /\ DOMAIN d.schedule \in SUBSET Heights /\ 0 \in DOMAIN d.schedule
      /\ d.currentBlock \in Heights \cup {NoGate}
  BY SelectedFacts, ScheduleAssumption
     DEF Stored, DefaultFile, AllDocuments, Schedules, Heights
<1>2. b \in Nat /\ \A c \in DOMAIN d.schedule : c \in Nat
  BY <1>1, ScheduleAssumption DEF Heights
<1>3. 0 \in some /\ some \in SUBSET Heights
  BY <1>1, <1>2
<1>4. Last(some) \in some
  BY <1>3, LastExists
<1>5. {c \in DOMAIN Selected(d) : c <= b} = some
  <2>1. CASE d.currentBlock = NoGate
    BY <2>1, <1>1 DEF Selected
  <2>2. CASE d.currentBlock # NoGate
    <3>. DEFINE let == {c \in DOMAIN d.schedule : c <= d.currentBlock}
    <3>1. d.currentBlock \in Nat /\ b <= d.currentBlock
      BY <2>2, <1>1, ScheduleAssumption DEF Heights
    <3>2. 0 \in let
      BY <3>1, <1>1
    <3>3. Selected(d) = [c \in let |-> d.schedule[c]]
      BY <2>2, <3>2 DEF Selected
    <3>. QED
      BY <3>1, <3>3, <1>2
  <2>. QED
    BY <2>1, <2>2
<1>6. \A c \in DOMAIN Selected(d) : Selected(d)[c] = d.schedule[c]
  BY <1>1 DEF Selected
<1>7. Last(some) \in DOMAIN Selected(d)
  BY <1>4, <1>5
<1>. QED
  BY <1>3, <1>4, <1>5, <1>6, <1>7 DEF ParamsForBlock

\* The gate hides the future only.
THEOREM GatesKeepThePast == Spec => []GateKeepsThePast
<1>1. ASSUME IInv, NEW n \in Node, lastVersion[n] # 0
      PROVE  \E d \in Stored :
               /\ d.version = lastVersion[n]
               /\ \A b \in Heights : (d.currentBlock = NoGate \/ b <= d.currentBlock) =>
                    ParamsForBlock(schedule[n], b) = ParamsForBlock(d.schedule, b)
  <2>1. PICK d \in Stored : lastVersion[n] = d.version /\ schedule[n] = Selected(d)
    BY <1>1 DEF IInv, WholeAt
  <2>. QED
    BY <1>1, <2>1, GateIsTransparent DEF IInv, TypeOK
<1>2. IInv => GateKeepsThePast
  BY <1>1 DEF GateKeepsThePast
<1>. QED
  BY <1>2, Invariance, PTL

\* Whatever is installed, the fees of the next block are computed from
\* parameters that were validated.
LEMMA LatestIsAParameter ==
  ASSUME NEW entries \in Schedules \cup {NoEntries}
  PROVE  ParamsLatest(entries) \in Params
<1>1. CASE DOMAIN entries = {}
  BY <1>1, ScheduleAssumption DEF ParamsLatest
<1>2. CASE DOMAIN entries # {}
  <2>1. entries \in Schedules
    BY <1>2 DEF NoEntries
  <2>2. DOMAIN entries \in SUBSET Heights /\ 0 \in DOMAIN entries
        /\ entries \in [DOMAIN entries -> Params]
    BY <2>1 DEF Schedules
  <2>3. Last(DOMAIN entries) \in DOMAIN entries
    BY <2>2, LastExists
  <2>. QED
    BY <1>2, <2>2, <2>3 DEF ParamsLatest
<1>. QED
  BY <1>1, <1>2

\* Base fee and gas limit follow the schedule that the node has installed.
THEOREM FeesFollowTheSchedule == Spec => FeesFollowDemand
<1>1. ASSUME IInv, NEW n \in Node, NEW h \in Headers,
             Fits(h, Rates[ParamsLatest(schedule[n])])
      PROVE  FeeFollowsDemand(h, Rates[ParamsLatest(schedule[n])])
             /\ LimitNearsGoal(h, Rates[ParamsLatest(schedule[n])])
  <2>1. schedule[n] \in Schedules \cup {NoEntries}
    BY <1>1 DEF IInv, TypeOK
  <2>2. Rates[ParamsLatest(schedule[n])] \in ValidRates /\ h \in Header
    BY <2>1, LatestIsAParameter, RatesAssumption
  <2>. QED
    BY <1>1, <2>2, FeesFollow, LimitsFollow
<1>2. ASSUME IInv
      PROVE  \A n \in Node : height'[n] # height[n] =>
               LET rates == Rates[ParamsLatest(schedule[n])]
               IN \A h \in Headers : Fits(h, rates) =>
                    FeeFollowsDemand(h, rates) /\ LimitNearsGoal(h, rates)
  BY <1>1, <1>2
<1>. QED
  BY <1>2, Invariance, PTL DEF FeesFollowDemand
=============================================================================
