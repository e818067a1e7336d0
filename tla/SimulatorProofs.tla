--------------------------- MODULE SimulatorProofs ---------------------------
(***************************************************************************)
(* The load generator's batches stay apart, and its pool stays what the    *)
(* chain is, for any number of signers and batches of any size.            *)
(*                                                                         *)
(* ReservationsExclusive is not inductive: that two batches are apart      *)
(* follows from where an entity may be. PoolInv says that it is in one     *)
(* place at a time, that what a batch names is marked or reserved as long  *)
(* as the batch is in flight, and that the keys of receipts under way are  *)
(* new to the pool.                                                        *)
(*                                                                         *)
(* Nor is PoolMirrorsChain: between the run of a batch and its receipt the *)
(* pool is behind the chain. MirrorInv says that what the receipt will do  *)
(* to the pool gives what the chain has, for each batch that has run, and  *)
(* that no other batch touches the same entities.                          *)
(*                                                                         *)
(* OnlyDroppedPlansForget needs besides that the reservations which no     *)
(* batch in flight names are those of the plans given up: Accounted.       *)
(*                                                                         *)
(* CapInv adds to OvershootBounded what a single batch may create.         *)
(***************************************************************************)
EXTENDS SimulatorProps, FoldProofs, SequenceTheorems

EntityOps == {"UPDATE", "EXTEND", "TRANSFER", "DELETE"}

PoolTypeOK ==
  /\ alive \in [Keys -> Entries \cup {NoEntry}]
  /\ expired \in Seq(Keys)
  /\ reserved \subseteq Keys
  /\ \A s \in Signers : plan[s] = NoPlan \/ plan[s] \in Plans
  /\ plan = [s \in Signers |-> plan[s]]
  /\ ledger \in [Keys -> ChainEntries \cup {NoEntry}]
  /\ minted \in Nat /\ height \in Nat \ {0}

\* What a batch in flight names is kept away from the other batches.
Held(s) ==
  \A i \in DOMAIN plan[s].ops :
    LET op == plan[s].ops[i]
    IN /\ op.kind = "CREATE" => op.key = NoKey
       /\ op.kind = "EXPIRE" => op.key \in reserved
       /\ op.kind \in EntityOps =>
            op.key \in Keys /\ alive[op.key] # NoEntry /\ alive[op.key].pending
       /\ op.kind = "TRANSFER" => op.newOwner \in Signers

\* No two operations of a batch are EXPIREs of one entity.
ExpiresOnce(ops) ==
  \A i, j \in DOMAIN ops :
    ops[i].kind = "EXPIRE" /\ ops[j].kind = "EXPIRE" /\ ops[i].key = ops[j].key => i = j

Once(queue) == \A i, j \in DOMAIN queue : queue[i] = queue[j] => i = j

PlacesApart ==
  /\ \A k \in Keys : alive[k] # NoEntry => k \notin reserved /\ k \notin ToSet(expired)
  /\ ToSet(expired) \cap reserved = {}
  /\ Once(expired)

InPool(k) == alive[k] # NoEntry \/ k \in reserved \/ k \in ToSet(expired)

\* The keys that receipts will bring are new to the pool and to each other.
KeysFresh ==
  /\ \A k \in Keys : InPool(k) =>
       k <= minted /\ \A s \in InFlight : k \notin ToSet(plan[s].keys)
  /\ \A s \in InFlight : \A k \in ToSet(plan[s].keys) : k <= minted
  /\ \A s, t \in InFlight : s # t => ToSet(plan[s].keys) \cap ToSet(plan[t].keys) = {}

PoolInv ==
  /\ PoolTypeOK
  /\ \A s \in InFlight : Held(s) /\ ExpiresOnce(plan[s].ops)
  /\ PlacesApart
  /\ KeysFresh
  /\ ReservationsExclusive

(***************************************************************************)
(* Queues                                                                  *)
(***************************************************************************)

\* One queue behind another.
LEMMA QueuesJoin ==
  ASSUME NEW S, NEW a \in Seq(S), NEW b \in Seq(S), Once(a), Once(b),
         ToSet(a) \cap ToSet(b) = {}
  PROVE  /\ a \o b \in Seq(S) /\ Once(a \o b)
         /\ ToSet(a \o b) = ToSet(a) \cup ToSet(b)
<1> DEFINE c == a \o b
<1>1. /\ c \in Seq(S) /\ Len(c) = Len(a) + Len(b) /\ DOMAIN c = 1 .. Len(c)
      /\ \A i \in 1 .. Len(c) : c[i] = IF i <= Len(a) THEN a[i] ELSE b[i - Len(a)]
  BY ConcatProperties
<1>2. /\ Len(a) \in Nat /\ DOMAIN a = 1 .. Len(a)
      /\ Len(b) \in Nat /\ DOMAIN b = 1 .. Len(b)
  OBVIOUS
<1> HIDE DEF c
<1>3. \A i \in DOMAIN c : IF i <= Len(a) THEN i \in DOMAIN a /\ c[i] = a[i]
                          ELSE i - Len(a) \in DOMAIN b /\ c[i] = b[i - Len(a)]
  BY <1>1, <1>2
<1>4. /\ \A i \in DOMAIN a : i \in DOMAIN c /\ c[i] = a[i]
      /\ \A i \in DOMAIN b : Len(a) + i \in DOMAIN c /\ c[Len(a) + i] = b[i]
  <2>1. \A i \in DOMAIN b : Len(a) + i \in 1 .. Len(c) /\ ~(Len(a) + i <= Len(a))
                            /\ Len(a) + i - Len(a) = i
    BY <1>1, <1>2
  <2>2. \A i \in DOMAIN a : i \in 1 .. Len(c) /\ i <= Len(a)
    BY <1>1, <1>2
  <2> QED
    BY <1>1, <2>1, <2>2
<1>5. ToSet(c) = ToSet(a) \cup ToSet(b)
  BY <1>3, <1>4 DEF ToSet
<1>6. \A i \in DOMAIN a, j \in DOMAIN b : a[i] # b[j]
  BY DEF ToSet
<1>7. ASSUME NEW i \in DOMAIN c, NEW j \in DOMAIN c, c[i] = c[j]
      PROVE  i = j
  <2>1. CASE i <= Len(a) /\ j <= Len(a)
    BY <1>3, <1>7, <2>1 DEF Once
  <2>2. CASE ~(i <= Len(a)) /\ ~(j <= Len(a))
    <3>1. i - Len(a) = j - Len(a)
      BY <1>3, <1>7, <2>2 DEF Once
    <3> QED
      BY <1>1, <1>2, <3>1
  <2>3. CASE (i <= Len(a)) # (j <= Len(a))
    BY <1>3, <1>6, <1>7, <2>3
  <2> QED
    BY <2>1, <2>2, <2>3
<1> QED
  BY <1>1, <1>5, <1>7 DEF c, Once

\* Taking from the end of a queue.
LEMMA QueueSplits ==
  ASSUME NEW S, NEW q \in Seq(S), Once(q), NEW n \in 0 .. Len(q)
  PROVE  LET kept == SubSeq(q, 1, Len(q) - n)
             taken == Reverse(SubSeq(q, Len(q) - n + 1, Len(q)))
         IN /\ kept \in Seq(S) /\ Once(kept) /\ ToSet(kept) \subseteq ToSet(q)
            /\ taken \in Seq(S) /\ Len(taken) = n /\ Once(taken)
            /\ ToSet(taken) \subseteq ToSet(q)
            /\ ToSet(kept) \cap ToSet(taken) = {}
            /\ ToSet(q) = ToSet(kept) \cup ToSet(taken)
<1> DEFINE rest == SubSeq(q, Len(q) - n + 1, Len(q))
           kept == SubSeq(q, 1, Len(q) - n)
           taken == Reverse(rest)
           m == Len(q) - n
<1>1. Len(q) \in Nat /\ n \in Nat /\ m \in Nat /\ m + n = Len(q) /\ DOMAIN q = 1 .. Len(q)
  OBVIOUS
<1>2. /\ kept \in Seq(S) /\ Len(kept) = m
      /\ \A i \in 1 .. m : kept[i] = q[i]
  <2>1. /\ kept \in Seq(S)
        /\ Len(kept) = IF 1 <= m THEN m - 1 + 1 ELSE 0
        /\ \A i \in 1 .. m - 1 + 1 : kept[i] = q[1 + i - 1]
    BY <1>1, SubSeqProperties
  <2> HIDE DEF kept, m
  <2>2. m - 1 + 1 = m /\ \A i \in 1 .. m : 1 + i - 1 = i
    BY <1>1
  <2> QED
    BY <1>1, <2>1, <2>2
<1>3. /\ rest \in Seq(S) /\ Len(rest) = n
      /\ \A i \in 1 .. n : rest[i] = q[m + i]
  BY <1>1, SubSeqProperties
<1>4. taken = [i \in 1 .. n |-> q[m + (n - i + 1)]]
  <2>1. taken = [i \in 1 .. n |-> rest[n - i + 1]]
    BY <1>3 DEF Reverse
  <2>2. \A i \in 1 .. n : n - i + 1 \in 1 .. n /\ rest[n - i + 1] = q[m + (n - i + 1)]
    <3> HIDE DEF rest, m
    <3> QED
      BY <1>1, <1>3
  <2> HIDE DEF taken, rest, m
  <2> QED
    BY <2>1, <2>2
<1>5. \A i \in 1 .. n : m + (n - i + 1) \in DOMAIN q /\ m + (n - i + 1) > m
  <2> HIDE DEF m
  <2> QED
    BY <1>1
<1>6. \A i \in DOMAIN q : q[i] \in S
  OBVIOUS
<1>7. taken \in Seq(S) /\ Len(taken) = n /\ DOMAIN taken = 1 .. n
  <2> HIDE DEF taken, m
  <2>1. taken \in [1 .. n -> S]
    BY <1>4, <1>5, <1>6
  <2> QED
    BY <1>1, <2>1
<1>8. DOMAIN kept = 1 .. m /\ \A i \in 1 .. m : i \in DOMAIN q
  BY <1>1, <1>2
<1> HIDE DEF kept, taken, m, rest
<1>9. Once(kept) /\ ToSet(kept) \subseteq ToSet(q)
  BY <1>2, <1>8 DEF Once, ToSet
<1>10. Once(taken)
  <2>1. ASSUME NEW i \in 1 .. n, NEW j \in 1 .. n, taken[i] = taken[j]
        PROVE  i = j
    <3>1. m + (n - i + 1) = m + (n - j + 1)
      BY <1>4, <1>5, <2>1 DEF Once
    <3> QED
      BY <1>1, <3>1
  <2> QED
    BY <1>7, <2>1 DEF Once
<1>11. ToSet(taken) \subseteq ToSet(q)
  BY <1>4, <1>5, <1>7 DEF ToSet
<1>12. ASSUME NEW i \in 1 .. m, NEW j \in 1 .. n
       PROVE  kept[i] # taken[j]
  <2>1. kept[i] = q[i] /\ taken[j] = q[m + (n - j + 1)] /\ i # m + (n - j + 1)
    BY <1>1, <1>2, <1>4, <1>5
  <2> QED
    BY <1>5, <1>8, <2>1 DEF Once
<1>13. ToSet(kept) \cap ToSet(taken) = {}
  BY <1>7, <1>8, <1>12 DEF ToSet
<1>14. ToSet(q) = ToSet(kept) \cup ToSet(taken)
  <2>1. ASSUME NEW i \in DOMAIN q
        PROVE  q[i] \in ToSet(kept) \/ q[i] \in ToSet(taken)
    <3>1. CASE i <= m
      <4>1. i \in 1 .. m
        BY <1>1, <3>1
      <4> QED
        BY <1>2, <1>8, <4>1 DEF ToSet
    <3>2. CASE ~(i <= m)
      <4> DEFINE j == n - (i - m) + 1
      <4>1. j \in 1 .. n /\ m + (n - j + 1) = i
        BY <1>1, <3>2
      <4> HIDE DEF j
      <4>2. taken[j] = q[i] /\ j \in DOMAIN taken
        BY <1>4, <1>7, <4>1
      <4> QED
        BY <4>2 DEF ToSet
    <3> QED
      BY <3>1, <3>2
  <2>2. ToSet(q) \subseteq ToSet(kept) \cup ToSet(taken)
    BY <2>1 DEF ToSet
  <2> QED
    BY <1>9, <1>11, <2>2
<1> QED
  BY <1>2, <1>7, <1>9, <1>10, <1>11, <1>13, <1>14 DEF kept, taken, rest

(***************************************************************************)
(* Batches                                                                 *)
(***************************************************************************)

\* A plan is a sequence of operations.
LEMMA PlanIs ==
  ASSUME PoolTypeOK, NEW s \in InFlight
  PROVE  /\ s \in Signers /\ plan[s] # NoPlan /\ plan[s] \in Plans
         /\ plan[s].ops \in Seq(Ops) /\ plan[s].keys \in Seq(Nat)
         /\ DOMAIN plan[s].ops = 1 .. Len(plan[s].ops)
         /\ \A i \in DOMAIN plan[s].ops : plan[s].ops[i] \in Ops
         /\ \A i \in DOMAIN plan[s].ops : plan[s].ops[i].key # NoKey =>
              plan[s].ops[i].key \in Named(s) /\ plan[s].ops[i].key \in Keys
<1>1. s \in Signers /\ plan[s] # NoPlan /\ plan[s] \in Plans
  BY DEF PoolTypeOK, InFlight
<1>2. plan[s].ops \in Seq(Ops) /\ plan[s].keys \in Seq(Nat)
  BY <1>1 DEF Plans
<1>3. \A i \in DOMAIN plan[s].ops : plan[s].ops[i] \in Ops
  BY <1>2
<1>4. \A o \in Ops : o.key \in Keys \cup {NoKey}
  BY DEF Ops
<1> QED
  BY <1>1, <1>2, <1>3, <1>4 DEF Named

\* What a batch names is in the pool.
LEMMA NamedInPool ==
  ASSUME PoolInv, NEW s \in InFlight, NEW k \in Named(s)
  PROVE  /\ k \in Keys
         /\ \/ k \in reserved
            \/ alive[k] # NoEntry /\ alive[k].pending
         /\ InPool(k)
         /\ \A i \in DOMAIN plan[s].ops :
              plan[s].ops[i].key = k /\ k \in reserved => plan[s].ops[i].kind = "EXPIRE"
<1>1. PICK i \in DOMAIN plan[s].ops : plan[s].ops[i].key = k /\ k # NoKey
  BY DEF Named
<1>2. PoolTypeOK /\ Held(s) /\ PlacesApart
  BY DEF PoolInv
<1>3. \A o \in Ops : /\ o.kind \in EntityOps \cup {"CREATE", "EXPIRE"}
                     /\ o.key \in Keys \cup {NoKey}
  BY DEF Ops, EntityOps
<1>4. \A j \in DOMAIN plan[s].ops : plan[s].ops[j] \in Ops
  BY <1>2, PlanIs
<1>5. k \in Keys
  BY <1>1, <1>3, <1>4
<1>6. k \in reserved \/ (alive[k] # NoEntry /\ alive[k].pending)
  BY <1>1, <1>2, <1>3, <1>4 DEF Held
<1>7. ASSUME NEW j \in DOMAIN plan[s].ops, plan[s].ops[j].key = k, k \in reserved
      PROVE  plan[s].ops[j].kind = "EXPIRE"
  <2>1. alive[k] = NoEntry
    BY <1>2, <1>5, <1>7 DEF PlacesApart
  <2> QED
    BY <1>1, <1>2, <1>3, <1>4, <1>7, <2>1 DEF Held
<1> QED
  BY <1>5, <1>6, <1>7 DEF InPool

(***************************************************************************)
(* A batch that is given up or recorded                                    *)
(***************************************************************************)

\* What the end of a batch must leave as it is.
LEMMA ReleaseKeeps ==
  ASSUME PoolInv, NEW s \in InFlight, Release(s),
         ledger' = ledger, minted' = minted, height' = height,
         alive' \in [Keys -> Entries \cup {NoEntry}],
         expired' \in Seq(Keys), reserved' \subseteq reserved,
         \A k \in Keys : k \notin Named(s) /\ k \notin ToSet(plan[s].keys) =>
           alive'[k] = alive[k],
         \A k \in Keys : alive'[k] # NoEntry =>
           alive[k] # NoEntry \/ k \in ToSet(plan[s].keys),
         \A k \in reserved : k \notin Named(s) => k \in reserved',
         \A k \in Keys : k \in ToSet(expired') => k \in ToSet(expired) \/ k \in reserved,
         PlacesApart'
  PROVE  PoolInv'
<1>1. /\ plan' = [plan EXCEPT ![s] = NoPlan]
      /\ s \in Signers /\ plan = [t \in Signers |-> plan[t]]
      /\ PoolTypeOK /\ KeysFresh /\ ReservationsExclusive
  BY DEF Release, InFlight, PoolInv, PoolTypeOK
<1>2. /\ plan' = [t \in Signers |-> plan'[t]]
      /\ \A t \in Signers : plan'[t] = IF t = s THEN NoPlan ELSE plan[t]
  BY <1>1
<1>3. \A t : t \in InFlight' <=> t \in InFlight /\ t # s
  BY <1>2 DEF InFlight
<1>4. \A t \in InFlight' : t \in InFlight /\ t # s /\ plan'[t] = plan[t] /\ Named(t)' = Named(t)
  BY <1>2, <1>3 DEF InFlight, Named
<1>5. PoolTypeOK'
  <2>1. \A t \in Signers : plan'[t] = NoPlan \/ plan'[t] \in Plans
    BY <1>1, <1>2 DEF PoolTypeOK
  <2> QED
    BY <1>1, <1>2, <2>1 DEF PoolTypeOK
<1>6. ASSUME NEW t \in InFlight'
      PROVE  Held(t)' /\ ExpiresOnce(plan'[t].ops)
  <2>1. t \in InFlight /\ t # s /\ plan'[t] = plan[t] /\ Held(t) /\ ExpiresOnce(plan[t].ops)
    BY <1>4, <1>6 DEF PoolInv
  <2>2. ASSUME NEW i \in DOMAIN plan[t].ops, plan[t].ops[i].key # NoKey
        PROVE  LET k == plan[t].ops[i].key
               IN /\ alive'[k] = alive[k]
                  /\ k \in reserved => k \in reserved'
    <3> DEFINE k == plan[t].ops[i].key
    <3>1. k \in Named(t) /\ k \in Keys
      BY <1>1, <2>1, <2>2, PlanIs
    <3> HIDE DEF k
    <3>2. InPool(k)
      BY <2>1, <3>1, NamedInPool
    <3>3. k \notin Named(s) /\ k \notin ToSet(plan[s].keys)
      BY <1>1, <2>1, <3>1, <3>2 DEF ReservationsExclusive, KeysFresh
    <3> QED
      BY <3>1, <3>3 DEF k
  <2>3. Held(t)'
    <3>1. ASSUME NEW i \in DOMAIN plan[t].ops
          PROVE  LET op == plan[t].ops[i]
                 IN /\ op.kind = "CREATE" => op.key = NoKey
                    /\ op.kind = "EXPIRE" => op.key \in reserved'
                    /\ op.kind \in EntityOps =>
                         op.key \in Keys /\ alive'[op.key] # NoEntry /\ alive'[op.key].pending
                    /\ op.kind = "TRANSFER" => op.newOwner \in Signers
      <4>1. /\ plan[t].ops[i].kind = "EXPIRE" => plan[t].ops[i].key \in reserved
            /\ plan[t].ops[i].kind \in EntityOps =>
                 /\ plan[t].ops[i].key \in Keys
                 /\ alive[plan[t].ops[i].key] # NoEntry /\ alive[plan[t].ops[i].key].pending
            /\ plan[t].ops[i].kind = "CREATE" => plan[t].ops[i].key = NoKey
            /\ plan[t].ops[i].kind = "TRANSFER" => plan[t].ops[i].newOwner \in Signers
        BY <2>1 DEF Held
      <4>2. NoKey \notin Keys /\ reserved \subseteq Keys
        BY <1>1, SimulatorAssumption DEF PoolTypeOK
      <4> QED
        BY <2>2, <4>1, <4>2
    <3> QED
      BY <2>1, <3>1 DEF Held
  <2> QED
    BY <2>1, <2>3
<1>7. KeysFresh'
  <2>1. ASSUME NEW k \in Keys, InPool(k)'
        PROVE  k <= minted /\ \A t \in InFlight' : k \notin ToSet(plan'[t].keys)
    <3>1. InPool(k) \/ k \in ToSet(plan[s].keys)
      BY <2>1 DEF InPool
    <3> QED
      BY <1>1, <1>4, <3>1 DEF KeysFresh
  <2>2. /\ \A t \in InFlight' : \A k \in ToSet(plan'[t].keys) : k <= minted
        /\ \A t, u \in InFlight' : t # u => ToSet(plan'[t].keys) \cap ToSet(plan'[u].keys) = {}
    BY <1>1, <1>4 DEF KeysFresh
  <2> QED
    BY <2>1, <2>2 DEF KeysFresh
<1>8. ReservationsExclusive'
  BY <1>1, <1>4 DEF ReservationsExclusive
<1> QED
  BY <1>5, <1>6, <1>7, <1>8 DEF PoolInv

\* The keys of the candidates of a batch, each one once.
LEMMA CandidatesAre ==
  ASSUME NEW ops \in Seq(Ops), reserved \subseteq Keys, ExpiresOnce(ops)
  PROVE  /\ Candidates(ops) \in Seq(Keys)
         /\ \A j \in DOMAIN Candidates(ops) : \E i \in DOMAIN ops :
              /\ ops[i].kind = "EXPIRE" /\ ops[i].key \in reserved
              /\ Candidates(ops)[j] = ops[i].key
         /\ Once(Candidates(ops))
         /\ \A i \in DOMAIN ops : ops[i].kind = "EXPIRE" /\ ops[i].key \in reserved =>
              \E j \in DOMAIN Candidates(ops) : Candidates(ops)[j] = ops[i].key
<1> DEFINE last == Len(ops)
           Taken(n) == ops[n].kind = "EXPIRE" /\ ops[n].key \in reserved
           Right(s) == s = [n \in 0 .. last |->
                              IF n = 0 THEN <<>>
                              ELSE IF ops[n].kind = "EXPIRE" /\ ops[n].key \in reserved
                              THEN Append(s[n - 1], ops[n].key)
                              ELSE s[n - 1]]
           upTo == CHOOSE s : Right(s)
           S == Seq(Keys)
           g == [q \in (1 .. last) \X S |->
                   IF Taken(q[1]) THEN Append(q[2], ops[q[1]].key) ELSE q[2]]
<1>1. last \in Nat /\ <<>> \in S /\ DOMAIN ops = 1 .. last
  BY EmptySeq
<1>2. g \in [(1 .. last) \X S -> S]
  <2>1. ASSUME NEW q \in (1 .. last) \X S, Taken(q[1])
        PROVE  Append(q[2], ops[q[1]].key) \in S
    <3>1. q[2] \in S /\ ops[q[1]].key \in Keys
      BY <2>1
    <3> QED
      BY <3>1, AppendProperties
  <2> HIDE DEF Taken
  <2> QED
    BY <2>1
<1>3. PICK f \in [0 .. last -> S] : Iterates(f, last, <<>>, g)
  <2> HIDE DEF last, S, g
  <2> QED
    BY <1>1, <1>2, IterationExists
<1>4. ASSUME NEW n \in 1 .. last
      PROVE  f[n] = IF Taken(n) THEN Append(f[n - 1], ops[n].key) ELSE f[n - 1]
  <2>1. n - 1 \in 0 .. last /\ f[n - 1] \in S
    <3> HIDE DEF last, S
    <3> QED
      BY <1>1, <1>3
  <2>2. f[n] = g[<<n, f[n - 1]>>]
    BY <1>3 DEF Iterates
  <2> QED
    BY <2>1, <2>2
<1>5. Right(f)
  <2>1. \A n \in 0 .. last : n # 0 => n \in 1 .. last
    BY <1>1
  <2>2. f[0] = <<>>
    BY <1>3 DEF Iterates
  <2> HIDE DEF last
  <2>3. f = [n \in 0 .. last |-> f[n]]
    BY <1>3
  <2> QED
    BY <1>4, <2>1, <2>2, <2>3
<1>6. Right(upTo)
  <2> HIDE DEF Right
  <2> QED
    BY <1>5
<1>7. Candidates(ops) = upTo[last]
  BY DEF Candidates
<1>8. /\ upTo[0] = <<>>
      /\ \A n \in 1 .. last :
           upTo[n] = IF Taken(n) THEN Append(upTo[n - 1], ops[n].key) ELSE upTo[n - 1]
  <2> HIDE DEF upTo
  <2>1. ASSUME NEW n \in 0 .. last
        PROVE  upTo[n] = IF n = 0 THEN <<>>
                         ELSE IF Taken(n) THEN Append(upTo[n - 1], ops[n].key)
                         ELSE upTo[n - 1]
    BY <1>6
  <2> HIDE DEF Taken
  <2> QED
    BY <1>1, <2>1
<1> DEFINE Good(s, n) ==
             /\ s \in S
             /\ \A j \in DOMAIN s : \E i \in 1 .. n : Taken(i) /\ s[j] = ops[i].key
             /\ Once(s)
             /\ \A i \in 1 .. n : Taken(i) => \E j \in DOMAIN s : s[j] = ops[i].key
           Bad == {n \in 0 .. last : ~Good(upTo[n], n)}
<1>9. ASSUME Bad # {} PROVE FALSE
  <2>1. PICK m \in 0 .. last :
          /\ ~Good(upTo[m], m)
          /\ \A k \in 0 .. last : Good(upTo[k], k) \/ m <= k
    <3>1. Bad \subseteq Nat
      OBVIOUS
    <3>2. PICK m \in Bad : \A k \in Bad : m <= k
      <4> HIDE DEF Bad
      <4> QED
        BY <1>9, <3>1, Smallest
    <3> HIDE DEF Good
    <3> QED
      BY <3>2
  <2>2. m # 0
    <3>1. Good(<<>>, 0)
      BY <1>1 DEF Once
    <3> HIDE DEF upTo, Good
    <3> QED
      BY <1>8, <2>1, <3>1
  <2>3. m \in 1 .. last /\ m - 1 \in 0 .. last /\ ~(m <= m - 1)
    <3> HIDE DEF last
    <3> QED
      BY <1>1, <2>2
  <2> DEFINE s == upTo[m - 1]
  <2>4. Good(s, m - 1)
    <3> HIDE DEF Good
    <3> QED
      BY <2>1, <2>3
  <2> HIDE DEF s
  <2>5. upTo[m] = IF Taken(m) THEN Append(s, ops[m].key) ELSE s
    BY <1>8, <2>3 DEF s
  <2> HIDE DEF upTo
  <2>6. CASE ~Taken(m)
    <3>1. Good(s, m)
      <4>1. \A i \in 1 .. m : i = m \/ i \in 1 .. m - 1
        BY <2>3
      <4>2. \A i \in 1 .. m - 1 : i \in 1 .. m
        BY <2>3
      <4> HIDE DEF Taken
      <4> QED
        BY <2>4, <2>6, <4>1, <4>2
    <3> QED
      BY <2>1, <2>5, <2>6, <3>1
  <2>7. CASE Taken(m)
    <3> DEFINE k == ops[m].key
    <3>1. k \in Keys /\ m \in DOMAIN ops
      BY <1>1, <2>3, <2>7
    <3>2. /\ Append(s, k) \in S /\ DOMAIN Append(s, k) = 1 .. Len(s) + 1
          /\ DOMAIN s = 1 .. Len(s) /\ Len(s) \in Nat
          /\ Append(s, k)[Len(s) + 1] = k
          /\ \A j \in 1 .. Len(s) : Append(s, k)[j] = s[j]
      BY <2>4, <3>1, AppendProperties
    <3>3. ASSUME NEW j \in DOMAIN s PROVE s[j] # k
      <4>1. PICK i \in 1 .. m - 1 : Taken(i) /\ s[j] = ops[i].key
        BY <2>4, <3>3
      <4>2. i \in DOMAIN ops /\ i # m
        BY <1>1, <2>3, <4>1
      <4>3. ops[i].kind = "EXPIRE" /\ ops[m].kind = "EXPIRE" /\ m \in DOMAIN ops
        BY <2>7, <3>1, <4>1
      <4>4. ops[i].key # ops[m].key
        <5> HIDE DEF Taken
        <5> QED
          BY <4>2, <4>3 DEF ExpiresOnce
      <4> QED
        BY <4>1, <4>4
    <3>4. ASSUME NEW j \in 1 .. Len(s) + 1
          PROVE  \E i \in 1 .. m : Taken(i) /\ Append(s, k)[j] = ops[i].key
      <4>1. CASE j = Len(s) + 1
        <5>1. m \in 1 .. m
          BY <2>3
        <5>2. Append(s, k)[j] = ops[m].key
          BY <3>2, <4>1
        <5> HIDE DEF Taken, k
        <5> QED
          BY <2>7, <5>1, <5>2
      <4>2. CASE j # Len(s) + 1
        <5>1. j \in 1 .. Len(s) /\ Append(s, k)[j] = s[j]
          BY <3>2, <4>2
        <5>2. PICK i \in 1 .. m - 1 : Taken(i) /\ s[j] = ops[i].key
          BY <2>4, <3>2, <5>1
        <5>3. i \in 1 .. m
          BY <2>3
        <5> QED
          BY <5>1, <5>2, <5>3
      <4> QED
        BY <4>1, <4>2
    <3>5. \A i, j \in 1 .. Len(s) + 1 : Append(s, k)[i] = Append(s, k)[j] => i = j
      <4>1. \A i \in 1 .. Len(s) + 1 : i = Len(s) + 1 \/ i \in 1 .. Len(s)
        BY <3>2
      <4> HIDE DEF k, Taken
      <4> QED
        BY <2>4, <3>2, <3>3, <4>1 DEF Once
    <3>6. ASSUME NEW i \in 1 .. m, Taken(i)
          PROVE  \E j \in DOMAIN Append(s, k) : Append(s, k)[j] = ops[i].key
      <4>1. CASE i = m
        <5>1. Len(s) + 1 \in DOMAIN Append(s, k)
          BY <3>2
        <5> QED
          BY <3>2, <4>1, <5>1
      <4>2. CASE i # m
        <5>1. i \in 1 .. m - 1
          BY <2>3, <4>2
        <5>2. PICK j \in DOMAIN s : s[j] = ops[i].key
          <6> HIDE DEF Taken
          <6> QED
            BY <2>4, <3>6, <5>1
        <5>3. j \in DOMAIN Append(s, k) /\ Append(s, k)[j] = s[j]
          BY <3>2
        <5> QED
          BY <5>2, <5>3
      <4> QED
        BY <4>1, <4>2
    <3>7. Good(Append(s, k), m)
      <4> HIDE DEF k, Taken
      <4> QED
        BY <3>2, <3>4, <3>5, <3>6 DEF Once
    <3> HIDE DEF Good, Taken
    <3> QED
      BY <2>1, <2>5, <2>7, <3>7
  <2> QED
    BY <2>6, <2>7
<1>10. Good(upTo[last], last)
  <2> HIDE DEF Good, upTo, last
  <2> QED
    BY <1>1, <1>9
<1> QED
  <2> HIDE DEF upTo, last, S
  <2>1. Good(Candidates(ops), last) /\ 1 .. last = DOMAIN ops /\ S = Seq(Keys)
    BY <1>1, <1>7, <1>10 DEF S
  <2> QED
    BY <2>1

\* What may become of a pool with these entities and reservations while a
\* batch is recorded that names `named` and whose receipt brings `keys`.
PoolRecords(from, held, keys, named) ==
  {p \in [alive : [Keys -> Entries \cup {NoEntry}], reserved : SUBSET held, keys : Seq(keys)] :
     /\ \A k \in Keys : k \notin named /\ k \notin keys => p.alive[k] = from[k]
     /\ \A k \in Keys : p.alive[k] # NoEntry => from[k] # NoEntry \/ k \in keys
     /\ \A k \in held : k \notin named => k \in p.reserved}

\* An operation of a batch that names `named`.
Recordable(op, named) ==
  /\ op \in Ops
  /\ op.key \in Keys => op.key \in named
  /\ op.kind \in EntityOps => op.key \in Keys
  /\ op.kind = "TRANSFER" => op.newOwner \in Signers

AllRecordable(ops, named) ==
  ops \in Seq(Ops) /\ \A i \in 1 .. Len(ops) : Recordable(ops[i], named)

LEMMA PoolRecordIs ==
  ASSUME NEW from, NEW held, NEW keys, NEW named,
         NEW a \in [Keys -> Entries \cup {NoEntry}], NEW r, r \subseteq held,
         NEW ks \in Seq(keys),
         \A k \in Keys : k \notin named /\ k \notin keys => a[k] = from[k],
         \A k \in Keys : a[k] # NoEntry => from[k] # NoEntry \/ k \in keys,
         \A k \in held : k \notin named => k \in r
  PROVE  [alive |-> a, reserved |-> r, keys |-> ks] \in PoolRecords(from, held, keys, named)
BY DEF PoolRecords

\* One operation recorded.
LEMMA AfterSuccessStays ==
  ASSUME NEW s \in Signers, NEW from, NEW held, held \subseteq Keys, NEW keys, NEW named,
         NEW p \in PoolRecords(from, held, keys, named),
         NEW op, Recordable(op, named)
  PROVE  AfterSuccess(s, p, op) \in PoolRecords(from, held, keys, named)
<1> DEFINE after == AfterSuccess(s, p, op)
<1>2. /\ op.kind \in EntityOps \cup {"CREATE", "EXPIRE"}
      /\ op.expiresAt \in Nat
      /\ op.kind \in EntityOps => op.key \in Keys
      /\ op.kind = "TRANSFER" => op.newOwner \in Signers
      /\ op.key \in Keys => op.key \in named
  BY DEF Recordable, Ops, EntityOps
<1>5. /\ p = [alive |-> p.alive, reserved |-> p.reserved, keys |-> p.keys]
      /\ p.alive \in [Keys -> Entries \cup {NoEntry}] /\ p.reserved \subseteq held
      /\ p.keys \in Seq(keys)
      /\ \A k \in Keys : k \notin named /\ k \notin keys =>
           p.alive[k] = from[k]
      /\ \A k \in Keys : p.alive[k] # NoEntry =>
           from[k] # NoEntry \/ k \in keys
      /\ \A k \in held : k \notin named => k \in p.reserved
  BY DEF PoolRecords
<1>6. ASSUME op.kind = "CREATE" PROVE after \in PoolRecords(from, held, keys, named)
  <2>1. CASE p.keys = <<>>
    BY <1>6, <2>1 DEF AfterSuccess
  <2>2. CASE p.keys # <<>>
    <3> DEFINE h == Head(p.keys)
               e == [owner |-> s, expiresAt |-> op.expiresAt, pending |-> FALSE]
    <3>1. h \in keys /\ Tail(p.keys) \in Seq(keys)
      BY <1>5, <2>2, HeadTailProperties
    <3>2. e \in Entries
      BY <1>2 DEF Entries
    <3>3. after = [alive |-> [p.alive EXCEPT ![h] = e], reserved |-> p.reserved,
                   keys |-> Tail(p.keys)]
      BY <1>5, <1>6, <2>2 DEF AfterSuccess
    <3> DEFINE a == [p.alive EXCEPT ![h] = e]
    <3>4. a \in [Keys -> Entries \cup {NoEntry}]
      BY <1>5, <3>2
    <3>5. \A k \in Keys : (k # h => a[k] = p.alive[k])
      BY <1>5
    <3> HIDE DEF h, e, after
    <3>6. after = [alive |-> a, reserved |-> p.reserved, keys |-> Tail(p.keys)]
      BY <3>3
    <3> HIDE DEF a
    <3>7. \A k \in Keys : k \notin named /\ k \notin keys => a[k] = from[k]
      BY <1>5, <3>1, <3>5
    <3>8. \A k \in Keys : a[k] # NoEntry => from[k] # NoEntry \/ k \in keys
      BY <1>5, <3>1, <3>5
    <3> QED
      BY <1>5, <3>1, <3>4, <3>6, <3>7, <3>8, PoolRecordIs
  <2> QED
    BY <2>1, <2>2
<1>7. ASSUME op.kind = "EXPIRE" PROVE after \in PoolRecords(from, held, keys, named)
  <2>1. after = [alive |-> p.alive, reserved |-> p.reserved \ {op.key}, keys |-> p.keys]
    BY <1>5, <1>7 DEF AfterSuccess
  <2> HIDE DEF after
  <2>2. \A k \in held : k \notin named => k \in p.reserved \ {op.key}
    BY <1>2, <1>5
  <2> QED
    BY <1>5, <2>1, <2>2, PoolRecordIs
<1>8. ASSUME op.kind = "DELETE" PROVE after \in PoolRecords(from, held, keys, named)
  <2>1. after = [alive |-> [p.alive EXCEPT ![op.key] = NoEntry],
                 reserved |-> p.reserved, keys |-> p.keys]
    BY <1>5, <1>8 DEF AfterSuccess
  <2>2. op.key \in named
    BY <1>2, <1>8 DEF EntityOps
  <2> DEFINE a == [p.alive EXCEPT ![op.key] = NoEntry]
  <2>3. /\ a \in [Keys -> Entries \cup {NoEntry}]
        /\ \A k \in Keys : a[k] = IF k = op.key THEN NoEntry ELSE p.alive[k]
    BY <1>5
  <2> HIDE DEF after
  <2>4. after = [alive |-> a, reserved |-> p.reserved, keys |-> p.keys]
    BY <2>1
  <2> HIDE DEF a
  <2>5. \A k \in Keys : k \notin named /\ k \notin keys => a[k] = from[k]
    BY <1>5, <2>2, <2>3
  <2>6. \A k \in Keys : a[k] # NoEntry => from[k] # NoEntry \/ k \in keys
    BY <1>5, <2>3
  <2> QED
    BY <1>5, <2>3, <2>4, <2>5, <2>6, PoolRecordIs
<1>9. ASSUME op.kind \in {"UPDATE", "EXTEND", "TRANSFER"} PROVE after \in PoolRecords(from, held, keys, named)
  <2>1. after = Freed(p, op)
    BY <1>9 DEF AfterSuccess
  <2>2. op.key \in Keys /\ op.key \in named
    BY <1>2, <1>9 DEF EntityOps
  <2>3. CASE p.alive[op.key] = NoEntry
    BY <2>1, <2>3 DEF Freed
  <2>4. CASE p.alive[op.key] # NoEntry
    <3> DEFINE old == p.alive[op.key]
               e == [owner |-> IF op.kind = "TRANSFER" THEN op.newOwner ELSE old.owner,
                     expiresAt |-> IF op.kind = "EXTEND" THEN op.expiresAt ELSE old.expiresAt,
                     pending |-> FALSE]
    <3>1. old \in Entries
      BY <1>5, <2>2, <2>4
    <3>2. e \in Entries
      BY <1>2, <3>1 DEF Entries
    <3>3. after = [alive |-> [p.alive EXCEPT ![op.key] = e], reserved |-> p.reserved,
                   keys |-> p.keys]
      BY <1>5, <2>1, <2>2, <2>4 DEF Freed
    <3> DEFINE a == [p.alive EXCEPT ![op.key] = e]
    <3>4. a \in [Keys -> Entries \cup {NoEntry}]
      BY <1>5, <3>2
    <3>5. \A k \in Keys : (k # op.key => a[k] = p.alive[k])
      BY <1>5
    <3>6. \A k \in Keys : k \notin named /\ k \notin keys => a[k] = from[k]
      <4> HIDE DEF a
      <4> QED
        BY <1>5, <2>2, <3>5
    <3>7. \A k \in Keys : a[k] # NoEntry => from[k] # NoEntry \/ k \in keys
      <4> HIDE DEF a
      <4> QED
        BY <1>5, <2>2, <2>4, <3>5
    <3> HIDE DEF e, after
    <3>8. after = [alive |-> a, reserved |-> p.reserved, keys |-> p.keys]
      BY <3>3
    <3> HIDE DEF a
    <3> QED
      BY <1>5, <3>4, <3>6, <3>7, <3>8, PoolRecordIs
  <2> QED
    BY <2>3, <2>4
<1> QED
  BY <1>2, <1>6, <1>7, <1>8, <1>9 DEF EntityOps

\* f records the operations of a batch one after the other.
Records(f, s, start, ops) ==
  /\ f[0] = start
  /\ \A n \in 1 .. Len(ops) : f[n] = AfterSuccess(s, f[n - 1], ops[n])

LEMMA MirroredUnfolds ==
  ASSUME NEW s \in Signers, NEW held, held \subseteq Keys, NEW keys, NEW named,
         NEW from, NEW start \in PoolRecords(from, held, keys, named),
         NEW ops, AllRecordable(ops, named)
  PROVE  \E f \in [0 .. Len(ops) -> PoolRecords(from, held, keys, named)] :
           Records(f, s, start, ops) /\ Mirrored(s, start, ops) = f[Len(ops)]
<1> DEFINE last == Len(ops)
           Right(h) == h = [n \in 0 .. last |->
                              IF n = 0 THEN start ELSE AfterSuccess(s, h[n - 1], ops[n])]
           after == CHOOSE h : Right(h)
           S == PoolRecords(from, held, keys, named)
           g == [q \in (1 .. last) \X S |-> AfterSuccess(s, q[2], ops[q[1]])]
<1>1. last \in Nat
  BY DEF AllRecordable
<1>2. start \in S
  OBVIOUS
<1>3. g \in [(1 .. last) \X S -> S]
  <2>1. ASSUME NEW q \in (1 .. last) \X S
        PROVE  AfterSuccess(s, q[2], ops[q[1]]) \in S
    <3>1. Recordable(ops[q[1]], named) /\ q[2] \in S
      BY <1>1 DEF AllRecordable
    <3> QED
      BY <3>1, AfterSuccessStays
  <2> HIDE DEF S, last
  <2> QED
    BY <2>1
<1>4. PICK f \in [0 .. last -> S] : Iterates(f, last, start, g)
  <2> HIDE DEF last, S, g
  <2> QED
    BY <1>1, <1>2, <1>3, IterationExists
<1>5. ASSUME NEW n \in 1 .. last
      PROVE  f[n] = AfterSuccess(s, f[n - 1], ops[n])
  <2>1. n - 1 \in 0 .. last /\ f[n - 1] \in S
    <3> HIDE DEF S, last
    <3> QED
      BY <1>1, <1>4
  <2>2. f[n] = g[<<n, f[n - 1]>>]
    BY <1>4 DEF Iterates
  <2> HIDE DEF S, last
  <2> QED
    BY <2>1, <2>2
<1>6. Right(f)
  <2>1. \A n \in 0 .. last : n # 0 => n \in 1 .. last
    BY <1>1
  <2>2. f[0] = start
    BY <1>4 DEF Iterates
  <2> HIDE DEF last, S
  <2>3. f = [n \in 0 .. last |-> f[n]]
    BY <1>4
  <2> QED
    BY <1>5, <2>1, <2>2, <2>3
<1>7. Right(after)
  <2> HIDE DEF Right
  <2> QED
    BY <1>6
<1>8. Mirrored(s, start, ops) = after[last]
  BY DEF Mirrored
<1>9. /\ after[0] = start
      /\ \A n \in 1 .. last : after[n] = AfterSuccess(s, after[n - 1], ops[n])
  <2> HIDE DEF after
  <2>1. ASSUME NEW n \in 0 .. last
        PROVE  after[n] = IF n = 0 THEN start ELSE AfterSuccess(s, after[n - 1], ops[n])
    BY <1>7
  <2>2. 0 \in 0 .. last /\ \A n \in 1 .. last : n \in 0 .. last /\ n # 0
    BY <1>1
  <2> HIDE DEF last
  <2> QED
    BY <2>1, <2>2
<1>10. MovesWithin(after, last, S, g)
  <2> HIDE DEF after, S, last
  <2> QED
    BY <1>9 DEF MovesWithin
<1>11. \A n \in 0 .. last : after[n] \in S
  <2> HIDE DEF after, S, last, g
  <2> QED
    BY <1>1, <1>2, <1>3, <1>9, <1>10, IterationStays
<1>12. after \in [0 .. last -> S]
  <2> HIDE DEF S, last
  <2>1. after = [n \in 0 .. last |-> after[n]]
    BY <1>7
  <2> HIDE DEF after
  <2> QED
    BY <1>11, <2>1
<1> QED
  <2> HIDE DEF after, S
  <2>1. Records(after, s, start, ops)
    BY <1>9 DEF Records
  <2> QED
    BY <1>8, <1>12, <2>1 DEF S

\* The operations of a batch in flight.
LEMMA BatchRecordable ==
  ASSUME PoolInv, NEW s \in InFlight
  PROVE  /\ s \in Signers /\ AllRecordable(plan[s].ops, Named(s))
         /\ [alive |-> alive, reserved |-> reserved, keys |-> plan[s].keys] \in
              PoolRecords(alive, reserved, ToSet(plan[s].keys), Named(s))
<1>1. PoolTypeOK /\ Held(s) /\ NoKey \notin Keys
  BY SimulatorAssumption DEF PoolInv
<1>2. /\ s \in Signers /\ plan[s].ops \in Seq(Ops) /\ plan[s].keys \in Seq(Nat)
      /\ \A i \in DOMAIN plan[s].ops :
           /\ plan[s].ops[i] \in Ops
           /\ plan[s].ops[i].key # NoKey => plan[s].ops[i].key \in Named(s)
      /\ DOMAIN plan[s].ops = 1 .. Len(plan[s].ops)
  BY <1>1, PlanIs
<1>3. \A i \in 1 .. Len(plan[s].ops) : Recordable(plan[s].ops[i], Named(s))
  BY <1>1, <1>2 DEF Recordable, Held
<1>4. plan[s].keys \in Seq(ToSet(plan[s].keys))
  BY <1>2 DEF ToSet
<1>5. [alive |-> alive, reserved |-> reserved, keys |-> plan[s].keys] \in
        PoolRecords(alive, reserved, ToSet(plan[s].keys), Named(s))
  BY <1>1, <1>4 DEF PoolRecords, PoolTypeOK
<1> QED
  BY <1>2, <1>3, <1>5 DEF AllRecordable

\* The pool while a receipt is recorded.
LEMMA OutcomeUnfolds ==
  ASSUME PoolInv, NEW s \in InFlight
  PROVE  \E f \in [0 .. Len(plan[s].ops) ->
                     PoolRecords(alive, reserved, ToSet(plan[s].keys), Named(s))] :
           /\ Records(f, s, [alive |-> alive, reserved |-> reserved, keys |-> plan[s].keys],
                      plan[s].ops)
           /\ Outcome(s) = f[Len(plan[s].ops)]
<1> DEFINE ops == plan[s].ops
           start == [alive |-> alive, reserved |-> reserved, keys |-> plan[s].keys]
           S == PoolRecords(alive, reserved, ToSet(plan[s].keys), Named(s))
<1>1. s \in Signers /\ AllRecordable(ops, Named(s)) /\ start \in S /\ reserved \subseteq Keys
  BY BatchRecordable DEF PoolInv, PoolTypeOK
<1>2. ASSUME NEW held, NEW keys, NEW named, held = reserved, keys = ToSet(plan[s].keys),
             named = Named(s)
      PROVE  \E f \in [0 .. Len(ops) -> S] :
               Records(f, s, start, ops) /\ Mirrored(s, start, ops) = f[Len(ops)]
  <2> HIDE DEF ops, start
  <2>1. /\ s \in Signers /\ held \subseteq Keys /\ AllRecordable(ops, named)
        /\ start \in PoolRecords(alive, held, keys, named)
    BY <1>1, <1>2
  <2>2. PICK f \in [0 .. Len(ops) -> PoolRecords(alive, held, keys, named)] :
          Records(f, s, start, ops) /\ Mirrored(s, start, ops) = f[Len(ops)]
    BY <2>1, MirroredUnfolds
  <2> QED
    BY <1>2, <2>2
<1>3. Outcome(s) = Mirrored(s, start, ops)
  BY DEF Outcome
<1> HIDE DEF start, ops, S
<1>4. PICK f \in [0 .. Len(ops) -> S] : Records(f, s, start, ops) /\ Outcome(s) = f[Len(ops)]
  BY <1>2, <1>3
<1> QED
  BY <1>4 DEF start, ops, S

\* The pool once the receipt is in.
LEMMA OutcomeIs ==
  ASSUME PoolInv, NEW s \in InFlight
  PROVE  Outcome(s) \in PoolRecords(alive, reserved, ToSet(plan[s].keys), Named(s))
<1>1. PICK f \in [0 .. Len(plan[s].ops) ->
                    PoolRecords(alive, reserved, ToSet(plan[s].keys), Named(s))] :
        Outcome(s) = f[Len(plan[s].ops)]
  BY OutcomeUnfolds
<1>2. Len(plan[s].ops) \in 0 .. Len(plan[s].ops)
  BY PlanIs DEF PoolInv
<1> QED
  BY <1>1, <1>2

\* What the chain may become while the operations of a batch run.
ChainRecords ==
  [ledger : [Keys -> ChainEntries \cup {NoEntry}], minted : {m \in Nat : minted <= m},
   ok : BOOLEAN]

\* One operation run.
LEMMA PerformedStays ==
  ASSUME PoolInv, NEW s \in InFlight, NEW c \in ChainRecords,
         NEW i \in DOMAIN plan[s].ops
  PROVE  Performed(c, s, plan[s].ops[i]) \in ChainRecords
<1> DEFINE op == plan[s].ops[i]
           after == Effect(c, s, op)
           L == [Keys -> ChainEntries \cup {NoEntry}]
<1>1. /\ s \in Signers /\ PoolTypeOK /\ Held(s) /\ op \in Ops
      /\ height \in Nat /\ minted \in Nat
  BY PlanIs DEF PoolInv, PoolTypeOK
<1>2. /\ op.kind \in EntityOps \cup {"CREATE", "EXPIRE"}
      /\ op.btl \in Nat /\ op.newOwner \in Signers \cup {NoKey}
      /\ op.kind \in EntityOps => op.key \in Keys
  BY <1>1 DEF Ops, Held, EntityOps
<1>3. /\ c = [ledger |-> c.ledger, minted |-> c.minted, ok |-> c.ok]
      /\ c.ledger \in L /\ c.minted \in Nat /\ minted <= c.minted /\ c.ok \in BOOLEAN
  BY DEF ChainRecords
<1> HIDE DEF op
<1>4. [c EXCEPT !.ok = FALSE] \in ChainRecords
  BY <1>3 DEF ChainRecords
<1>5. ASSUME Accepted(c, s, op) PROVE after \in ChainRecords
  <2>1. ASSUME op.kind = "CREATE" PROVE after \in ChainRecords
    <3> DEFINE e == [owner |-> s, expiresAt |-> height + op.btl]
               l == [c.ledger EXCEPT ![c.minted + 1] = e]
    <3>1. e \in ChainEntries
      BY <1>1, <1>2 DEF ChainEntries
    <3>2. after = [ledger |-> l, minted |-> c.minted + 1, ok |-> c.ok]
      BY <1>3, <2>1 DEF Effect
    <3>3. l \in L
      <4> HIDE DEF e
      <4> QED
        BY <1>3, <3>1
    <3>4. c.minted + 1 \in Nat /\ minted <= c.minted + 1
      BY <1>1, <1>3
    <3> HIDE DEF l, after
    <3> QED
      BY <1>3, <3>2, <3>3, <3>4 DEF ChainRecords
  <2>2. ASSUME op.kind = "UPDATE" PROVE after \in ChainRecords
    BY <2>2 DEF Effect
  <2>3. ASSUME op.kind \in {"EXTEND", "TRANSFER"} PROVE after \in ChainRecords
    <3>1. op.key \in Keys /\ c.ledger[op.key] # NoEntry
      BY <1>2, <1>5, <2>3 DEF Accepted, Managed, EntityOps
    <3> DEFINE old == c.ledger[op.key]
    <3>2. old \in ChainEntries
      BY <1>3, <3>1
    <3> DEFINE e == IF op.kind = "EXTEND"
                    THEN [owner |-> old.owner, expiresAt |-> height + op.btl]
                    ELSE [owner |-> op.newOwner, expiresAt |-> old.expiresAt]
               l == [c.ledger EXCEPT ![op.key] = e]
    <3>3. e \in ChainEntries
      BY <1>1, <1>2, <3>2 DEF ChainEntries
    <3>4. after = [ledger |-> l, minted |-> c.minted, ok |-> c.ok]
      <4>1. old = [owner |-> old.owner, expiresAt |-> old.expiresAt]
        BY <3>2 DEF ChainEntries
      <4>2. CASE op.kind = "EXTEND"
        <5>1. after = [c EXCEPT !.ledger = [c.ledger EXCEPT ![op.key] =
                         [old EXCEPT !.expiresAt = height + op.btl]]]
          BY <4>2 DEF Effect
        <5>2. [old EXCEPT !.expiresAt = height + op.btl] = e
          BY <4>1, <4>2
        <5> HIDE DEF e, old, after
        <5> QED
          BY <1>3, <5>1, <5>2
      <4>3. CASE op.kind = "TRANSFER"
        <5>1. after = [c EXCEPT !.ledger = [c.ledger EXCEPT ![op.key] =
                         [old EXCEPT !.owner = op.newOwner]]]
          BY <4>3 DEF Effect
        <5>2. [old EXCEPT !.owner = op.newOwner] = e
          BY <4>1, <4>3
        <5> HIDE DEF e, old, after
        <5> QED
          BY <1>3, <5>1, <5>2
      <4> QED
        BY <2>3, <4>2, <4>3
    <3>5. l \in L
      <4> HIDE DEF e
      <4> QED
        BY <1>3, <3>3
    <3> HIDE DEF l, after
    <3> QED
      BY <1>3, <3>4, <3>5 DEF ChainRecords
  <2>4. ASSUME op.kind \in {"DELETE", "EXPIRE"} PROVE after \in ChainRecords
    <3> DEFINE l == [c.ledger EXCEPT ![op.key] = NoEntry]
    <3>1. after = [ledger |-> l, minted |-> c.minted, ok |-> c.ok]
      BY <1>3, <2>4 DEF Effect
    <3>2. l \in L
      BY <1>3
    <3> HIDE DEF l, after
    <3> QED
      BY <1>3, <3>1, <3>2 DEF ChainRecords
  <2> HIDE DEF after
  <2> QED
    BY <1>2, <2>1, <2>2, <2>3, <2>4 DEF EntityOps
<1> QED
  <2> HIDE DEF after
  <2>1. Performed(c, s, op) = IF c.ok /\ Accepted(c, s, op) THEN after
                              ELSE [c EXCEPT !.ok = FALSE]
    BY DEF Performed, after
  <2> QED
    BY <1>4, <1>5, <2>1 DEF op

\* All operations run.
LEMMA ExecutedUnfolds ==
  ASSUME PoolInv, NEW s \in InFlight
  PROVE  \E f \in [0 .. Len(plan[s].ops) -> ChainRecords] :
           /\ f[0] = [ledger |-> ledger, minted |-> minted, ok |-> TRUE]
           /\ \A n \in 1 .. Len(plan[s].ops) : f[n] = Performed(f[n - 1], s, plan[s].ops[n])
           /\ Executed(s, plan[s].ops) = f[Len(plan[s].ops)]
<1> DEFINE ops == plan[s].ops
           last == Len(ops)
           start == [ledger |-> ledger, minted |-> minted, ok |-> TRUE]
           Right(h) == h = [n \in 0 .. last |->
                              IF n = 0 THEN start ELSE Performed(h[n - 1], s, ops[n])]
           after == CHOOSE h : Right(h)
           S == ChainRecords
           g == [q \in (1 .. last) \X S |-> Performed(q[2], s, ops[q[1]])]
<1>1. last \in Nat /\ DOMAIN ops = 1 .. last
  BY PlanIs DEF PoolInv
<1>2. start \in S
  <2>1. PoolTypeOK
    BY DEF PoolInv
  <2> QED
    BY <2>1 DEF ChainRecords, PoolTypeOK
<1>3. g \in [(1 .. last) \X S -> S]
  <2>1. ASSUME NEW q \in (1 .. last) \X S
        PROVE  Performed(q[2], s, ops[q[1]]) \in S
    <3>1. q[1] \in DOMAIN ops /\ q[2] \in S
      BY <1>1
    <3> QED
      BY <3>1, PerformedStays
  <2> HIDE DEF S, last, ops
  <2> QED
    BY <2>1
<1>4. PICK f \in [0 .. last -> S] : Iterates(f, last, start, g)
  <2> HIDE DEF last, S, g, start
  <2> QED
    BY <1>1, <1>2, <1>3, IterationExists
<1>5. ASSUME NEW n \in 1 .. last
      PROVE  f[n] = Performed(f[n - 1], s, ops[n])
  <2>1. n - 1 \in 0 .. last /\ f[n - 1] \in S
    <3> HIDE DEF S, last
    <3> QED
      BY <1>1, <1>4
  <2>2. f[n] = g[<<n, f[n - 1]>>]
    BY <1>4 DEF Iterates
  <2> HIDE DEF S, last, ops
  <2> QED
    BY <2>1, <2>2
<1>6. Right(f)
  <2>1. \A n \in 0 .. last : n # 0 => n \in 1 .. last
    BY <1>1
  <2>2. f[0] = start
    BY <1>4 DEF Iterates
  <2> HIDE DEF last, S, start, ops
  <2>3. f = [n \in 0 .. last |-> f[n]]
    BY <1>4
  <2> QED
    BY <1>5, <2>1, <2>2, <2>3
<1>7. Right(after)
  <2> HIDE DEF Right
  <2> QED
    BY <1>6
<1>8. Executed(s, ops) = after[last]
  BY DEF Executed
<1>9. /\ after[0] = start
      /\ \A n \in 1 .. last : after[n] = Performed(after[n - 1], s, ops[n])
  <2> HIDE DEF after, start, ops
  <2>1. ASSUME NEW n \in 0 .. last
        PROVE  after[n] = IF n = 0 THEN start ELSE Performed(after[n - 1], s, ops[n])
    BY <1>7
  <2>2. 0 \in 0 .. last /\ \A n \in 1 .. last : n \in 0 .. last /\ n # 0
    BY <1>1
  <2> HIDE DEF last
  <2> QED
    BY <2>1, <2>2
<1>10. MovesWithin(after, last, S, g)
  <2> HIDE DEF after, S, last, ops
  <2> QED
    BY <1>9 DEF MovesWithin
<1>11. \A n \in 0 .. last : after[n] \in S
  <2> HIDE DEF after, S, last, g, start
  <2> QED
    BY <1>1, <1>2, <1>3, <1>9, <1>10, IterationStays
<1>12. after \in [0 .. last -> S]
  <2> HIDE DEF S, last, start, ops
  <2>1. after = [n \in 0 .. last |-> after[n]]
    BY <1>7
  <2> HIDE DEF after
  <2> QED
    BY <1>11, <2>1
<1> QED
  <2> HIDE DEF after, S
  <2> QED
    BY <1>8, <1>9, <1>12 DEF S

LEMMA ExecutedIs ==
  ASSUME PoolInv, NEW s \in InFlight
  PROVE  Executed(s, plan[s].ops) \in ChainRecords
<1>1. PICK f \in [0 .. Len(plan[s].ops) -> ChainRecords] :
        Executed(s, plan[s].ops) = f[Len(plan[s].ops)]
  BY ExecutedUnfolds
<1>2. Len(plan[s].ops) \in 0 .. Len(plan[s].ops)
  BY PlanIs DEF PoolInv
<1> QED
  BY <1>1, <1>2

(***************************************************************************)
(* The steps of the task and of the chain                                  *)
(***************************************************************************)

\* A batch recorded.
LEMMA SuccessKeeps ==
  ASSUME PoolInv, NEW s \in InFlight, ApplySuccess(s), Release(s), UNCHANGED chainVars
  PROVE  PoolInv'
<1>1. Outcome(s) \in PoolRecords(alive, reserved, ToSet(plan[s].keys), Named(s))
  BY OutcomeIs
<1>2. /\ alive' = Outcome(s).alive /\ reserved' = Outcome(s).reserved
      /\ expired' = expired
  BY DEF ApplySuccess
<1>3. ledger' = ledger /\ minted' = minted /\ height' = height
  BY DEF chainVars
<1>4. PoolTypeOK /\ PlacesApart /\ KeysFresh
  BY DEF PoolInv
<1>5. /\ alive' \in [Keys -> Entries \cup {NoEntry}] /\ reserved' \subseteq reserved
      /\ \A k \in Keys : k \notin Named(s) /\ k \notin ToSet(plan[s].keys) =>
           alive'[k] = alive[k]
      /\ \A k \in Keys : alive'[k] # NoEntry =>
           alive[k] # NoEntry \/ k \in ToSet(plan[s].keys)
      /\ \A k \in reserved : k \notin Named(s) => k \in reserved'
  BY <1>1, <1>2 DEF PoolRecords
<1>6. PlacesApart'
  <2>1. ASSUME NEW k \in Keys, alive'[k] # NoEntry
        PROVE  k \notin reserved /\ k \notin ToSet(expired)
    BY <1>4, <1>5, <2>1 DEF PlacesApart, KeysFresh, InPool
  <2> QED
    BY <1>2, <1>4, <1>5, <2>1 DEF PlacesApart
<1>7. expired' \in Seq(Keys)
  BY <1>2, <1>4 DEF PoolTypeOK
<1>8. \A k \in Keys : k \in ToSet(expired') => k \in ToSet(expired) \/ k \in reserved
  BY <1>2
<1> QED
  BY <1>3, <1>5, <1>6, <1>7, <1>8, ReleaseKeeps

\* A batch given up.
LEMMA FailureKeeps ==
  ASSUME PoolInv, NEW s \in InFlight, ApplyFailure(s), Release(s), UNCHANGED chainVars
  PROVE  PoolInv'
<1> DEFINE ops == plan[s].ops
           back == Candidates(ops)
           named == {ops[i].key : i \in DOMAIN ops}
<1>1. /\ alive' = Unmarked(alive, named)
      /\ expired' = expired \o back /\ reserved' = reserved \ ToSet(back)
  BY DEF ApplyFailure
<1>2. ledger' = ledger /\ minted' = minted /\ height' = height
  BY DEF chainVars
<1>3. PoolTypeOK /\ PlacesApart /\ ExpiresOnce(ops)
  BY DEF PoolInv
<1>4. reserved \subseteq Keys /\ expired \in Seq(Keys) /\ NoKey \notin Keys
  BY <1>3, SimulatorAssumption DEF PoolTypeOK
<1>5. /\ back \in Seq(Keys)
      /\ \A j \in DOMAIN back : \E i \in DOMAIN ops :
           ops[i].key \in reserved /\ back[j] = ops[i].key
      /\ Once(back)
  <2>1. ops \in Seq(Ops)
    BY <1>3, PlanIs
  <2> HIDE DEF ops
  <2> QED
    BY <1>3, <1>4, <2>1, CandidatesAre
<1>6. ToSet(back) \subseteq reserved /\ ToSet(back) \subseteq Named(s)
  BY <1>4, <1>5 DEF ToSet, Named
<1>7. /\ alive' \in [Keys -> Entries \cup {NoEntry}]
      /\ \A k \in Keys : k \notin named => alive'[k] = alive[k]
      /\ \A k \in Keys : alive'[k] # NoEntry => alive[k] # NoEntry
  <2>1. /\ alive' = [k \in Keys |-> IF k \in named /\ alive[k] # NoEntry
                                    THEN [alive[k] EXCEPT !.pending = FALSE] ELSE alive[k]]
        /\ alive \in [Keys -> Entries \cup {NoEntry}]
    BY <1>1, <1>3 DEF Unmarked, PoolTypeOK
  <2>2. \A k \in Keys : alive[k] # NoEntry => [alive[k] EXCEPT !.pending = FALSE] \in Entries
    BY <2>1 DEF Entries
  <2> HIDE DEF named
  <2> QED
    BY <2>1, <2>2
<1>8. \A k \in Keys : k \in named => k \in Named(s)
  BY <1>4 DEF Named
<1> HIDE DEF named, back
<1>9. /\ expired' \in Seq(Keys) /\ Once(expired')
      /\ ToSet(expired') = ToSet(expired) \cup ToSet(back)
  BY <1>1, <1>3, <1>4, <1>5, <1>6, QueuesJoin DEF PlacesApart
<1>10. PlacesApart'
  BY <1>1, <1>3, <1>6, <1>7, <1>9 DEF PlacesApart
<1>11. reserved' \subseteq reserved /\ \A k \in reserved : k \notin Named(s) => k \in reserved'
  BY <1>1, <1>6
<1>12. /\ \A k \in Keys : k \notin Named(s) /\ k \notin ToSet(plan[s].keys) =>
            alive'[k] = alive[k]
       /\ \A k \in Keys : alive'[k] # NoEntry =>
            alive[k] # NoEntry \/ k \in ToSet(plan[s].keys)
       /\ \A k \in Keys : k \in ToSet(expired') => k \in ToSet(expired) \/ k \in reserved
  BY <1>6, <1>7, <1>8, <1>9
<1> QED
  BY <1>2, <1>7, <1>9, <1>10, <1>11, <1>12, ReleaseKeeps

\* Running a batch changes the chain, and of the batches this one.
MineMoves(s, c) ==
  /\ plan[s].status = "sent" /\ InFlight' = InFlight
  /\ \A t \in InFlight : t # s => plan'[t] = plan[t]
  /\ plan'[s].ops = plan[s].ops
  /\ plan'[s].status = IF c.ok THEN "executed" ELSE "reverted"
  /\ plan'[s].keys = [i \in 1 .. minted' - minted |-> minted + i]
  /\ ledger' = IF c.ok THEN c.ledger ELSE ledger
  /\ minted' = IF c.ok THEN c.minted ELSE minted
  /\ alive' = alive /\ expired' = expired /\ reserved' = reserved
  /\ height' = height /\ lost' = lost

\* A batch run. Its events bring keys that nobody has seen yet.
LEMMA MineKeeps ==
  ASSUME PoolInv, NEW s \in Signers, Mine(s)
  PROVE  PoolInv' /\ MineMoves(s, Executed(s, plan[s].ops))
<1> DEFINE c == Executed(s, plan[s].ops)
           status == IF c.ok THEN "executed" ELSE "reverted"
           keys == [i \in 1 .. minted' - minted |-> minted + i]
<1>1. /\ s \in InFlight /\ plan' = [plan EXCEPT ![s].status = status, ![s].keys = keys]
      /\ alive' = alive /\ expired' = expired /\ reserved' = reserved /\ height' = height
      /\ ledger' = IF c.ok THEN c.ledger ELSE ledger
      /\ minted' = IF c.ok THEN c.minted ELSE minted
  BY DEF Mine, RunBatch, poolVars, InFlight
<1>2. /\ PoolTypeOK /\ PlacesApart /\ KeysFresh /\ ReservationsExclusive
      /\ plan = [t \in Signers |-> plan[t]] /\ minted \in Nat
  BY DEF PoolInv, PoolTypeOK
<1>3. /\ ledger' \in [Keys -> ChainEntries \cup {NoEntry}]
      /\ minted' \in Nat /\ minted <= minted'
  <2>1. c \in ChainRecords
    BY <1>1, ExecutedIs
  <2>2. /\ c.ledger \in [Keys -> ChainEntries \cup {NoEntry}] /\ c.minted \in Nat
        /\ minted <= c.minted /\ ledger \in [Keys -> ChainEntries \cup {NoEntry}]
    BY <1>2, <2>1 DEF ChainRecords, PoolTypeOK
  <2> DEFINE l == c.ledger
             m == c.minted
             ok == c.ok
  <2>3. /\ ledger' = IF ok THEN l ELSE ledger
        /\ minted' = IF ok THEN m ELSE minted
    BY <1>1
  <2>4. /\ l \in [Keys -> ChainEntries \cup {NoEntry}] /\ m \in Nat
        /\ minted <= m /\ ledger \in [Keys -> ChainEntries \cup {NoEntry}]
    BY <2>2
  <2> HIDE DEF c, l, m, ok
  <2>5. ledger' \in [Keys -> ChainEntries \cup {NoEntry}]
    BY <2>3, <2>4
  <2> QED
    BY <1>2, <2>3, <2>4, <2>5
<1>4. keys \in Seq(Nat) /\ ToSet(keys) = {minted + i : i \in 1 .. minted' - minted}
  <2>1. minted' - minted \in Nat
    BY <1>2, <1>3
  <2> QED
    BY <1>2, <2>1 DEF ToSet
<1>5. \A k \in ToSet(keys) : k \in Nat /\ minted < k /\ k <= minted'
  <2> HIDE DEF keys
  <2> QED
    BY <1>2, <1>3, <1>4
<1>6. /\ plan' = [t \in Signers |-> plan'[t]]
      /\ plan'[s] = [ops |-> plan[s].ops, status |-> status, keys |-> keys]
      /\ \A t \in Signers : t # s => plan'[t] = plan[t]
  <2>1. plan[s] = [ops |-> plan[s].ops, status |-> plan[s].status, keys |-> plan[s].keys]
    BY <1>1, <1>2, PlanIs DEF Plans
  <2> HIDE DEF status, keys
  <2>2. plan'[s] = [[plan[s] EXCEPT !.status = status] EXCEPT !.keys = keys]
    BY <1>1, <1>2
  <2>3. plan'[s] = [ops |-> plan[s].ops, status |-> status, keys |-> keys]
    BY <2>1, <2>2
  <2>4. plan' = [t \in Signers |-> plan'[t]] /\ \A t \in Signers : t # s => plan'[t] = plan[t]
    BY <1>1, <1>2
  <2> QED
    BY <2>3, <2>4
<1>7. plan'[s] \in Plans
  <2>1. plan[s].ops \in Seq(Ops) /\ status \in {"sent", "executed", "reverted"}
    BY <1>1, <1>2, PlanIs
  <2> HIDE DEF status, keys
  <2> QED
    BY <1>4, <1>6, <2>1 DEF Plans
<1> HIDE DEF keys, status, c
<1>8. PoolTypeOK'
  <2>1. \A t \in Signers : plan'[t] = NoPlan \/ plan'[t] \in Plans
    BY <1>2, <1>6, <1>7 DEF PoolTypeOK
  <2> QED
    BY <1>1, <1>2, <1>3, <1>6, <2>1 DEF PoolTypeOK
<1>9. /\ InFlight' = InFlight
      /\ \A t \in InFlight : plan'[t].ops = plan[t].ops
      /\ \A t \in InFlight : t # s => plan'[t].keys = plan[t].keys
      /\ plan'[s].keys = keys
  <2>1. plan'[s] # NoPlan
    BY <1>7, SimulatorAssumption
  <2>2. \A t \in Signers : plan'[t] # NoPlan <=> plan[t] # NoPlan
    BY <1>1, <1>6, <2>1 DEF InFlight
  <2>3. InFlight' = InFlight
    BY <2>2 DEF InFlight
  <2>4. plan'[s].ops = plan[s].ops /\ plan'[s].keys = keys
    BY <1>6
  <2>5. \A t \in InFlight : t # s => plan'[t] = plan[t]
    BY <1>6 DEF InFlight
  <2> QED
    BY <2>3, <2>4, <2>5
<1>10. \A t \in InFlight' : Held(t)' /\ ExpiresOnce(plan'[t].ops)
  <2>1. ASSUME NEW t \in InFlight
        PROVE  Held(t)' /\ ExpiresOnce(plan'[t].ops)
    <3>1. Held(t) /\ ExpiresOnce(plan[t].ops) /\ plan'[t].ops = plan[t].ops
      BY <1>9 DEF PoolInv
    <3>2. Held(t)'
      <4> DEFINE all == plan[t].ops
      <4>1. \A i \in DOMAIN all :
              LET op == all[i]
              IN /\ op.kind = "CREATE" => op.key = NoKey
                 /\ op.kind = "EXPIRE" => op.key \in reserved'
                 /\ op.kind \in EntityOps =>
                      op.key \in Keys /\ alive'[op.key] # NoEntry /\ alive'[op.key].pending
                 /\ op.kind = "TRANSFER" => op.newOwner \in Signers
        BY <1>1, <3>1 DEF Held
      <4>2. plan'[t].ops = all
        BY <3>1
      <4> HIDE DEF all
      <4> QED
        BY <4>1, <4>2 DEF Held
    <3> QED
      BY <3>1, <3>2
  <2> QED
    BY <1>9, <2>1
<1>11. PlacesApart' /\ \A k : InPool(k)' <=> InPool(k)
  BY <1>1, <1>2 DEF PlacesApart, InPool
<1>12. KeysFresh'
  <2>1. ASSUME NEW k \in Keys, InPool(k)'
        PROVE  k <= minted' /\ \A t \in InFlight' : k \notin ToSet(plan'[t].keys)
    <3>1. k <= minted /\ k \in Nat /\ \A t \in InFlight : k \notin ToSet(plan[t].keys)
      BY <1>2, <1>11, <2>1 DEF KeysFresh, Keys
    <3>2. k \notin ToSet(keys)
      BY <1>2, <1>5, <3>1
    <3> QED
      BY <1>2, <1>3, <1>9, <3>1, <3>2
  <2>2. ASSUME NEW t \in InFlight, NEW k \in ToSet(plan[t].keys)
        PROVE  k \in Nat /\ k <= minted /\ k <= minted' /\ k \notin ToSet(keys)
    <3>1. k \in Nat
      <4>1. plan[t].keys \in Seq(Nat)
        BY <1>2, PlanIs
      <4> QED
        BY <2>2, <4>1 DEF ToSet
    <3>2. k <= minted
      BY <1>2, <2>2 DEF KeysFresh
    <3> QED
      BY <1>2, <1>3, <1>5, <3>1, <3>2
  <2>3. \A t \in InFlight' : \A k \in ToSet(plan'[t].keys) : k <= minted'
    BY <1>5, <1>9, <2>2
  <2>4. ASSUME NEW t \in InFlight', NEW u \in InFlight', t # u
        PROVE  ToSet(plan'[t].keys) \cap ToSet(plan'[u].keys) = {}
    <3>1. CASE t # s /\ u # s
      BY <1>2, <1>9, <2>4, <3>1 DEF KeysFresh
    <3>2. CASE t = s \/ u = s
      BY <1>9, <2>2, <2>4, <3>2
    <3> QED
      BY <3>1, <3>2
  <2> QED
    BY <2>1, <2>3, <2>4 DEF KeysFresh
<1>13. ReservationsExclusive'
  <2>1. \A t \in InFlight : Named(t)' = Named(t)
    BY <1>9 DEF Named
  <2> QED
    BY <1>2, <1>9, <2>1 DEF ReservationsExclusive
<1>14. PoolInv'
  BY <1>8, <1>10, <1>11, <1>12, <1>13 DEF PoolInv
<1>15. MineMoves(s, c)
  <2>1. plan[s].status = "sent" /\ lost' = lost
    BY DEF Mine, countVars
  <2>2. plan'[s].status = status
    BY <1>6
  <2>3. \A t \in InFlight : t # s => plan'[t] = plan[t]
    BY <1>6 DEF InFlight
  <2> QED
    BY <1>1, <1>9, <2>1, <2>2, <2>3 DEF MineMoves, status, keys
<1> QED
  BY <1>14, <1>15 DEF c

\* What concerns the chain only, and steps of nobody.
LEMMA OthersKeep ==
  ASSUME PoolInv, UNCHANGED <<poolVars, plan, ledger, minted>>, height' \in Nat \ {0}
  PROVE  PoolInv'
<1>1. /\ alive' = alive /\ expired' = expired /\ reserved' = reserved
      /\ plan' = plan /\ ledger' = ledger /\ minted' = minted
  BY DEF poolVars
<1>2. InFlight' = InFlight /\ \A s : Held(s)' <=> Held(s)
  BY <1>1 DEF InFlight, Held
<1>3. PoolTypeOK' /\ \A s \in InFlight' : Held(s)' /\ ExpiresOnce(plan'[s].ops)
  BY <1>1, <1>2 DEF PoolInv, PoolTypeOK
<1>4. PlacesApart' /\ \A k : InPool(k)' <=> InPool(k)
  BY <1>1 DEF PoolInv, PlacesApart, InPool
<1>5. KeysFresh'
  BY <1>1, <1>2, <1>4 DEF PoolInv, KeysFresh
<1>6. ReservationsExclusive'
  <2>1. \A t : Named(t)' = Named(t)
    BY <1>1 DEF Named
  <2> QED
    BY <1>2, <2>1 DEF PoolInv, ReservationsExclusive
<1> QED
  BY <1>3, <1>4, <1>5, <1>6 DEF PoolInv

(***************************************************************************)
(* Building a batch                                                        *)
(***************************************************************************)

\* An operation drawn by weight creates an entity or names one of the keys.
LEMMA FeasibleIs ==
  ASSUME PoolTypeOK, NEW s \in Signers, NEW block \in 0 .. height - 1,
         NEW keys, keys \subseteq Available(s), NEW room, NEW creates,
         NEW op \in Feasible(s, keys, block, room, creates)
  PROVE  /\ op \in Ops
         /\ \/ op.kind = "CREATE" /\ op.key = NoKey
            \/ op.kind \in EntityOps /\ op.key \in keys /\ op.key # NoKey
         /\ op.kind = "TRANSFER" => op.newOwner \in Signers
         /\ op.kind \in {"CREATE", "EXTEND"} => op.expiresAt <= height + op.btl
<1>1. block \in Nat /\ height \in Nat /\ block <= height
  BY DEF PoolTypeOK
<1>2. op \in OwnedOps(s, keys, block) \/ op \in Creates(block)
  BY DEF Feasible
<1>3. CASE op \in Creates(block)
  <2>1. PICK l \in Lifespans : op = Op("CREATE", NoKey, l, block + l, NoKey)
    BY <1>3 DEF Creates
  <2>2. l \in Nat /\ block + l \in Nat /\ block + l <= height + l
    BY <1>1, SimulatorAssumption
  <2> QED
    BY <2>1, <2>2 DEF Op, Ops, EntityOps
<1>4. CASE op \in OwnedOps(s, keys, block)
  <2>1. PICK k \in keys :
          \/ op = Op("UPDATE", k, 0, 0, NoKey) \/ op = Op("DELETE", k, 0, 0, NoKey)
          \/ \E b \in Bumps : op = Extension(block, k, b)
          \/ \E t \in Signers \ {s} : op = Op("TRANSFER", k, 0, 0, t)
    BY <1>4 DEF OwnedOps
  <2>2. k \in Keys /\ k # NoKey /\ alive[k] # NoEntry /\ alive[k] \in Entries
    BY SimulatorAssumption DEF Available, PoolTypeOK
  <2>3. CASE op = Op("UPDATE", k, 0, 0, NoKey) \/ op = Op("DELETE", k, 0, 0, NoKey)
    BY <2>2, <2>3 DEF Op, Ops, EntityOps
  <2>4. CASE \E t \in Signers \ {s} : op = Op("TRANSFER", k, 0, 0, t)
    BY <2>2, <2>4 DEF Op, Ops, EntityOps
  <2>5. CASE \E b \in Bumps : op = Extension(block, k, b)
    <3>1. PICK b \in Bumps : op = Extension(block, k, b)
      BY <2>5
    <3> DEFINE at == Larger(block + b, alive[k].expiresAt + 1)
    <3>2. b \in Nat /\ alive[k].expiresAt \in Nat
      BY <2>2, SimulatorAssumption DEF Entries
    <3>3. at \in Nat /\ at - block \in Nat /\ at <= height + (at - block)
      BY <1>1, <3>2 DEF Larger
    <3>4. op = Op("EXTEND", k, at - block, at, NoKey)
      BY <3>1 DEF Extension
    <3> HIDE DEF at
    <3> QED
      BY <2>2, <3>3, <3>4 DEF Op, Ops, EntityOps
  <2> QED
    BY <2>1, <2>3, <2>4, <2>5
<1> QED
  BY <1>2, <1>3, <1>4

\* What promote_expired and the choice of the candidates do to the queue.
LEMMA QueueTaken ==
  ASSUME PoolInv, NEW block, NEW order \in SetToSeqs(Promotable(block)),
         NEW size \in 1 .. MaxOps
  PROVE  LET queue == expired \o order
             n == IF size <= Len(queue) THEN size ELSE Len(queue)
             kept == SubSeq(queue, 1, Len(queue) - n)
             taken == Reverse(SubSeq(queue, Len(queue) - n + 1, Len(queue)))
         IN /\ n \in Nat /\ size - n \in Nat
            /\ kept \in Seq(Keys) /\ Once(kept)
            /\ taken \in Seq(Keys) /\ Once(taken)
            /\ ToSet(kept) \cap ToSet(taken) = {}
            /\ \A k : k \in ToSet(kept) \/ k \in ToSet(taken) <=>
                 k \in ToSet(expired) \/ k \in Promotable(block)
<1> DEFINE promoted == Promotable(block)
           queue == expired \o order
           n == IF size <= Len(queue) THEN size ELSE Len(queue)
<1>1. PoolTypeOK /\ PlacesApart
  BY DEF PoolInv
<1>2. promoted \subseteq Keys /\ \A k \in promoted : alive[k] # NoEntry
  BY DEF Promotable
<1>3. Cardinality(promoted) \in Nat /\ IsFiniteSet(promoted)
  <2>1. IsFiniteSet(Keys)
    BY SimulatorAssumption, FS_Interval DEF Keys
  <2> HIDE DEF promoted
  <2> QED
    BY <1>2, <2>1, FS_Subset, FS_CardinalityType
<1>4. order \in Seq(Keys) /\ Once(order) /\ ToSet(order) = promoted
  <2> DEFINE D == 1 .. Cardinality(promoted)
  <2>1. /\ order \in [D -> promoted]
        /\ \A i, j \in D : i # j => order[i] # order[j]
    BY DEF SetToSeqs
  <2> HIDE DEF promoted
  <2>2. IsFiniteSet(D) /\ Cardinality(D) = Cardinality(promoted)
    BY <1>3, FS_Interval
  <2>3. order \in Injection(D, promoted)
    BY <2>1 DEF Injection, IsInjective
  <2>4. order \in Surjection(D, promoted)
    <3> HIDE DEF D
    <3> QED
      BY <1>3, <2>2, <2>3, FS_Injection
  <2>5. order \in Seq(Keys) /\ DOMAIN order = D
    BY <1>2, <1>3, <2>1
  <2>6. Once(order) /\ ToSet(order) = promoted
    BY <2>1, <2>4, <2>5 DEF Once, ToSet, Surjection
  <2> QED
    BY <2>5, <2>6
<1>5. expired \in Seq(Keys) /\ Once(expired) /\ ToSet(expired) \cap ToSet(order) = {}
  BY <1>1, <1>2, <1>4 DEF PoolTypeOK, PlacesApart
<1>6. /\ queue \in Seq(Keys) /\ Once(queue)
      /\ ToSet(queue) = ToSet(expired) \cup ToSet(order)
  <2> HIDE DEF promoted
  <2> QED
    BY <1>4, <1>5, QueuesJoin
<1> HIDE DEF queue
<1>7. n \in 0 .. Len(queue) /\ n \in Nat /\ size - n \in Nat
  BY <1>6
<1> HIDE DEF n
<1>8. LET kept == SubSeq(queue, 1, Len(queue) - n)
          taken == Reverse(SubSeq(queue, Len(queue) - n + 1, Len(queue)))
      IN /\ kept \in Seq(Keys) /\ Once(kept) /\ ToSet(kept) \subseteq ToSet(queue)
         /\ taken \in Seq(Keys) /\ Once(taken) /\ ToSet(taken) \subseteq ToSet(queue)
         /\ ToSet(kept) \cap ToSet(taken) = {}
         /\ ToSet(queue) = ToSet(kept) \cup ToSet(taken)
  BY <1>6, <1>7, QueueSplits
<1>9. \A k : k \in ToSet(queue) <=> k \in ToSet(expired) \/ k \in promoted
  <2> HIDE DEF promoted
  <2> QED
    BY <1>4, <1>6
<1> QED
  BY <1>7, <1>8, <1>9 DEF queue, n

\* The pool after candidates have been taken. Nothing of it is what another
\* batch names.
LEMMA PoolShifts ==
  ASSUME PoolInv, NEW block, NEW kept \in Seq(Keys), NEW taken \in Seq(Keys),
         Once(kept), ToSet(kept) \cap ToSet(taken) = {},
         \A k : k \in ToSet(kept) \/ k \in ToSet(taken) =>
           k \in ToSet(expired) \/ k \in Promotable(block),
         expired' = kept, reserved' = reserved \cup ToSet(taken),
         \A k \in Keys : alive'[k] # NoEntry => alive[k] # NoEntry /\ k \notin Promotable(block),
         \A k \in Keys : alive[k] # NoEntry /\ alive[k].pending =>
           alive'[k] # NoEntry /\ alive'[k].pending
  PROVE  /\ PlacesApart' /\ reserved' \subseteq Keys
         /\ \A k \in Keys : InPool(k)' => InPool(k)
         /\ \A t \in InFlight : plan'[t] = plan[t] => Held(t)'
         /\ \A t \in InFlight : \A k \in Named(t) :
              /\ k \notin ToSet(taken)
              /\ ~(alive[k] # NoEntry /\ ~alive[k].pending)
<1>1. PoolTypeOK /\ PlacesApart /\ reserved \subseteq Keys /\ ToSet(expired) \subseteq Keys
  BY DEF PoolInv, PoolTypeOK, ToSet
<1>2. \A k : k \in Promotable(block) => k \in Keys /\ alive[k] # NoEntry /\ ~alive[k].pending
  BY DEF Promotable
<1>3. ToSet(taken) \subseteq Keys
  BY DEF ToSet
<1>4. \A k : k \in ToSet(kept) \/ k \in ToSet(taken) => k \notin reserved
  BY <1>1, <1>2 DEF PlacesApart
<1>5. PlacesApart'
  <2>1. ASSUME NEW k \in Keys, alive'[k] # NoEntry
        PROVE  k \notin reserved' /\ k \notin ToSet(kept)
    BY <1>1, <2>1 DEF PlacesApart
  <2>2. ToSet(kept) \cap reserved' = {}
    BY <1>4
  <2> QED
    BY <2>1, <2>2 DEF PlacesApart
<1>6. \A k \in Keys : InPool(k)' => InPool(k)
  BY <1>2 DEF InPool
<1>7. ASSUME NEW t \in InFlight, plan'[t] = plan[t]
      PROVE  Held(t)'
  <2>1. Held(t)
    BY DEF PoolInv
  <2> QED
    BY <1>7, <2>1 DEF Held
<1>8. ASSUME NEW t \in InFlight, NEW k \in Named(t)
      PROVE  k \notin ToSet(taken) /\ ~(alive[k] # NoEntry /\ ~alive[k].pending)
  <2>1. k \in Keys /\ (k \in reserved \/ (alive[k] # NoEntry /\ alive[k].pending))
    BY <1>8, NamedInPool
  <2>2. CASE k \in reserved
    BY <1>1, <1>4, <2>1, <2>2 DEF PlacesApart
  <2>3. CASE alive[k] # NoEntry /\ alive[k].pending
    BY <1>1, <1>2, <2>1, <2>3 DEF PlacesApart
  <2> QED
    BY <2>1, <2>2, <2>3
<1> QED
  BY <1>1, <1>3, <1>5, <1>6, <1>7, <1>8

\* What the chain will make of an operation is not less than the pool expects.
Foreseen(ops) ==
  \A i \in DOMAIN ops :
    ops[i].kind \in {"CREATE", "EXTEND"} => ops[i].expiresAt <= height + ops[i].btl

\* Building a batch takes nothing out of the pool and rewrites no entry of it.
BuildMoves(s) ==
  /\ \A k \in Keys : alive'[k] # NoEntry =>
       /\ alive[k] # NoEntry
       /\ alive'[k].owner = alive[k].owner /\ alive'[k].expiresAt = alive[k].expiresAt
  /\ \A k \in Keys : alive[k] # NoEntry /\ alive[k].pending => alive'[k] = alive[k]
  /\ reserved \subseteq reserved'
  /\ \A k \in Keys : InPool(k) => InPool(k)'
  /\ \A t \in Signers : t # s => plan'[t] = plan[t]
  /\ plan[s] = NoPlan
  /\ plan'[s] = NoPlan \/ ( /\ plan'[s].status = "sent" /\ plan'[s].keys = <<>>
                            /\ Foreseen(plan'[s].ops))

\* Building a batch reserves what no batch in flight names, for the new batch
\* or, if it is given up, for none.
Reserving(s, taken) ==
  /\ reserved' = reserved \cup taken /\ taken \cap reserved = {}
  /\ \A t \in InFlight : Named(t) \cap taken = {}
  /\ \/ plan' = plan /\ dropped' = dropped \cup taken
     \/ /\ dropped' = dropped /\ s \in InFlight'
        /\ taken \subseteq Named(s)' /\ Named(s)' \cap reserved = {}

\* A batch built, or dropped because it could not be filled.
LEMMA BuildKeeps ==
  ASSUME PoolInv, NEW s \in Signers, NEW block \in 0 .. height - 1, Build(s, block)
  PROVE  /\ PoolInv' /\ BuildMoves(s) /\ \A k \in Promotable(block) : alive'[k] = NoEntry
         /\ \E taken : Reserving(s, taken)
<1> DEFINE promoted == Promotable(block)
           left == [k \in Keys |-> IF k \in promoted THEN NoEntry ELSE alive[k]]
           keys == Available(s) \ promoted
           room == MaxAlive - (AliveCount - Cardinality(promoted))
<1>1. /\ plan[s] = NoPlan /\ ledger' = ledger /\ minted' = minted /\ height' = height
      /\ PoolTypeOK /\ KeysFresh /\ ReservationsExclusive
  BY DEF Build, chainVars, PoolInv
<1>2. PICK order \in SetToSeqs(promoted), size \in 1 .. MaxOps :
        LET queue == expired \o order
            n == IF size <= Len(queue) THEN size ELSE Len(queue)
            taken == Reverse(SubSeq(queue, Len(queue) - n + 1, Len(queue)))
        IN /\ expired' = SubSeq(queue, 1, Len(queue) - n)
           /\ reserved' = reserved \cup ToSet(taken)
           /\ \E ops \in Drawn(s, keys, block, room, size - n) :
                \/ /\ Len(ops) = size - n
                   /\ WithinBounds(ops)
                   /\ alive' = Marked(left, {ops[i].key : i \in DOMAIN ops})
                   /\ plan' = [plan EXCEPT ![s] = [ops |-> Expires(taken) \o ops,
                                                   status |-> "sent", keys |-> <<>>]]
                   /\ UNCHANGED dropped
                \/ /\ Len(ops) < size - n
                   /\ Feasible(s, keys, block, room, CountOf("CREATE", ops)) = {}
                   /\ alive' = left
                   /\ dropped' = dropped \cup ToSet(taken)
                   /\ UNCHANGED plan
  BY DEF Build
<1> DEFINE queue == expired \o order
           n == IF size <= Len(queue) THEN size ELSE Len(queue)
           kept == SubSeq(queue, 1, Len(queue) - n)
           taken == Reverse(SubSeq(queue, Len(queue) - n + 1, Len(queue)))
<1>3. /\ n \in Nat /\ size - n \in Nat
      /\ kept \in Seq(Keys) /\ Once(kept)
      /\ taken \in Seq(Keys) /\ Once(taken)
      /\ ToSet(kept) \cap ToSet(taken) = {}
      /\ \A k : k \in ToSet(kept) \/ k \in ToSet(taken) <=> k \in ToSet(expired) \/ k \in promoted
  BY <1>2, QueueTaken
<1>4. PICK ops \in Drawn(s, keys, block, room, size - n) :
        \/ /\ alive' = Marked(left, {ops[i].key : i \in DOMAIN ops})
           /\ plan' = [plan EXCEPT ![s] = [ops |-> Expires(taken) \o ops,
                                           status |-> "sent", keys |-> <<>>]]
           /\ dropped' = dropped
        \/ alive' = left /\ plan' = plan /\ dropped' = dropped \cup ToSet(taken)
  BY <1>2
<1>5. expired' = kept /\ reserved' = reserved \cup ToSet(taken)
  BY <1>2
<1> HIDE DEF queue, n, kept, taken, room
<1>6. keys \subseteq Available(s)
  OBVIOUS
<1>7. ops \in Seq(Ops)
      /\ \A i \in DOMAIN ops :
           /\ \/ ops[i].kind = "CREATE" /\ ops[i].key = NoKey
              \/ ops[i].kind \in EntityOps /\ ops[i].key \in keys /\ ops[i].key # NoKey
           /\ ops[i].kind = "TRANSFER" => ops[i].newOwner \in Signers
           /\ ops[i].kind \in {"CREATE", "EXTEND"} => ops[i].expiresAt <= height + ops[i].btl
  <2> HIDE DEF keys
  <2>1. ops \in SeqOf(Feasible(s, keys, block, room, 0), size - n)
    BY DEF Drawn
  <2>2. PICK m \in 0 .. size - n : ops \in [1 .. m -> Feasible(s, keys, block, room, 0)]
    BY <2>1 DEF SeqOf
  <2>3. m \in Nat
    BY <1>3
  <2>4. \A i \in 1 .. m :
          /\ ops[i] \in Ops
          /\ \/ ops[i].kind = "CREATE" /\ ops[i].key = NoKey
             \/ ops[i].kind \in EntityOps /\ ops[i].key \in keys /\ ops[i].key # NoKey
          /\ ops[i].kind = "TRANSFER" => ops[i].newOwner \in Signers
          /\ ops[i].kind \in {"CREATE", "EXTEND"} => ops[i].expiresAt <= height + ops[i].btl
    <3>1. ASSUME NEW i \in 1 .. m
          PROVE  ops[i] \in Feasible(s, keys, block, room, 0)
      BY <2>2
    <3> QED
      BY <1>1, <1>6, <3>1, FeasibleIs
  <2> QED
    BY <2>2, <2>3, <2>4
<1>8. /\ \A k \in keys : k \in Keys /\ alive[k] # NoEntry /\ ~alive[k].pending /\ k \notin promoted
      /\ alive \in [Keys -> Entries \cup {NoEntry}] /\ NoKey \notin Keys
  BY <1>1, SimulatorAssumption DEF Available, PoolTypeOK
<1> DEFINE named == {ops[i].key : i \in DOMAIN ops}
<1>9. /\ alive' \in [Keys -> Entries \cup {NoEntry}]
      /\ \A k \in Keys : alive'[k] # NoEntry => alive[k] # NoEntry /\ k \notin promoted
      /\ \A k \in Keys : alive[k] # NoEntry /\ alive[k].pending =>
           alive'[k] # NoEntry /\ alive'[k].pending
      /\ alive' = Marked(left, named) =>
           \A k \in keys : k \in named => alive'[k] # NoEntry /\ alive'[k].pending
  <2>1. left \in [Keys -> Entries \cup {NoEntry}]
    BY <1>8
  <2>2. \A k \in Keys : left[k] = IF k \in promoted THEN NoEntry ELSE alive[k]
    OBVIOUS
  <2>3. \A k \in Keys : k \in promoted => ~alive[k].pending
    BY DEF Promotable
  <2> HIDE DEF promoted, left, named, keys
  <2>4. \A k \in Keys : left[k] # NoEntry =>
          /\ [left[k] EXCEPT !.pending = TRUE] \in Entries
          /\ [left[k] EXCEPT !.pending = TRUE].pending
          /\ [left[k] EXCEPT !.pending = TRUE] # NoEntry
    BY <2>1, SimulatorAssumption DEF Entries
  <2>5. CASE alive' = left
    <3>1. \A k \in Keys : alive'[k] = left[k]
      BY <2>5
    <3>2. ASSUME alive' = Marked(left, named), NEW k \in keys, k \in named
          PROVE  alive'[k] # NoEntry /\ alive'[k].pending
      <4>1. k \in Keys /\ left[k] # NoEntry
        BY <1>8, <2>2
      <4>2. alive'[k] = [left[k] EXCEPT !.pending = TRUE]
        BY <3>2, <4>1 DEF Marked
      <4> QED
        BY <2>4, <4>1, <4>2
    <3> QED
      BY <2>1, <2>2, <2>3, <2>5, <3>1, <3>2
  <2>6. CASE alive' = Marked(left, named)
    <3>1. alive' = [k \in Keys |-> IF k \in named /\ left[k] # NoEntry
                                   THEN [left[k] EXCEPT !.pending = TRUE] ELSE left[k]]
      BY <2>6 DEF Marked
    <3>2. alive' \in [Keys -> Entries \cup {NoEntry}]
      BY <2>1, <2>4, <3>1
    <3>3. \A k \in Keys :
            \/ alive'[k] = left[k] /\ ~(k \in named /\ left[k] # NoEntry)
            \/ left[k] # NoEntry /\ alive'[k] # NoEntry /\ alive'[k].pending
      BY <2>4, <3>1
    <3> QED
      BY <1>8, <2>2, <2>3, <3>2, <3>3
  <2> QED
    BY <1>4, <2>5, <2>6 DEF named
<1>10. /\ \A k \in Keys : alive'[k] # NoEntry =>
            alive'[k].owner = alive[k].owner /\ alive'[k].expiresAt = alive[k].expiresAt
       /\ \A k \in Keys : alive[k] # NoEntry /\ alive[k].pending => alive'[k] = alive[k]
       /\ \A k \in Keys : alive[k] # NoEntry /\ k \notin promoted => alive'[k] # NoEntry
  <2>1. \A k \in Keys : /\ left[k] = IF k \in promoted THEN NoEntry ELSE alive[k]
                        /\ left[k] # NoEntry => left[k] \in Entries
    BY <1>8
  <2>2. \A k \in Keys : k \in promoted => ~alive[k].pending
    BY DEF Promotable
  <2>3. \A k \in Keys : k \in named => k \in keys
    BY <1>7, <1>8 DEF named
  <2> HIDE DEF promoted, left, named, keys
  <2>4. \A e \in Entries : /\ [e EXCEPT !.pending = TRUE].owner = e.owner
                           /\ [e EXCEPT !.pending = TRUE].expiresAt = e.expiresAt
                           /\ [e EXCEPT !.pending = TRUE] # NoEntry
    BY SimulatorAssumption DEF Entries
  <2>5. \A k \in Keys :
          \/ alive'[k] = left[k]
          \/ k \in named /\ left[k] # NoEntry /\ alive'[k] = [left[k] EXCEPT !.pending = TRUE]
    <3>1. CASE alive' = left
      BY <3>1
    <3>2. CASE alive' = Marked(left, named)
      BY <3>2 DEF Marked
    <3> QED
      BY <1>4, <3>1, <3>2 DEF named
  <2>6. ASSUME NEW k \in Keys, alive'[k] # NoEntry
        PROVE  alive'[k].owner = alive[k].owner /\ alive'[k].expiresAt = alive[k].expiresAt
    BY <1>9, <2>1, <2>4, <2>5, <2>6
  <2>7. ASSUME NEW k \in Keys, alive[k] # NoEntry, alive[k].pending
        PROVE  alive'[k] = alive[k]
    BY <1>8, <2>1, <2>2, <2>3, <2>5, <2>7
  <2>8. \A k \in Keys : alive[k] # NoEntry /\ k \notin promoted => alive'[k] # NoEntry
    BY <2>1, <2>4, <2>5
  <2> QED
    BY <2>6, <2>7, <2>8
<1> HIDE DEF named, left
<1>11. /\ PlacesApart' /\ reserved' \subseteq Keys
       /\ \A k \in Keys : InPool(k)' => InPool(k)
       /\ \A t \in InFlight : plan'[t] = plan[t] => Held(t)'
       /\ \A t \in InFlight : \A k \in Named(t) :
            k \notin ToSet(taken) /\ ~(alive[k] # NoEntry /\ ~alive[k].pending)
  BY <1>3, <1>5, <1>9, PoolShifts
<1> HIDE DEF keys, promoted
<1>12. ASSUME plan' = plan
       PROVE  PoolInv'
  <2>1. InFlight' = InFlight /\ \A t : Named(t)' = Named(t)
    BY <1>12 DEF InFlight, Named
  <2>2. PoolTypeOK'
    BY <1>1, <1>3, <1>5, <1>9, <1>11, <1>12 DEF PoolTypeOK
  <2>3. \A t \in InFlight' : Held(t)' /\ ExpiresOnce(plan'[t].ops)
    BY <1>11, <1>12, <2>1 DEF PoolInv
  <2>4. KeysFresh'
    BY <1>1, <1>11, <1>12, <2>1 DEF KeysFresh
  <2>5. ReservationsExclusive'
    BY <1>1, <2>1 DEF ReservationsExclusive
  <2> QED
    BY <1>11, <2>2, <2>3, <2>4, <2>5 DEF PoolInv
<1>13. ASSUME alive' = Marked(left, named),
              plan' = [plan EXCEPT ![s] = [ops |-> Expires(taken) \o ops,
                                           status |-> "sent", keys |-> <<>>]]
       PROVE  /\ PoolInv' /\ Foreseen(plan'[s].ops)
              /\ plan'[s].status = "sent" /\ plan'[s].keys = <<>>
              /\ s \in InFlight' /\ ToSet(taken) \subseteq Named(s)'
              /\ \A k \in Named(s)' : k \in ToSet(taken) \/ k \in keys
  <2> DEFINE all == Expires(taken) \o ops
             new == [ops |-> all, status |-> "sent", keys |-> <<>>]
  <2>1. /\ plan' = [t \in Signers |-> plan'[t]] /\ plan'[s] = new
        /\ \A t \in Signers : t # s => plan'[t] = plan[t]
    BY <1>1, <1>13 DEF PoolTypeOK
  <2>2. /\ Expires(taken) \in Seq(Ops) /\ Len(Expires(taken)) = Len(taken)
        /\ DOMAIN taken = 1 .. Len(taken) /\ Len(taken) \in Nat
        /\ \A i \in 1 .. Len(taken) : /\ Expires(taken)[i].kind = "EXPIRE"
                                      /\ Expires(taken)[i].key = taken[i]
    <3>1. /\ DOMAIN taken = 1 .. Len(taken) /\ Len(taken) \in Nat
          /\ \A i \in 1 .. Len(taken) : taken[i] \in Keys
      BY <1>3
    <3>2. \A k \in Keys : /\ Op("EXPIRE", k, 0, 0, NoKey) \in Ops
                          /\ Op("EXPIRE", k, 0, 0, NoKey).kind = "EXPIRE"
                          /\ Op("EXPIRE", k, 0, 0, NoKey).key = k
      BY DEF Op, Ops
    <3>3. Expires(taken) = [i \in 1 .. Len(taken) |-> Op("EXPIRE", taken[i], 0, 0, NoKey)]
      BY <3>1 DEF Expires
    <3>4. Expires(taken) \in [1 .. Len(taken) -> Ops]
      BY <3>1, <3>2, <3>3
    <3>5. Expires(taken) \in Seq(Ops) /\ Len(Expires(taken)) = Len(taken)
      BY <3>1, <3>4
    <3> QED
      BY <3>1, <3>2, <3>3, <3>5
  <2>3. /\ all \in Seq(Ops) /\ Len(all) = Len(taken) + Len(ops)
        /\ DOMAIN all = 1 .. Len(all)
        /\ \A i \in 1 .. Len(all) :
             all[i] = IF i <= Len(taken) THEN Expires(taken)[i] ELSE ops[i - Len(taken)]
    <3> DEFINE first == Expires(taken)
    <3>1. first \in Seq(Ops) /\ ops \in Seq(Ops) /\ Len(first) = Len(taken)
      BY <1>7, <2>2
    <3> HIDE DEF first
    <3>2. all = first \o ops
      BY DEF first
    <3> HIDE DEF all
    <3>3. /\ all \in Seq(Ops) /\ Len(all) = Len(first) + Len(ops)
          /\ \A i \in 1 .. Len(first) + Len(ops) :
               all[i] = IF i <= Len(first) THEN first[i] ELSE ops[i - Len(first)]
      BY <3>1, <3>2, ConcatProperties
    <3>4. DOMAIN all = 1 .. Len(all)
      BY <3>3
    <3> QED
      BY <3>1, <3>3, <3>4 DEF first
  <2>4. Len(ops) \in Nat /\ DOMAIN ops = 1 .. Len(ops)
    BY <1>7
  <2> HIDE DEF all
  <2>5. ASSUME NEW i \in DOMAIN all
        PROVE  \/ /\ i \in DOMAIN taken /\ all[i].kind = "EXPIRE" /\ all[i].key = taken[i]
               \/ /\ all[i].kind = "CREATE" /\ all[i].key = NoKey
                  /\ all[i].expiresAt <= height + all[i].btl
               \/ /\ all[i].kind \in EntityOps /\ all[i].key \in keys /\ all[i].key \in named
                  /\ all[i].kind = "TRANSFER" => all[i].newOwner \in Signers
                  /\ all[i].kind = "EXTEND" => all[i].expiresAt <= height + all[i].btl
    <3>1. CASE i <= Len(taken)
      BY <2>2, <2>3, <3>1
    <3>2. CASE ~(i <= Len(taken))
      <4>1. i \in 1 .. Len(taken) + Len(ops)
        BY <2>3
      <4>2. i - Len(taken) \in 1 .. Len(ops)
        BY <2>2, <2>4, <3>2, <4>1
      <4>3. all[i] = ops[i - Len(taken)] /\ i - Len(taken) \in DOMAIN ops
        BY <2>3, <2>4, <3>2, <4>2
      <4>4. ops[i - Len(taken)].key \in named
        BY <4>3 DEF named
      <4> QED
        BY <1>7, <4>3, <4>4
    <3> QED
      BY <3>1, <3>2
  <2>6. new \in Plans /\ new # NoPlan
    <3>1. new \in Plans
      BY <2>3, EmptySeq DEF Plans
    <3> QED
      BY <3>1, SimulatorAssumption
  <2>7. \A t : t \in InFlight' <=> t \in InFlight \/ t = s
    BY <2>1, <2>6 DEF InFlight
  <2>8. s \notin InFlight /\ \A t \in InFlight : plan'[t] = plan[t] /\ Named(t)' = Named(t)
    <3>1. s \notin InFlight
      BY <1>1 DEF InFlight
    <3>2. \A t \in InFlight : plan'[t] = plan[t]
      BY <2>1, <3>1 DEF InFlight
    <3> QED
      BY <3>1, <3>2 DEF Named
  <2>9. PoolTypeOK'
    <3>1. \A t \in Signers : plan'[t] = NoPlan \/ plan'[t] \in Plans
      BY <1>1, <2>1, <2>6 DEF PoolTypeOK
    <3> QED
      BY <1>1, <1>3, <1>5, <1>9, <1>11, <2>1, <3>1 DEF PoolTypeOK
  <2>10. Held(s)'
    <3>1. \A i \in DOMAIN taken : taken[i] \in reserved'
      BY <1>5 DEF ToSet
    <3>2. ASSUME NEW i \in DOMAIN all
          PROVE  /\ all[i].kind = "CREATE" => all[i].key = NoKey
                 /\ all[i].kind = "EXPIRE" => all[i].key \in reserved'
                 /\ all[i].kind \in EntityOps =>
                      /\ all[i].key \in Keys
                      /\ alive'[all[i].key] # NoEntry /\ alive'[all[i].key].pending
                 /\ all[i].kind = "TRANSFER" => all[i].newOwner \in Signers
      BY <1>8, <1>9, <1>13, <2>5, <3>1, <3>2 DEF EntityOps
    <3>3. plan'[s].ops = all
      BY <2>1
    <3> QED
      BY <3>2, <3>3 DEF Held
  <2>11. ExpiresOnce(all)
    <3>1. \A i \in DOMAIN all : all[i].kind = "EXPIRE" =>
            i \in DOMAIN taken /\ all[i].key = taken[i]
      BY <2>5 DEF EntityOps
    <3> QED
      BY <1>3, <3>1 DEF ExpiresOnce, Once
  <2>12. \A t \in InFlight' : Held(t)' /\ ExpiresOnce(plan'[t].ops)
    <3>1. plan'[s].ops = all
      BY <2>1
    <3>2. \A t \in InFlight : Held(t)' /\ ExpiresOnce(plan'[t].ops)
      BY <1>11, <2>8 DEF PoolInv
    <3> QED
      BY <2>7, <2>10, <2>11, <3>1, <3>2
  <2>13. plan'[s].keys = <<>> /\ ToSet(<<>>) = {}
    BY <2>1 DEF ToSet
  <2>14. KeysFresh'
    BY <1>1, <1>11, <2>7, <2>8, <2>13 DEF KeysFresh
  <2>15. \A k \in Named(s)' : k \in ToSet(taken) \/ k \in keys
    <3>1. Named(s)' = {all[i].key : i \in DOMAIN all} \ {NoKey}
      BY <2>1 DEF Named
    <3> QED
      BY <2>5, <3>1 DEF ToSet
  <2>16. \A t \in InFlight : Named(s)' \cap Named(t) = {}
    BY <1>8, <1>11, <2>15
  <2>17. ReservationsExclusive'
    <3>1. ASSUME NEW t \in InFlight', NEW u \in InFlight', t # u
          PROVE  Named(t)' \cap Named(u)' = {}
      <4>1. CASE t = s
        BY <2>7, <2>8, <2>16, <3>1, <4>1
      <4>2. CASE u = s
        BY <2>7, <2>8, <2>16, <3>1, <4>2
      <4>3. CASE t # s /\ u # s
        BY <1>1, <2>7, <2>8, <3>1, <4>3 DEF ReservationsExclusive
      <4> QED
        BY <4>1, <4>2, <4>3
    <3> QED
      BY <3>1 DEF ReservationsExclusive
  <2>18. PoolInv'
    BY <1>11, <2>9, <2>12, <2>14, <2>17 DEF PoolInv
  <2>19. Foreseen(all)
    BY <2>5 DEF Foreseen, EntityOps
  <2>20. ASSUME NEW i \in DOMAIN taken
         PROVE  taken[i] \in Named(s)'
    <3>1. i \in 1 .. Len(all) /\ i \in 1 .. Len(taken) /\ i <= Len(taken)
      BY <2>2, <2>3, <2>4
    <3>2. i \in DOMAIN all /\ all[i].key = taken[i] /\ taken[i] # NoKey
      BY <1>3, <1>8, <2>2, <2>3, <3>1
    <3> QED
      BY <2>1, <3>2 DEF Named
  <2>21. ToSet(taken) \subseteq Named(s)'
    BY <2>20 DEF ToSet
  <2> QED
    BY <2>1, <2>7, <2>15, <2>18, <2>19, <2>21
<1>14. PoolInv'
  BY <1>4, <1>12, <1>13 DEF named
<1>15. \A k \in Keys : InPool(k) => InPool(k)'
  <2>1. \A k \in Keys : k \in ToSet(expired) \/ k \in promoted =>
                         k \in ToSet(expired') \/ k \in reserved'
    BY <1>3, <1>5
  <2> QED
    BY <1>5, <1>10, <2>1 DEF InPool
<1>16. plan'[s] = NoPlan \/ ( /\ plan'[s].status = "sent" /\ plan'[s].keys = <<>>
                              /\ Foreseen(plan'[s].ops))
  BY <1>1, <1>4, <1>13 DEF named
<1>17. \A t \in Signers : t # s => plan'[t] = plan[t]
  BY <1>1, <1>4 DEF PoolTypeOK
<1>18. \A k \in Promotable(block) : alive'[k] = NoEntry
  BY <1>9 DEF Promotable, promoted
<1>19. Reserving(s, ToSet(taken))
  <2>1. /\ \A k \in keys : k \notin reserved
        /\ ToSet(expired) \cap reserved = {} /\ promoted \cap reserved = {}
    BY <1>8 DEF PoolInv, PlacesApart, Promotable, promoted
  <2>2. ToSet(taken) \cap reserved = {}
    BY <1>3, <2>1
  <2>3. \A t \in InFlight : Named(t) \cap ToSet(taken) = {}
    BY <1>11
  <2>4. CASE plan' = plan /\ dropped' = dropped \cup ToSet(taken)
    BY <1>5, <2>2, <2>3, <2>4 DEF Reserving
  <2>5. CASE /\ alive' = Marked(left, named) /\ dropped' = dropped
             /\ plan' = [plan EXCEPT ![s] = [ops |-> Expires(taken) \o ops,
                                             status |-> "sent", keys |-> <<>>]]
    BY <1>5, <1>13, <2>1, <2>2, <2>3, <2>5 DEF Reserving
  <2> QED
    BY <1>4, <2>4, <2>5 DEF named
<1> QED
  BY <1>1, <1>5, <1>9, <1>10, <1>14, <1>15, <1>16, <1>17, <1>18, <1>19 DEF BuildMoves

(***************************************************************************)
(* Every behaviour                                                         *)
(***************************************************************************)

LEMMA PoolInit == Init => PoolInv
<1> SUFFICES ASSUME Init PROVE PoolInv
  OBVIOUS
<1>1. /\ alive = [k \in Keys |-> NoEntry] /\ expired = <<>> /\ reserved = {}
      /\ plan = [s \in Signers |-> NoPlan] /\ ledger = [k \in Keys |-> NoEntry]
      /\ minted = 0 /\ height = 1
  BY DEF Init
<1>2. PoolTypeOK /\ InFlight = {}
  BY <1>1 DEF PoolTypeOK, InFlight
<1>3. PlacesApart /\ \A k \in Keys : ~InPool(k)
  BY <1>1 DEF PlacesApart, InPool, Once, ToSet
<1> QED
  BY <1>2, <1>3 DEF PoolInv, KeysFresh, ReservationsExclusive

LEMMA PoolStep == PoolInv /\ [Next]_vars => PoolInv'
<1> SUFFICES ASSUME PoolInv, [Next]_vars PROVE PoolInv'
  OBVIOUS
<1>1. height \in Nat \ {0}
  BY DEF PoolInv, PoolTypeOK
<1>2. CASE NewBlock
  BY <1>1, <1>2, OthersKeep DEF NewBlock
<1>3. ASSUME NEW s \in Signers, NEW block \in 0 .. height - 1, Build(s, block)
      PROVE  PoolInv'
  BY <1>3, BuildKeeps
<1>4. ASSUME NEW s \in Signers, SendFails(s) \/ ReceiptLost(s)
      PROVE  PoolInv'
  BY <1>4, FailureKeeps DEF SendFails, ReceiptLost, InFlight
<1>5. ASSUME NEW s \in Signers, ReceiptArrives(s)
      PROVE  PoolInv'
  BY <1>5, SuccessKeeps, FailureKeeps DEF ReceiptArrives, InFlight
<1>6. ASSUME NEW s \in Signers, Mine(s)
      PROVE  PoolInv'
  BY <1>6, MineKeeps
<1>7. CASE UNCHANGED vars
  BY <1>1, <1>7, OthersKeep DEF vars, chainVars
<1> QED
  BY <1>2, <1>3, <1>4, <1>5, <1>6, <1>7 DEF Next

LEMMA PoolInvariant == Spec => []PoolInv
BY PoolInit, PoolStep, PTL DEF Spec

\* No two batches in flight ever name the same entity: what a batch targets
\* is pending and what it expires is taken out of the queue until its receipt
\* or its failure gives it back (build_batch, promote_expired, apply_success
\* and apply_failure), however many signers there are, whatever block number
\* they use and whichever receipts are lost.
THEOREM BatchesStayApart == Spec => []ReservationsExclusive
BY PoolInvariant, PTL DEF PoolInv

(***************************************************************************)
(* The mirror of the chain                                                 *)
(***************************************************************************)

\* What one operation recorded makes of the entry of a key.
EntryAfter(s, p, op, k) ==
  IF op.kind = "CREATE" /\ p.keys # <<>> /\ k = Head(p.keys)
  THEN [owner |-> s, expiresAt |-> op.expiresAt, pending |-> FALSE]
  ELSE IF op.kind = "DELETE" /\ k = op.key THEN NoEntry
  ELSE IF op.kind \in {"UPDATE", "EXTEND", "TRANSFER"} /\ k = op.key /\ p.alive[k] # NoEntry
  THEN [owner |-> IF op.kind = "TRANSFER" THEN op.newOwner ELSE p.alive[k].owner,
        expiresAt |-> IF op.kind = "EXTEND" THEN op.expiresAt ELSE p.alive[k].expiresAt,
        pending |-> FALSE]
  ELSE p.alive[k]

\* after is p with one operation recorded.
Recorded(s, p, op, after) ==
  /\ \A k \in Keys : after.alive[k] = EntryAfter(s, p, op, k)
  /\ after.reserved = IF op.kind = "EXPIRE" THEN p.reserved \ {op.key} ELSE p.reserved
  /\ after.keys = IF op.kind = "CREATE" /\ p.keys # <<>> THEN Tail(p.keys) ELSE p.keys

LEMMA AfterSuccessIs ==
  ASSUME NEW s, NEW from, NEW held, NEW keys, NEW named,
         NEW p \in PoolRecords(from, held, keys, named),
         NEW op, Recordable(op, named)
  PROVE  Recorded(s, p, op, AfterSuccess(s, p, op))
<1> DEFINE after == AfterSuccess(s, p, op)
<1>1. /\ p = [alive |-> p.alive, reserved |-> p.reserved, keys |-> p.keys]
      /\ p.alive = [k \in Keys |-> p.alive[k]]
  BY DEF PoolRecords
<1>2. /\ op.kind \in {"CREATE", "EXPIRE", "UPDATE", "EXTEND", "TRANSFER", "DELETE"}
      /\ op.kind \in EntityOps => op.key \in Keys
  BY DEF Recordable, Ops
<1>3. CASE op.kind = "CREATE"
  <2>1. CASE p.keys = <<>>
    BY <1>3, <2>1 DEF AfterSuccess, EntryAfter, Recorded
  <2>2. CASE p.keys # <<>>
    <3> DEFINE e == [owner |-> s, expiresAt |-> op.expiresAt, pending |-> FALSE]
               h == Head(p.keys)
               l == [p.alive EXCEPT ![h] = e]
    <3>1. after = [alive |-> l, reserved |-> p.reserved, keys |-> Tail(p.keys)]
      BY <1>1, <1>3, <2>2 DEF AfterSuccess
    <3>2. \A k \in Keys : l[k] = IF k = h THEN e ELSE p.alive[k]
      <4> HIDE DEF e, h
      <4> QED
        BY <1>1
    <3>3. \A k \in Keys : l[k] = EntryAfter(s, p, op, k)
      <4> HIDE DEF l
      <4> QED
        BY <1>3, <2>2, <3>2 DEF EntryAfter
    <3> HIDE DEF l, after
    <3> QED
      BY <1>3, <2>2, <3>1, <3>3 DEF after, Recorded
  <2> QED
    BY <2>1, <2>2
<1>4. CASE op.kind = "EXPIRE"
  BY <1>1, <1>4 DEF AfterSuccess, EntryAfter, Recorded
<1>5. CASE op.kind = "DELETE"
  BY <1>1, <1>5 DEF AfterSuccess, EntryAfter, Recorded
<1>6. CASE op.kind \in {"UPDATE", "EXTEND", "TRANSFER"}
  <2>1. after = Freed(p, op) /\ op.key \in Keys
    BY <1>2, <1>6 DEF AfterSuccess, EntityOps
  <2>2. CASE p.alive[op.key] = NoEntry
    BY <1>6, <2>1, <2>2 DEF Freed, EntryAfter, Recorded
  <2>3. CASE p.alive[op.key] # NoEntry
    <3> DEFINE old == p.alive[op.key]
               e == [owner |-> IF op.kind = "TRANSFER" THEN op.newOwner ELSE old.owner,
                     expiresAt |-> IF op.kind = "EXTEND" THEN op.expiresAt ELSE old.expiresAt,
                     pending |-> FALSE]
               l == [p.alive EXCEPT ![op.key] = e]
    <3>1. after = [alive |-> l, reserved |-> p.reserved, keys |-> p.keys]
      BY <1>1, <2>1, <2>3 DEF Freed
    <3>2. \A k \in Keys : l[k] = IF k = op.key THEN e ELSE p.alive[k]
      <4> HIDE DEF e
      <4> QED
        BY <1>1
    <3>3. \A k \in Keys : l[k] = EntryAfter(s, p, op, k)
      <4> HIDE DEF l
      <4> QED
        BY <1>6, <2>3, <3>2 DEF EntryAfter
    <3> HIDE DEF l, after
    <3> QED
      BY <1>6, <3>1, <3>3 DEF after, Recorded
  <2> QED
    BY <2>2, <2>3
<1> QED
  BY <1>2, <1>3, <1>4, <1>5, <1>6

\* Two pools that are the same where a batch looks.
SameOn(p, q, touched) ==
  /\ p.keys = q.keys
  /\ \A k \in Keys : k \in touched =>
       p.alive[k] = q.alive[k] /\ (k \in p.reserved <=> k \in q.reserved)

LEMMA AfterSuccessLocal ==
  ASSUME NEW s, NEW keys, NEW named, NEW from1, NEW held1, NEW from2, NEW held2,
         NEW p \in PoolRecords(from1, held1, keys, named),
         NEW q \in PoolRecords(from2, held2, keys, named),
         SameOn(p, q, named \cup keys), NEW op, Recordable(op, named)
  PROVE  SameOn(AfterSuccess(s, p, op), AfterSuccess(s, q, op), named \cup keys)
<1> DEFINE a == AfterSuccess(s, p, op)
           b == AfterSuccess(s, q, op)
<1>1. Recorded(s, p, op, a) /\ Recorded(s, q, op, b)
  BY AfterSuccessIs
<1> HIDE DEF a, b
<1>2. /\ \A k \in Keys : a.alive[k] = EntryAfter(s, p, op, k) /\ b.alive[k] = EntryAfter(s, q, op, k)
      /\ a.reserved = IF op.kind = "EXPIRE" THEN p.reserved \ {op.key} ELSE p.reserved
      /\ b.reserved = IF op.kind = "EXPIRE" THEN q.reserved \ {op.key} ELSE q.reserved
      /\ a.keys = IF op.kind = "CREATE" /\ p.keys # <<>> THEN Tail(p.keys) ELSE p.keys
      /\ b.keys = IF op.kind = "CREATE" /\ q.keys # <<>> THEN Tail(q.keys) ELSE q.keys
  BY <1>1 DEF Recorded
<1>3. a.keys = b.keys
  BY <1>1, <1>2 DEF SameOn
<1>4. ASSUME NEW k \in Keys, k \in named \cup keys
      PROVE  a.alive[k] = b.alive[k] /\ (k \in a.reserved <=> k \in b.reserved)
  <2>1. p.keys = q.keys /\ p.alive[k] = q.alive[k] /\ (k \in p.reserved <=> k \in q.reserved)
    BY <1>4 DEF SameOn
  <2>2. EntryAfter(s, p, op, k) = EntryAfter(s, q, op, k)
    BY <2>1 DEF EntryAfter
  <2> QED
    BY <1>1, <1>2, <2>1, <2>2
<1>5. SameOn(a, b, named \cup keys)
  BY <1>3, <1>4 DEF SameOn
<1> QED
  BY <1>5 DEF a, b

\* What is recorded depends only on what the batch touches.
LEMMA MirroredLocal ==
  ASSUME NEW s \in Signers, NEW keys, NEW named,
         NEW from1, NEW held1, held1 \subseteq Keys, NEW from2, NEW held2, held2 \subseteq Keys,
         NEW p \in PoolRecords(from1, held1, keys, named),
         NEW q \in PoolRecords(from2, held2, keys, named),
         SameOn(p, q, named \cup keys), NEW ops, AllRecordable(ops, named)
  PROVE  SameOn(Mirrored(s, p, ops), Mirrored(s, q, ops), named \cup keys)
<1> DEFINE last == Len(ops)
<1>1. last \in Nat /\ \A n \in 1 .. last : Recordable(ops[n], named)
  BY DEF AllRecordable
<1>2. /\ \E f \in [0 .. last -> PoolRecords(from1, held1, keys, named)] :
           Records(f, s, p, ops) /\ Mirrored(s, p, ops) = f[last]
      /\ \E f \in [0 .. last -> PoolRecords(from2, held2, keys, named)] :
           Records(f, s, q, ops) /\ Mirrored(s, q, ops) = f[last]
  BY MirroredUnfolds
<1>3. PICK f \in [0 .. last -> PoolRecords(from1, held1, keys, named)],
           h \in [0 .. last -> PoolRecords(from2, held2, keys, named)] :
        /\ f[0] = p /\ h[0] = q
        /\ \A n \in 1 .. last : f[n] = AfterSuccess(s, f[n - 1], ops[n])
        /\ \A n \in 1 .. last : h[n] = AfterSuccess(s, h[n - 1], ops[n])
        /\ Mirrored(s, p, ops) = f[last] /\ Mirrored(s, q, ops) = h[last]
  BY <1>2 DEF Records
<1> HIDE DEF last
<1> DEFINE Differ == {n \in 0 .. last : ~SameOn(f[n], h[n], named \cup keys)}
<1>4. ASSUME Differ # {} PROVE FALSE
  <2>1. PICK m \in Differ : m \in Nat /\ \A k \in Differ : m <= k
    <3>1. Differ \subseteq Nat
      OBVIOUS
    <3> HIDE DEF Differ
    <3> QED
      BY <1>4, <3>1, Smallest
  <2>2. m # 0
    BY <1>3
  <2>3. m \in 1 .. last /\ m - 1 \in 0 .. last /\ ~(m <= m - 1)
    BY <1>1, <2>2
  <2>4. SameOn(f[m - 1], h[m - 1], named \cup keys)
    BY <2>1, <2>3
  <2>5. /\ f[m - 1] \in PoolRecords(from1, held1, keys, named)
        /\ h[m - 1] \in PoolRecords(from2, held2, keys, named)
    BY <1>3, <2>3
  <2>6. SameOn(AfterSuccess(s, f[m - 1], ops[m]), AfterSuccess(s, h[m - 1], ops[m]),
               named \cup keys)
    BY <1>1, <2>3, <2>4, <2>5, AfterSuccessLocal
  <2>7. SameOn(f[m], h[m], named \cup keys)
    BY <1>3, <2>3, <2>6
  <2> QED
    BY <2>1, <2>7
<1>5. SameOn(f[last], h[last], named \cup keys)
  <2>1. last \in 0 .. last
    BY <1>1
  <2> QED
    BY <1>4, <2>1
<1> QED
  BY <1>3, <1>5 DEF last

\* What one operation run makes of an entity on the chain.
LedgerAfter(s, c, op, k) ==
  IF op.kind = "CREATE" /\ k = c.minted + 1 THEN [owner |-> s, expiresAt |-> height + op.btl]
  ELSE IF op.kind \in {"DELETE", "EXPIRE"} /\ k = op.key THEN NoEntry
  ELSE IF op.kind = "EXTEND" /\ k = op.key
  THEN [owner |-> c.ledger[k].owner, expiresAt |-> height + op.btl]
  ELSE IF op.kind = "TRANSFER" /\ k = op.key
  THEN [owner |-> op.newOwner, expiresAt |-> c.ledger[k].expiresAt]
  ELSE c.ledger[k]

\* after is c with one operation run.
RunOn(s, c, op, after) ==
  /\ \A k \in Keys : after.ledger[k] = LedgerAfter(s, c, op, k)
  /\ after.minted = IF op.kind = "CREATE" THEN c.minted + 1 ELSE c.minted

LEMMA EffectIs ==
  ASSUME PoolInv, NEW s \in InFlight, NEW c \in ChainRecords, NEW i \in DOMAIN plan[s].ops,
         Accepted(c, s, plan[s].ops[i])
  PROVE  /\ RunOn(s, c, plan[s].ops[i], Effect(c, s, plan[s].ops[i]))
         /\ Effect(c, s, plan[s].ops[i]).ok = c.ok
<1> DEFINE op == plan[s].ops[i]
           after == Effect(c, s, op)
<1>1. /\ op.kind \in {"CREATE", "EXPIRE", "UPDATE", "EXTEND", "TRANSFER", "DELETE"}
      /\ op.kind \in EntityOps => op.key \in Keys
  BY PlanIs DEF PoolInv, Ops, Held
<1>2. /\ c = [ledger |-> c.ledger, minted |-> c.minted, ok |-> c.ok]
      /\ c.ledger = [k \in Keys |-> c.ledger[k]]
      /\ \A k \in Keys : c.ledger[k] # NoEntry => c.ledger[k] \in ChainEntries
  BY DEF ChainRecords
<1> SUFFICES RunOn(s, c, op, after) /\ after.ok = c.ok
  BY DEF op, after
<1> HIDE DEF op
<1>3. CASE op.kind = "CREATE"
  <2> DEFINE e == [owner |-> s, expiresAt |-> height + op.btl]
             l == [c.ledger EXCEPT ![c.minted + 1] = e]
  <2>1. after = [ledger |-> l, minted |-> c.minted + 1, ok |-> c.ok]
    BY <1>2, <1>3 DEF Effect
  <2>2. \A k \in Keys : l[k] = IF k = c.minted + 1 THEN e ELSE c.ledger[k]
    <3> HIDE DEF e
    <3> QED
      BY <1>2
  <2> HIDE DEF l, after
  <2>3. \A k \in Keys : l[k] = LedgerAfter(s, c, op, k)
    BY <1>3, <2>2 DEF LedgerAfter
  <2> QED
    BY <1>3, <2>1, <2>3 DEF RunOn
<1>4. CASE op.kind = "UPDATE"
  <2>1. after = [ledger |-> c.ledger, minted |-> c.minted, ok |-> c.ok]
    BY <1>2, <1>4 DEF Effect
  <2>2. \A k \in Keys : c.ledger[k] = LedgerAfter(s, c, op, k)
    BY <1>4 DEF LedgerAfter
  <2> HIDE DEF after
  <2> QED
    BY <1>4, <2>1, <2>2 DEF RunOn
<1>5. CASE op.kind \in {"DELETE", "EXPIRE"}
  <2> DEFINE l == [c.ledger EXCEPT ![op.key] = NoEntry]
  <2>1. after = [ledger |-> l, minted |-> c.minted, ok |-> c.ok]
    BY <1>2, <1>5 DEF Effect
  <2>2. \A k \in Keys : l[k] = IF k = op.key THEN NoEntry ELSE c.ledger[k]
    BY <1>2
  <2> HIDE DEF l, after
  <2>3. \A k \in Keys : l[k] = LedgerAfter(s, c, op, k)
    BY <1>5, <2>2 DEF LedgerAfter
  <2> QED
    BY <1>5, <2>1, <2>3 DEF RunOn
<1>6. CASE op.kind \in {"EXTEND", "TRANSFER"}
  <2>1. op.key \in Keys /\ c.ledger[op.key] # NoEntry
    BY <1>1, <1>6 DEF Accepted, Managed, EntityOps, op
  <2> DEFINE old == c.ledger[op.key]
             e == IF op.kind = "EXTEND"
                  THEN [owner |-> old.owner, expiresAt |-> height + op.btl]
                  ELSE [owner |-> op.newOwner, expiresAt |-> old.expiresAt]
             l == [c.ledger EXCEPT ![op.key] = e]
  <2>2. old = [owner |-> old.owner, expiresAt |-> old.expiresAt]
    BY <1>2, <2>1 DEF ChainEntries
  <2>3. after = [ledger |-> l, minted |-> c.minted, ok |-> c.ok]
    <3>1. CASE op.kind = "EXTEND"
      <4>1. after = [c EXCEPT !.ledger = [c.ledger EXCEPT ![op.key] =
                       [old EXCEPT !.expiresAt = height + op.btl]]]
        BY <3>1 DEF Effect
      <4>2. [old EXCEPT !.expiresAt = height + op.btl] = e
        BY <2>2, <3>1
      <4> HIDE DEF e, old, after
      <4> QED
        BY <1>2, <4>1, <4>2
    <3>2. CASE op.kind = "TRANSFER"
      <4>1. after = [c EXCEPT !.ledger = [c.ledger EXCEPT ![op.key] =
                       [old EXCEPT !.owner = op.newOwner]]]
        BY <3>2 DEF Effect
      <4>2. [old EXCEPT !.owner = op.newOwner] = e
        BY <2>2, <3>2
      <4> HIDE DEF e, old, after
      <4> QED
        BY <1>2, <4>1, <4>2
    <3> QED
      BY <1>6, <3>1, <3>2
  <2>4. \A k \in Keys : l[k] = IF k = op.key THEN e ELSE c.ledger[k]
    <3> HIDE DEF e
    <3> QED
      BY <1>2
  <2> HIDE DEF l, after
  <2>5. \A k \in Keys : l[k] = LedgerAfter(s, c, op, k)
    BY <1>6, <2>4 DEF LedgerAfter
  <2> QED
    BY <1>6, <2>3, <2>5 DEF RunOn
<1> QED
  BY <1>1, <1>3, <1>4, <1>5, <1>6

\* An operation that leaves a batch valid has been accepted; keys are only
\* ever given out.
LEMMA PerformedIs ==
  ASSUME PoolInv, NEW s \in InFlight, NEW c \in ChainRecords, NEW i \in DOMAIN plan[s].ops
  PROVE  LET after == Performed(c, s, plan[s].ops[i])
         IN /\ c.minted <= after.minted
            /\ after.ok => /\ c.ok /\ Accepted(c, s, plan[s].ops[i])
                           /\ RunOn(s, c, plan[s].ops[i], after)
<1> DEFINE op == plan[s].ops[i]
           after == Performed(c, s, op)
<1>1. /\ c = [ledger |-> c.ledger, minted |-> c.minted, ok |-> c.ok]
      /\ c.minted \in Nat /\ c.ok \in BOOLEAN
  BY DEF ChainRecords
<1> HIDE DEF op
<1>2. CASE c.ok /\ Accepted(c, s, op)
  <2>1. after = Effect(c, s, op)
    BY <1>2 DEF Performed
  <2>2. RunOn(s, c, op, Effect(c, s, op))
    BY <1>2, EffectIs DEF op
  <2> HIDE DEF after
  <2>3. after.minted = IF op.kind = "CREATE" THEN c.minted + 1 ELSE c.minted
    BY <2>1, <2>2 DEF RunOn
  <2>4. c.minted <= after.minted
    BY <1>1, <2>3
  <2> QED
    BY <1>2, <2>1, <2>2, <2>4 DEF op, after
<1>3. CASE ~(c.ok /\ Accepted(c, s, op))
  <2>1. after = [ledger |-> c.ledger, minted |-> c.minted, ok |-> FALSE]
    BY <1>1, <1>3 DEF Performed
  <2> HIDE DEF after
  <2>2. ~after.ok /\ c.minted <= after.minted
    BY <1>1, <2>1
  <2> QED
    BY <2>2 DEF op, after
<1> QED
  BY <1>2, <1>3

\* An entry of the pool says what the chain says, or that less time is left.
Agrees(e, l) == l # NoEntry /\ l.owner = e.owner /\ l.expiresAt >= e.expiresAt

\* An entry of the pool is right, and an entity of the chain is in the pool.
Matched(e, isReserved, l) ==
  /\ e # NoEntry => Agrees(e, l)
  /\ l # NoEntry => e # NoEntry \/ isReserved

\* A batch of which some operations have run on the chain, and been recorded
\* in the pool; the whole batch will have minted keys up to total.
Synced(s, c, p, total) ==
  /\ minted <= c.minted
  /\ p.keys = [j \in 1 .. total - c.minted |-> c.minted + j]
  /\ \A k \in Keys : k \in Named(s) \/ k > minted =>
       Matched(p.alive[k], k \in p.reserved, c.ledger[k])
  /\ \A k \in Keys : k \notin Named(s) /\ k <= minted => c.ledger[k] = ledger[k]
  /\ \A k \in Keys : k > c.minted => c.ledger[k] = NoEntry

\* One operation of a batch, as the chain and the pool see it.
OpOf(s, op) ==
  /\ op \in Ops
  /\ op.kind = "CREATE" => op.key = NoKey
  /\ op.kind = "EXPIRE" => /\ op.key \in Keys /\ op.key \in Named(s)
                           /\ alive[op.key] = NoEntry /\ op.key <= minted
  /\ op.kind \in EntityOps => op.key \in Keys /\ op.key \in Named(s)
  /\ op.kind = "TRANSFER" => op.newOwner \in Signers
  /\ op.kind \in {"CREATE", "EXTEND"} => op.expiresAt <= height + op.btl

LEMMA OpOfBatch ==
  ASSUME PoolInv, NEW s \in InFlight, Foreseen(plan[s].ops), NEW i \in DOMAIN plan[s].ops
  PROVE  OpOf(s, plan[s].ops[i])
<1>1. /\ PoolTypeOK /\ Held(s) /\ PlacesApart /\ reserved \subseteq Keys
      /\ NoKey \notin Keys
  BY SimulatorAssumption DEF PoolInv, PoolTypeOK
<1>2. /\ plan[s].ops[i] \in Ops
      /\ plan[s].ops[i].key # NoKey =>
           plan[s].ops[i].key \in Named(s) /\ plan[s].ops[i].key \in Keys
  BY <1>1, PlanIs
<1>3. /\ plan[s].ops[i].kind = "CREATE" => plan[s].ops[i].key = NoKey
      /\ plan[s].ops[i].kind = "EXPIRE" => plan[s].ops[i].key \in reserved
      /\ plan[s].ops[i].kind \in EntityOps => plan[s].ops[i].key \in Keys
      /\ plan[s].ops[i].kind = "TRANSFER" => plan[s].ops[i].newOwner \in Signers
  BY <1>1 DEF Held
<1>4. plan[s].ops[i].kind = "EXPIRE" =>
        alive[plan[s].ops[i].key] = NoEntry /\ plan[s].ops[i].key <= minted
  <2>1. \A k \in reserved : k \in Keys /\ alive[k] = NoEntry /\ k <= minted
    BY <1>1 DEF PoolInv, PlacesApart, KeysFresh, InPool
  <2> QED
    BY <1>3, <2>1
<1>5. plan[s].ops[i].kind \in {"CREATE", "EXTEND"} =>
        plan[s].ops[i].expiresAt <= height + plan[s].ops[i].btl
  BY DEF Foreseen
<1> QED
  BY <1>1, <1>2, <1>3, <1>4, <1>5 DEF OpOf

\* Consecutive keys, the first of which is used up.
LEMMA FirstUsed ==
  ASSUME NEW a \in Nat, NEW b \in Nat, a + 1 <= b, NEW ks, ks = [j \in 1 .. b - a |-> a + j]
  PROVE  /\ ks # <<>> /\ Head(ks) = a + 1
         /\ Tail(ks) = [j \in 1 .. b - (a + 1) |-> a + 1 + j]
<1>1. b - a \in Nat /\ 1 \in 1 .. b - a /\ \A j \in 1 .. b - a : a + j \in Nat
  OBVIOUS
<1>2. ks \in [1 .. b - a -> Nat]
  BY <1>1
<1>3. ks \in Seq(Nat) /\ Len(ks) = b - a /\ ks[1] = a + 1
  BY <1>1, <1>2
<1>4. ks # <<>>
  BY <1>1, <1>3
<1>5. /\ Head(ks) = ks[1] /\ Tail(ks) \in Seq(Nat) /\ Len(Tail(ks)) = Len(ks) - 1
      /\ \A j \in 1 .. Len(Tail(ks)) : Tail(ks)[j] = ks[j + 1]
  <2>1. /\ Tail(ks) \in Seq(Nat) /\ Len(Tail(ks)) = Len(ks) - 1
        /\ \A j \in 1 .. Len(Tail(ks)) : Tail(ks)[j] = ks[j + 1]
    BY <1>3, <1>4, HeadTailProperties
  <2>2. Head(ks) = ks[1]
    BY <1>3, <1>4
  <2> QED
    BY <2>1, <2>2
<1>6. Tail(ks) = [j \in 1 .. b - (a + 1) |-> Tail(ks)[j]]
  <2>1. Len(Tail(ks)) = b - (a + 1)
    BY <1>3, <1>5
  <2> QED
    BY <1>5, <2>1
<1>7. \A j \in 1 .. b - (a + 1) : Tail(ks)[j] = a + 1 + j
  BY <1>3, <1>5
<1> QED
  BY <1>3, <1>4, <1>5, <1>6, <1>7

\* Where an operation does not look nothing changes; where it looks, the pool
\* follows the chain.
LEMMA SyncStep ==
  ASSUME PoolInv, NEW s \in Signers, NEW op, OpOf(s, op),
         NEW keys, \A k \in Keys : k \in keys => k > minted,
         NEW c \in ChainRecords, NEW p \in PoolRecords(alive, reserved, keys, Named(s)),
         NEW total \in Nat, Synced(s, c, p, total), Accepted(c, s, op),
         NEW d, RunOn(s, c, op, d), d.minted <= total, NEW q, Recorded(s, p, op, q)
  PROVE  Synced(s, d, q, total)
<1>1. /\ PoolTypeOK /\ minted \in Nat /\ height \in Nat
      /\ \A k \in Keys : k \in Nat /\ (alive[k] # NoEntry => k <= minted)
  BY DEF PoolInv, PoolTypeOK, KeysFresh, InPool, Keys
<1>2. /\ c.minted \in Nat /\ minted <= c.minted
      /\ p.keys = [j \in 1 .. total - c.minted |-> c.minted + j]
      /\ \A k \in Keys : k \in Named(s) \/ k > minted =>
           Matched(p.alive[k], k \in p.reserved, c.ledger[k])
      /\ \A k \in Keys : k \notin Named(s) /\ k <= minted => c.ledger[k] = ledger[k]
      /\ \A k \in Keys : k > c.minted => c.ledger[k] = NoEntry
  BY DEF Synced, ChainRecords
<1>3. /\ \A k \in Keys : d.ledger[k] = LedgerAfter(s, c, op, k)
      /\ d.minted = IF op.kind = "CREATE" THEN c.minted + 1 ELSE c.minted
      /\ \A k \in Keys : q.alive[k] = EntryAfter(s, p, op, k)
      /\ q.reserved = IF op.kind = "EXPIRE" THEN p.reserved \ {op.key} ELSE p.reserved
      /\ q.keys = IF op.kind = "CREATE" /\ p.keys # <<>> THEN Tail(p.keys) ELSE p.keys
  BY DEF RunOn, Recorded
<1>4. /\ \A k \in Keys : p.alive[k] # NoEntry => p.alive[k] \in Entries
      /\ \A k \in Keys : p.alive[k] # NoEntry => alive[k] # NoEntry \/ k \in keys
      /\ \A k \in Keys : c.ledger[k] # NoEntry => c.ledger[k] \in ChainEntries
  BY DEF PoolRecords, ChainRecords
<1>5. /\ op.kind \in {"CREATE", "EXPIRE", "UPDATE", "EXTEND", "TRANSFER", "DELETE"}
      /\ op.expiresAt \in Nat /\ op.btl \in Nat
      /\ op.kind = "CREATE" => op.key = NoKey
      /\ op.kind # "CREATE" => op.key \in Keys /\ op.key \in Named(s)
      /\ op.kind = "EXPIRE" => p.alive[op.key] = NoEntry
      /\ op.kind = "TRANSFER" => op.newOwner \in Signers
      /\ op.kind \in {"CREATE", "EXTEND"} => op.expiresAt <= height + op.btl
      /\ op.kind \in {"EXTEND", "TRANSFER"} => c.ledger[op.key] # NoEntry
  <2>1. /\ op.kind \in EntityOps \cup {"CREATE", "EXPIRE"}
        /\ op.expiresAt \in Nat /\ op.btl \in Nat
    BY DEF OpOf, Ops, EntityOps
  <2>2. op.kind \in {"EXTEND", "TRANSFER"} => c.ledger[op.key] # NoEntry
    BY DEF Accepted, Managed
  <2>3. op.kind = "EXPIRE" => p.alive[op.key] = NoEntry
    <3>1. ASSUME op.kind = "EXPIRE", p.alive[op.key] # NoEntry PROVE FALSE
      <4>1. op.key \in Keys /\ alive[op.key] = NoEntry /\ op.key <= minted
        BY <3>1 DEF OpOf
      <4>2. op.key \in keys /\ op.key > minted
        BY <1>4, <3>1, <4>1
      <4> QED
        BY <1>1, <3>1, <4>1, <4>2
    <3> QED
      BY <3>1
  <2> QED
    BY <2>1, <2>2, <2>3 DEF OpOf, EntityOps
<1>6. /\ q.keys = [j \in 1 .. total - d.minted |-> d.minted + j]
      /\ op.kind = "CREATE" => p.keys # <<>> /\ Head(p.keys) = c.minted + 1
  <2>1. CASE op.kind = "CREATE"
    <3>1. d.minted = c.minted + 1 /\ c.minted + 1 <= total
      BY <1>3, <2>1
    <3>2. /\ p.keys # <<>> /\ Head(p.keys) = c.minted + 1
          /\ Tail(p.keys) = [j \in 1 .. total - (c.minted + 1) |-> c.minted + 1 + j]
      BY <1>2, <3>1, FirstUsed
    <3> QED
      BY <1>3, <2>1, <3>1, <3>2
  <2>2. CASE op.kind # "CREATE"
    BY <1>2, <1>3, <2>2
  <2> QED
    BY <2>1, <2>2
<1>7. ASSUME NEW k \in Keys, k \in Named(s) \/ k > minted
      PROVE  Matched(q.alive[k], k \in q.reserved, d.ledger[k])
  <2>1. /\ Matched(p.alive[k], k \in p.reserved, c.ledger[k])
        /\ d.ledger[k] = LedgerAfter(s, c, op, k) /\ q.alive[k] = EntryAfter(s, p, op, k)
    BY <1>2, <1>3, <1>7
  <2>2. CASE op.kind = "CREATE" /\ k = c.minted + 1
    <3> DEFINE e == [owner |-> s, expiresAt |-> op.expiresAt, pending |-> FALSE]
               l == [owner |-> s, expiresAt |-> height + op.btl]
    <3>1. q.alive[k] = e
      BY <1>6, <2>1, <2>2 DEF EntryAfter
    <3>2. d.ledger[k] = l
      BY <2>1, <2>2 DEF LedgerAfter
    <3>3. l \in ChainEntries /\ height + op.btl >= op.expiresAt
      BY <1>1, <1>5, <2>2 DEF ChainEntries
    <3>4. Agrees(e, l) /\ e # NoEntry
      <4>1. e \in Entries
        BY <1>5 DEF Entries
      <4> QED
        BY <3>3, <4>1, SimulatorAssumption DEF Agrees
    <3> HIDE DEF e, l
    <3> QED
      BY <3>1, <3>2, <3>4 DEF Matched
  <2>3. CASE op.kind \in {"DELETE", "EXPIRE"} /\ k = op.key
    <3>1. d.ledger[k] = NoEntry
      BY <2>1, <2>3 DEF LedgerAfter
    <3>2. q.alive[k] = NoEntry
      BY <1>5, <2>1, <2>3 DEF EntryAfter
    <3> QED
      BY <3>1, <3>2 DEF Matched
  <2>4. CASE op.kind \in {"UPDATE", "EXTEND", "TRANSFER"} /\ k = op.key
    <3>1. CASE p.alive[k] = NoEntry
      <4>1. q.alive[k] = NoEntry /\ (k \in q.reserved <=> k \in p.reserved)
        BY <1>3, <2>1, <2>4, <3>1 DEF EntryAfter
      <4>2. d.ledger[k] # NoEntry => c.ledger[k] # NoEntry
        BY <1>5, <2>1, <2>4 DEF LedgerAfter
      <4> QED
        BY <2>1, <3>1, <4>1, <4>2 DEF Matched
    <3>2. CASE p.alive[k] # NoEntry
      <4> DEFINE e == q.alive[k]
                 l == d.ledger[k]
                 o == p.alive[k]
                 c0 == c.ledger[k]
      <4>1. /\ o \in Entries /\ c0 \in ChainEntries
            /\ c0.owner = o.owner /\ c0.expiresAt >= o.expiresAt
        BY <1>4, <2>1, <3>2 DEF Matched, Agrees
      <4>2. e = [owner |-> IF op.kind = "TRANSFER" THEN op.newOwner ELSE o.owner,
                 expiresAt |-> IF op.kind = "EXTEND" THEN op.expiresAt ELSE o.expiresAt,
                 pending |-> FALSE]
        BY <2>1, <2>4, <3>2 DEF EntryAfter
      <4>3. \/ op.kind = "UPDATE" /\ l = c0
            \/ op.kind = "EXTEND" /\ l = [owner |-> c0.owner, expiresAt |-> height + op.btl]
            \/ op.kind = "TRANSFER" /\ l = [owner |-> op.newOwner, expiresAt |-> c0.expiresAt]
        BY <2>1, <2>4 DEF LedgerAfter
      <4> HIDE DEF e, l, o, c0
      <4>4. e \in Entries /\ e # NoEntry
        <5>1. /\ o.owner \in Signers /\ o.expiresAt \in Nat
          BY <4>1 DEF Entries
        <5>2. /\ (IF op.kind = "TRANSFER" THEN op.newOwner ELSE o.owner) \in Signers
              /\ (IF op.kind = "EXTEND" THEN op.expiresAt ELSE o.expiresAt) \in Nat
          BY <1>5, <5>1
        <5>3. e \in Entries
          BY <4>2, <5>2 DEF Entries
        <5> QED
          BY <5>3, SimulatorAssumption
      <4>5. l \in ChainEntries /\ l # NoEntry
        BY <1>1, <1>5, <4>1, <4>3, SimulatorAssumption DEF ChainEntries
      <4>6. l.owner = e.owner /\ l.expiresAt >= e.expiresAt
        <5>1. CASE op.kind = "UPDATE"
          BY <4>1, <4>2, <4>3, <5>1
        <5>2. CASE op.kind = "EXTEND"
          BY <1>1, <1>5, <4>1, <4>2, <4>3, <5>2
        <5>3. CASE op.kind = "TRANSFER"
          BY <4>1, <4>2, <4>3, <5>3
        <5> QED
          BY <2>4, <5>1, <5>2, <5>3
      <4> QED
        BY <4>4, <4>5, <4>6 DEF Matched, Agrees, e, l
    <3> QED
      BY <3>1, <3>2
  <2>5. CASE /\ ~(op.kind = "CREATE" /\ k = c.minted + 1)
             /\ op.kind # "CREATE" => k # op.key
    <3>1. q.alive[k] = p.alive[k]
      BY <1>6, <2>1, <2>5 DEF EntryAfter
    <3>2. d.ledger[k] = c.ledger[k]
      BY <2>1, <2>5 DEF LedgerAfter
    <3>3. k \in q.reserved <=> k \in p.reserved
      BY <1>3, <2>5
    <3> QED
      BY <2>1, <3>1, <3>2, <3>3
  <2> QED
    BY <1>5, <2>2, <2>3, <2>4, <2>5
<1>8. ASSUME NEW k \in Keys, k \notin Named(s), k <= minted
      PROVE  d.ledger[k] = ledger[k]
  <2>1. k # c.minted + 1 /\ (op.kind # "CREATE" => k # op.key)
    BY <1>1, <1>2, <1>5, <1>8
  <2>2. d.ledger[k] = c.ledger[k]
    BY <1>3, <2>1 DEF LedgerAfter
  <2> QED
    BY <1>2, <1>8, <2>2
<1>9. ASSUME NEW k \in Keys, k > d.minted
      PROVE  d.ledger[k] = NoEntry
  <2>1. k > c.minted /\ (op.kind = "CREATE" => k # c.minted + 1)
    BY <1>1, <1>2, <1>3, <1>9
  <2>2. op.kind \in {"EXTEND", "TRANSFER"} => k # op.key
    BY <1>2, <1>5, <2>1
  <2>3. d.ledger[k] = c.ledger[k] \/ d.ledger[k] = NoEntry
    BY <1>3, <2>1, <2>2 DEF LedgerAfter
  <2> QED
    BY <1>2, <2>1, <2>3
<1>10. minted <= d.minted
  BY <1>1, <1>2, <1>3
<1> QED
  BY <1>6, <1>7, <1>8, <1>9, <1>10 DEF Synced

LEMMA IsSequence ==
  ASSUME NEW m \in Nat, NEW S, NEW q \in [1 .. m -> S]
  PROVE  q \in Seq(S)
OBVIOUS

\* Numbers that do not decrease are not above the last one.
LEMMA GrowsToLast ==
  ASSUME NEW last \in Nat, NEW f, \A n \in 0 .. last : f[n] \in Nat,
         \A n \in 1 .. last : f[n - 1] <= f[n]
  PROVE  \A n \in 0 .. last : f[n] <= f[last]
<1> DEFINE Above == {m \in 0 .. last : ~(f[last - m] <= f[last])}
<1>1. ASSUME Above # {} PROVE FALSE
  <2>1. PICK m \in Above : m \in Nat /\ \A k \in Above : m <= k
    <3>1. Above \subseteq Nat
      OBVIOUS
    <3> HIDE DEF Above
    <3> QED
      BY <1>1, <3>1, Smallest
  <2>2. m \in 0 .. last /\ ~(f[last - m] <= f[last])
    OBVIOUS
  <2>3. m # 0
    BY <2>2
  <2>4. m - 1 \in 0 .. last /\ ~(m <= m - 1)
    BY <2>1, <2>2, <2>3
  <2>5. f[last - (m - 1)] <= f[last]
    BY <2>1, <2>4
  <2>6. /\ last - (m - 1) \in 1 .. last /\ last - (m - 1) - 1 = last - m
        /\ last - m \in 0 .. last /\ last - (m - 1) \in 0 .. last /\ last \in 0 .. last
    BY <2>2, <2>3, <2>4
  <2>7. f[last - m] <= f[last - (m - 1)]
    BY <2>6
  <2>8. f[last - m] \in Nat /\ f[last - (m - 1)] \in Nat /\ f[last] \in Nat
    BY <2>6
  <2> QED
    BY <2>2, <2>5, <2>7, <2>8
<1>2. ASSUME NEW n \in 0 .. last
      PROVE  f[n] <= f[last]
  <2>1. last - n \in 0 .. last /\ last - (last - n) = n
    OBVIOUS
  <2>2. last - n \notin Above
    BY <1>1
  <2> QED
    BY <2>1, <2>2
<1> QED
  BY <1>2

\* A batch is about to run on the chain, which will end it as c; its receipt
\* will find the pool as start.
Starts(s, c, keys, start) ==
  /\ c = Executed(s, plan[s].ops) /\ c.ok
  /\ keys = [j \in 1 .. c.minted - minted |-> minted + j]
  /\ start = [alive |-> alive, reserved |-> reserved, keys |-> keys]
  /\ Synced(s, [ledger |-> ledger, minted |-> minted, ok |-> TRUE], start, c.minted)

\* A batch that runs leaves the chain and, once it is recorded, the pool in
\* step with each other, if they were.
LEMMA RunSyncs ==
  ASSUME PoolInv, NEW s \in InFlight, Foreseen(plan[s].ops), NEW c, NEW keys, NEW start,
         Starts(s, c, keys, start)
  PROVE  Synced(s, c, Mirrored(s, start, plan[s].ops), c.minted)
<1> DEFINE ops == plan[s].ops
           last == Len(ops)
           total == c.minted
           S == PoolRecords(alive, reserved, ToSet(keys), Named(s))
<1>1. /\ PoolTypeOK /\ minted \in Nat /\ reserved \subseteq Keys /\ s \in Signers
      /\ last \in Nat /\ DOMAIN ops = 1 .. last /\ AllRecordable(ops, Named(s))
  <2>1. PoolTypeOK /\ minted \in Nat /\ reserved \subseteq Keys
    BY DEF PoolInv, PoolTypeOK
  <2>2. ops \in Seq(Ops) /\ DOMAIN ops = 1 .. last
    BY <2>1, PlanIs
  <2>3. last \in Nat
    BY <2>2
  <2> QED
    BY <2>1, <2>2, <2>3, BatchRecordable
<1>2. total \in Nat /\ minted <= total
  BY ExecutedIs DEF ChainRecords, Starts
<1>3. /\ start \in S /\ \A k \in ToSet(keys) : k > minted
  <2>1. total - minted \in Nat /\ \A j \in 1 .. total - minted : minted + j > minted
    BY <1>1, <1>2
  <2> HIDE DEF total
  <2>2. keys \in [1 .. total - minted -> ToSet(keys)]
    BY DEF ToSet, total, Starts
  <2>3. keys \in Seq(ToSet(keys))
    BY <2>1, <2>2, IsSequence
  <2>4. alive \in [Keys -> Entries \cup {NoEntry}]
    BY <1>1 DEF PoolTypeOK
  <2>5. start \in S
    BY <2>3, <2>4 DEF PoolRecords, Starts
  <2>6. \A k \in ToSet(keys) : k > minted
    BY <2>1 DEF ToSet, total, Starts
  <2> QED
    BY <2>5, <2>6
<1>4. PICK f \in [0 .. last -> ChainRecords] :
        /\ f[0] = [ledger |-> ledger, minted |-> minted, ok |-> TRUE]
        /\ \A n \in 1 .. last : f[n] = Performed(f[n - 1], s, ops[n])
        /\ c = f[last]
  BY ExecutedUnfolds DEF Starts
<1>5. PICK h \in [0 .. last -> S] :
        /\ h[0] = start
        /\ \A n \in 1 .. last : h[n] = AfterSuccess(s, h[n - 1], ops[n])
        /\ Mirrored(s, start, ops) = h[last]
  <2>1. ASSUME NEW from, NEW held, NEW ks, NEW named, NEW batch, from = alive,
               held = reserved, ks = ToSet(keys), named = Named(s), batch = ops
        PROVE  \E h \in [0 .. Len(batch) -> PoolRecords(from, held, ks, named)] :
                 Records(h, s, start, batch) /\ Mirrored(s, start, batch) = h[Len(batch)]
    <3> HIDE DEF ops
    <3>1. /\ held \subseteq Keys /\ start \in PoolRecords(from, held, ks, named)
          /\ AllRecordable(batch, named) /\ s \in Signers
      BY <1>1, <1>3, <2>1
    <3> QED
      BY <3>1, MirroredUnfolds
  <2> HIDE DEF ops
  <2>2. \E h \in [0 .. last -> S] :
          Records(h, s, start, ops) /\ Mirrored(s, start, ops) = h[last]
    BY <2>1
  <2> QED
    BY <2>2 DEF Records
<1> HIDE DEF S
<1>6. \A n \in 1 .. last : /\ n \in 0 .. last /\ n - 1 \in 0 .. last /\ n \in DOMAIN ops
                           /\ f[n - 1] \in ChainRecords /\ h[n - 1] \in S
  <2> HIDE DEF last
  <2> QED
    BY <1>1, <1>4, <1>5
<1>7. ASSUME NEW n \in 1 .. last
      PROVE  /\ f[n - 1].minted <= f[n].minted
             /\ f[n].ok => /\ f[n - 1].ok /\ Accepted(f[n - 1], s, ops[n])
                           /\ RunOn(s, f[n - 1], ops[n], f[n])
  <2>1. f[n] = Performed(f[n - 1], s, plan[s].ops[n])
    BY <1>4
  <2> HIDE DEF last
  <2> QED
    BY <1>6, <2>1, PerformedIs
<1>8. ASSUME NEW n \in 1 .. last
      PROVE  Recorded(s, h[n - 1], ops[n], h[n])
  <2>1. h[n] = AfterSuccess(s, h[n - 1], ops[n]) /\ Recordable(ops[n], Named(s))
    BY <1>1, <1>5 DEF AllRecordable
  <2> HIDE DEF ops, last
  <2>2. h[n - 1] \in PoolRecords(alive, reserved, ToSet(keys), Named(s))
    BY <1>6 DEF S
  <2> QED
    BY <2>1, <2>2, AfterSuccessIs
<1>9. \A n \in 0 .. last : f[n].minted <= total
  <2> DEFINE g == [n \in 0 .. last |-> f[n].minted]
  <2>1. \A n \in 0 .. last : g[n] = f[n].minted /\ g[n] \in Nat
    BY <1>4 DEF ChainRecords
  <2>2. \A n \in 1 .. last : g[n - 1] <= g[n]
    BY <1>6, <1>7, <2>1
  <2>3. last \in 0 .. last
    BY <1>1
  <2> HIDE DEF g, last
  <2>4. \A n \in 0 .. last : g[n] <= g[last]
    BY <1>1, <2>1, <2>2, GrowsToLast
  <2> QED
    BY <1>4, <2>1, <2>3, <2>4
<1> DEFINE Astray == {n \in 0 .. last : f[n].ok /\ ~Synced(s, f[n], h[n], total)}
<1>10. ASSUME Astray # {} PROVE FALSE
  <2>1. PICK m \in Astray : m \in Nat /\ \A k \in Astray : m <= k
    <3>1. Astray \subseteq Nat
      OBVIOUS
    <3> HIDE DEF Astray
    <3> QED
      BY <1>10, <3>1, Smallest
  <2>2. m \in 0 .. last /\ f[m].ok /\ ~Synced(s, f[m], h[m], total)
    OBVIOUS
  <2>3. m # 0
    BY <1>4, <1>5, <2>2 DEF Starts
  <2>4. m \in 1 .. last /\ m - 1 \in 0 .. last /\ ~(m <= m - 1)
    BY <1>1, <2>2, <2>3
  <2>5. f[m - 1].ok /\ Accepted(f[m - 1], s, ops[m]) /\ RunOn(s, f[m - 1], ops[m], f[m])
    BY <1>7, <2>2, <2>4
  <2>6. Synced(s, f[m - 1], h[m - 1], total)
    BY <2>1, <2>4, <2>5
  <2>7. Recorded(s, h[m - 1], ops[m], h[m]) /\ OpOf(s, ops[m]) /\ f[m].minted <= total
    BY <1>6, <1>8, <1>9, <2>2, <2>4, OpOfBatch
  <2>8. /\ f[m - 1] \in ChainRecords
        /\ h[m - 1] \in PoolRecords(alive, reserved, ToSet(keys), Named(s))
    BY <1>6, <2>4 DEF S
  <2> HIDE DEF ops, last, total, Astray
  <2>9. Synced(s, f[m], h[m], total)
    BY <1>1, <1>2, <1>3, <2>5, <2>6, <2>7, <2>8, SyncStep
  <2> QED
    BY <2>2, <2>9
<1> QED
  <2>1. last \in 0 .. last /\ f[last].ok
    BY <1>1, <1>4 DEF Starts
  <2>2. Synced(s, f[last], h[last], total)
    BY <1>10, <2>1
  <2> QED
    BY <1>4, <1>5, <2>2

\* The batch has run, and its receipt has not come in.
Ran(s) == plan[s].status = "executed"

Touched(s) == Named(s) \cup ToSet(plan[s].keys)

\* What no batch that ran names is in the pool as it is on the chain.
Mirrors(k) ==
  alive[k] # NoEntry /\ (\A s \in InFlight : Ran(s) => k \notin Named(s)) =>
    Agrees(alive[k], ledger[k])

\* What a batch that ran touches will be in the pool as it is on the chain.
Settled(s) ==
  \A k \in Keys : k \in Touched(s) =>
    Matched(Outcome(s).alive[k], k \in Outcome(s).reserved, ledger[k])

Remembered(k) ==
  ledger[k] # NoEntry =>
    k <= minted /\ (InPool(k) \/ \E s \in InFlight : k \in ToSet(plan[s].keys))

InStep ==
  /\ \A k \in Keys : Mirrors(k) /\ Remembered(k)
  /\ \A s \in InFlight : Ran(s) => Settled(s)

MirrorInv ==
  /\ PoolInv /\ lost \in Nat
  /\ \A s \in InFlight : Foreseen(plan[s].ops) /\ (~Ran(s) => plan[s].keys = <<>>)
  /\ lost = 0 => InStep

\* Two batches in flight touch different entities.
LEMMA TouchedApart ==
  ASSUME PoolInv, NEW s \in InFlight, NEW t \in InFlight, s # t,
         NEW k \in Keys, k \in Touched(s)
  PROVE  k \notin Touched(t)
<1>1. /\ Named(s) \cap Named(t) = {} /\ ToSet(plan[s].keys) \cap ToSet(plan[t].keys) = {}
      /\ InPool(k) => k \notin ToSet(plan[s].keys) /\ k \notin ToSet(plan[t].keys)
  BY DEF PoolInv, ReservationsExclusive, KeysFresh
<1>2. k \in Named(s) \/ k \in Named(t) => InPool(k)
  BY NamedInPool
<1> QED
  BY <1>1, <1>2 DEF Touched

\* The outcome of a batch depends on nothing but what it touches.
LEMMA OutcomeLocal ==
  ASSUME PoolInv, PoolInv', NEW t \in InFlight, t \in InFlight', plan'[t] = plan[t],
         \A k \in Keys : k \in Touched(t) =>
           /\ alive'[k] = alive[k] /\ (k \in reserved' <=> k \in reserved)
           /\ ledger'[k] = ledger[k],
         Settled(t)
  PROVE  Settled(t)'
<1> DEFINE ops == plan[t].ops
           p == [alive |-> alive, reserved |-> reserved, keys |-> plan[t].keys]
           q == [alive |-> alive', reserved |-> reserved', keys |-> plan[t].keys]
           out == Outcome(t)
           after == Mirrored(t, q, ops)
<1>1. /\ t \in Signers /\ AllRecordable(ops, Named(t))
      /\ p \in PoolRecords(alive, reserved, ToSet(plan[t].keys), Named(t))
  BY BatchRecordable
<1>2. /\ reserved \subseteq Keys /\ reserved' \subseteq Keys
      /\ alive' \in [Keys -> Entries \cup {NoEntry}]
      /\ plan[t].keys \in Seq(ToSet(plan[t].keys))
  <2>1. PoolTypeOK /\ PoolTypeOK'
    BY DEF PoolInv
  <2>2. plan[t].keys \in Seq(Nat)
    BY <2>1, PlanIs
  <2>3. plan[t].keys \in Seq(ToSet(plan[t].keys))
    BY <2>2 DEF ToSet
  <2> QED
    BY <2>1, <2>3 DEF PoolTypeOK
<1>3. q \in PoolRecords(alive', reserved', ToSet(plan[t].keys), Named(t))
  BY <1>2 DEF PoolRecords
<1>4. SameOn(p, q, Touched(t))
  BY DEF SameOn
<1>5. SameOn(out, after, Touched(t))
  <2>1. ASSUME NEW keys, NEW named, NEW from1, NEW held1, NEW from2, NEW held2, NEW a, NEW b,
               NEW batch,
               keys = ToSet(plan[t].keys), named = Named(t), from1 = alive, held1 = reserved,
               from2 = alive', held2 = reserved', a = p, b = q, batch = ops
        PROVE  SameOn(Mirrored(t, a, batch), Mirrored(t, b, batch), named \cup keys)
    <3> HIDE DEF p, q, ops
    <3>1. /\ t \in Signers /\ held1 \subseteq Keys /\ held2 \subseteq Keys
          /\ a \in PoolRecords(from1, held1, keys, named)
          /\ b \in PoolRecords(from2, held2, keys, named)
          /\ SameOn(a, b, named \cup keys) /\ AllRecordable(batch, named)
      BY <1>1, <1>2, <1>3, <1>4, <2>1 DEF Touched
    <3> QED
      BY <3>1, MirroredLocal
  <2>2. SameOn(Mirrored(t, p, ops), after, Touched(t))
    <3> HIDE DEF p, q, ops
    <3> QED
      BY <2>1 DEF Touched
  <2> QED
    BY <2>2 DEF Outcome
<1>6. Outcome(t)' = after
  BY DEF Outcome
<1>7. Touched(t)' = Touched(t)
  BY DEF Touched, Named
<1> HIDE DEF out, after
<1>8. ASSUME NEW k \in Keys, k \in Touched(t)
      PROVE  Matched(after.alive[k], k \in after.reserved, ledger'[k])
  <2>1. /\ after.alive[k] = out.alive[k] /\ (k \in after.reserved <=> k \in out.reserved)
        /\ ledger'[k] = ledger[k]
    BY <1>5, <1>8 DEF SameOn
  <2>2. Matched(out.alive[k], k \in out.reserved, ledger[k])
    BY <1>8 DEF Settled, out
  <2> QED
    BY <2>1, <2>2 DEF Matched
<1> QED
  BY <1>6, <1>7, <1>8 DEF Settled

\* The end of a batch leaves the others alone.
LEMMA ReleaseMirrors ==
  ASSUME MirrorInv, PoolInv', NEW s \in InFlight, Release(s),
         ledger' = ledger, minted' = minted, height' = height, lost' = lost,
         \A k \in Keys : k \notin Touched(s) =>
           alive'[k] = alive[k] /\ (k \in reserved' <=> k \in reserved),
         lost = 0 => \A k \in Keys : Mirrors(k)' /\ Remembered(k)'
  PROVE  MirrorInv'
<1>1. PoolInv /\ plan = [t \in Signers |-> plan[t]] /\ lost \in Nat
  BY DEF MirrorInv, PoolInv, PoolTypeOK
<1>2. \A t \in InFlight' : t \in InFlight /\ t # s /\ plan'[t] = plan[t]
  BY <1>1 DEF Release, InFlight
<1>3. \A t \in InFlight' : Foreseen(plan[t].ops)' /\ (~Ran(t)' => plan'[t].keys = <<>>)
  BY <1>2 DEF MirrorInv, Foreseen, Ran
<1>4. ASSUME lost = 0, NEW t \in InFlight', Ran(t)'
      PROVE  Settled(t)'
  <2>1. t \in InFlight /\ t # s /\ plan'[t] = plan[t] /\ Settled(t)
    BY <1>2, <1>4 DEF MirrorInv, InStep, Ran
  <2>2. \A k \in Keys : k \in Touched(t) => k \notin Touched(s)
    BY <1>1, <2>1, TouchedApart
  <2> QED
    BY <1>1, <2>1, <2>2, OutcomeLocal
<1>5. lost' = 0 => InStep'
  BY <1>4 DEF InStep
<1> QED
  BY <1>1, <1>3, <1>5 DEF MirrorInv

\* A batch recorded: what it touched is as it was to be.
LEMMA SuccessMirrors ==
  ASSUME MirrorInv, NEW s \in InFlight, Ran(s), ApplySuccess(s), Release(s),
         UNCHANGED <<chainVars, lost>>
  PROVE  MirrorInv'
<1>1. PoolInv /\ PoolInv' /\ plan = [t \in Signers |-> plan[t]]
  <2>1. PoolInv
    BY DEF MirrorInv
  <2> QED
    BY <2>1, SuccessKeeps DEF PoolInv, PoolTypeOK
<1>2. /\ ledger' = ledger /\ minted' = minted /\ height' = height /\ lost' = lost
      /\ alive' = Outcome(s).alive /\ reserved' = Outcome(s).reserved /\ expired' = expired
  BY DEF chainVars, ApplySuccess
<1>3. \A t \in InFlight : t # s => t \in InFlight' /\ plan'[t] = plan[t]
  BY <1>1 DEF Release, InFlight
<1>4. \A k \in Keys : k \notin Touched(s) =>
        alive'[k] = alive[k] /\ (k \in reserved' <=> k \in reserved)
  <2>1. Outcome(s) \in PoolRecords(alive, reserved, ToSet(plan[s].keys), Named(s))
    BY <1>1, OutcomeIs
  <2>2. /\ \A k \in Keys : k \notin Named(s) /\ k \notin ToSet(plan[s].keys) =>
             alive'[k] = alive[k]
        /\ reserved' \subseteq reserved
        /\ \A k \in reserved : k \notin Named(s) => k \in reserved'
    BY <1>2, <2>1 DEF PoolRecords
  <2> QED
    BY <2>2 DEF Touched
<1>5. ASSUME lost = 0, NEW k \in Keys, k \in Touched(s)
      PROVE  Mirrors(k)' /\ Remembered(k)'
  <2>1. Matched(alive'[k], k \in reserved', ledger[k]) /\ Remembered(k)
    BY <1>2, <1>5 DEF MirrorInv, InStep, Settled
  <2>2. ledger[k] # NoEntry => k <= minted
    BY <2>1 DEF Remembered
  <2>3. Mirrors(k)'
    BY <1>2, <2>1 DEF Mirrors, Matched
  <2>4. Remembered(k)'
    BY <1>2, <2>1, <2>2 DEF Remembered, Matched, InPool
  <2> QED
    BY <2>3, <2>4
<1>6. ASSUME lost = 0, NEW k \in Keys, k \notin Touched(s)
      PROVE  Mirrors(k)' /\ Remembered(k)'
  <2>1. /\ alive'[k] = alive[k] /\ (k \in reserved' <=> k \in reserved)
        /\ k \notin Named(s) /\ k \notin ToSet(plan[s].keys)
        /\ Mirrors(k) /\ Remembered(k)
    BY <1>4, <1>6 DEF MirrorInv, InStep, Touched
  <2>2. Mirrors(k)'
    <3>1. SUFFICES ASSUME alive'[k] # NoEntry,
                          \A t \in InFlight' : Ran(t)' => k \notin Named(t)'
                   PROVE  Agrees(alive'[k], ledger'[k])
      BY DEF Mirrors
    <3>2. \A t \in InFlight : Ran(t) => k \notin Named(t)
      BY <1>3, <2>1, <3>1 DEF Ran, Named
    <3> QED
      BY <1>2, <2>1, <3>1, <3>2 DEF Mirrors
  <2>3. Remembered(k)'
    <3>1. (\E t \in InFlight : k \in ToSet(plan[t].keys)) =>
            \E t \in InFlight' : k \in ToSet(plan'[t].keys)
      BY <1>3, <2>1
    <3>2. InPool(k) => InPool(k)'
      BY <1>2, <2>1 DEF InPool
    <3> QED
      BY <1>2, <2>1, <3>1, <3>2 DEF Remembered
  <2> QED
    BY <2>2, <2>3
<1>7. lost = 0 => \A k \in Keys : Mirrors(k)' /\ Remembered(k)'
  BY <1>5, <1>6
<1> QED
  BY <1>1, <1>2, <1>4, <1>7, ReleaseMirrors

\* A batch given up that has not run.
LEMMA FailureMirrors ==
  ASSUME MirrorInv, NEW s \in InFlight, ~Ran(s), ApplyFailure(s), Release(s),
         UNCHANGED <<chainVars, lost>>
  PROVE  MirrorInv'
<1> DEFINE back == Candidates(plan[s].ops)
           named == {plan[s].ops[i].key : i \in DOMAIN plan[s].ops}
<1>1. PoolInv /\ PoolInv' /\ PoolTypeOK /\ plan = [t \in Signers |-> plan[t]]
  <2>1. PoolInv
    BY DEF MirrorInv
  <2> QED
    BY <2>1, FailureKeeps DEF PoolInv, PoolTypeOK
<1>2. /\ ledger' = ledger /\ minted' = minted /\ height' = height /\ lost' = lost
      /\ alive' = Unmarked(alive, named)
      /\ expired' = expired \o back /\ reserved' = reserved \ ToSet(back)
  BY DEF chainVars, ApplyFailure
<1>3. \A t \in InFlight : t # s => t \in InFlight' /\ plan'[t] = plan[t]
  BY <1>1 DEF Release, InFlight
<1>4. plan[s].keys = <<>> /\ ToSet(plan[s].keys) = {}
  <2>1. plan[s].keys = <<>>
    BY DEF MirrorInv
  <2> QED
    BY <2>1 DEF ToSet
<1>5. /\ ToSet(back) \subseteq reserved /\ ToSet(back) \subseteq Named(s)
      /\ ToSet(expired') = ToSet(expired) \cup ToSet(back)
  <2>1. /\ plan[s].ops \in Seq(Ops) /\ ExpiresOnce(plan[s].ops) /\ reserved \subseteq Keys
        /\ NoKey \notin Keys /\ PlacesApart /\ expired \in Seq(Keys)
    BY <1>1, PlanIs, SimulatorAssumption DEF PoolInv, PoolTypeOK
  <2>2. /\ back \in Seq(Keys)
        /\ \A j \in DOMAIN back : \E i \in DOMAIN plan[s].ops :
             plan[s].ops[i].key \in reserved /\ back[j] = plan[s].ops[i].key
        /\ Once(back)
    BY <2>1, CandidatesAre
  <2> HIDE DEF back
  <2>3. ToSet(back) \subseteq reserved /\ ToSet(back) \subseteq Named(s)
    BY <2>1, <2>2 DEF ToSet, Named
  <2>4. ToSet(expired') = ToSet(expired) \cup ToSet(back)
    BY <1>2, <2>1, <2>2, <2>3, QueuesJoin DEF PlacesApart
  <2> QED
    BY <2>3, <2>4
<1> HIDE DEF back
<1>6. \A k \in Keys :
        /\ k \notin Touched(s) => alive'[k] = alive[k]
        /\ alive'[k] = NoEntry <=> alive[k] = NoEntry
        /\ alive'[k] # NoEntry =>
             alive'[k].owner = alive[k].owner /\ alive'[k].expiresAt = alive[k].expiresAt
  <2>1. /\ alive' = [k \in Keys |-> IF k \in named /\ alive[k] # NoEntry
                                    THEN [alive[k] EXCEPT !.pending = FALSE] ELSE alive[k]]
        /\ alive \in [Keys -> Entries \cup {NoEntry}]
    BY <1>1, <1>2 DEF Unmarked, PoolTypeOK
  <2>2. \A k \in Keys : k \in named => k \in Touched(s)
    BY SimulatorAssumption DEF Named, Touched
  <2>3. \A e \in Entries : /\ [e EXCEPT !.pending = FALSE].owner = e.owner
                           /\ [e EXCEPT !.pending = FALSE].expiresAt = e.expiresAt
                           /\ [e EXCEPT !.pending = FALSE] # NoEntry
    BY SimulatorAssumption DEF Entries
  <2> HIDE DEF named
  <2> QED
    BY <2>1, <2>2, <2>3
<1> HIDE DEF named
<1>7. \A k \in Keys : k \notin Touched(s) => (k \in reserved' <=> k \in reserved)
  BY <1>2, <1>5 DEF Touched
<1>8. ASSUME lost = 0, NEW k \in Keys
      PROVE  Mirrors(k)' /\ Remembered(k)'
  <2>1. Mirrors(k) /\ Remembered(k)
    BY <1>8 DEF MirrorInv, InStep
  <2>2. Mirrors(k)'
    <3>1. SUFFICES ASSUME alive'[k] # NoEntry,
                          \A t \in InFlight' : Ran(t)' => k \notin Named(t)'
                   PROVE  Agrees(alive'[k], ledger'[k])
      BY DEF Mirrors
    <3>2. \A t \in InFlight : Ran(t) => k \notin Named(t)
      BY <1>3, <3>1 DEF Ran, Named
    <3>3. Agrees(alive[k], ledger[k])
      BY <1>6, <2>1, <3>1, <3>2 DEF Mirrors
    <3> QED
      BY <1>2, <1>6, <3>1, <3>3 DEF Agrees
  <2>3. Remembered(k)'
    <3>1. (\E t \in InFlight : k \in ToSet(plan[t].keys)) =>
            \E t \in InFlight' : k \in ToSet(plan'[t].keys)
      BY <1>3, <1>4
    <3>2. InPool(k) => InPool(k)'
      BY <1>2, <1>5, <1>6 DEF InPool
    <3> QED
      BY <1>2, <2>1, <3>1, <3>2 DEF Remembered
  <2> QED
    BY <2>2, <2>3
<1> QED
  BY <1>1, <1>2, <1>6, <1>7, <1>8, ReleaseMirrors

\* A receipt lost, after which nothing is claimed any more.
LEMMA LossMirrors ==
  ASSUME MirrorInv, NEW s \in InFlight, ReceiptLost(s)
  PROVE  MirrorInv'
<1>1. /\ PoolInv /\ lost \in Nat /\ lost' = lost + 1 /\ height' = height
      /\ ApplyFailure(s) /\ Release(s) /\ UNCHANGED chainVars
  BY DEF MirrorInv, ReceiptLost, chainVars
<1>2. PoolInv' /\ plan = [t \in Signers |-> plan[t]]
  BY <1>1, FailureKeeps DEF PoolInv, PoolTypeOK
<1>3. \A t \in InFlight' : t \in InFlight /\ plan'[t] = plan[t]
  BY <1>1, <1>2 DEF Release, InFlight
<1>4. \A t \in InFlight' : Foreseen(plan[t].ops)' /\ (~Ran(t)' => plan'[t].keys = <<>>)
  BY <1>1, <1>3 DEF MirrorInv, Foreseen, Ran
<1>5. lost' \in Nat /\ lost' # 0
  BY <1>1
<1> QED
  BY <1>2, <1>4, <1>5 DEF MirrorInv

\* A new block, and steps of nobody.
LEMMA OthersMirror ==
  ASSUME MirrorInv, UNCHANGED <<poolVars, plan, ledger, minted, lost>>,
         height' \in Nat, height <= height'
  PROVE  MirrorInv'
<1>1. /\ alive' = alive /\ expired' = expired /\ reserved' = reserved /\ plan' = plan
      /\ ledger' = ledger /\ minted' = minted /\ lost' = lost
      /\ PoolInv /\ PoolTypeOK /\ height \in Nat \ {0}
  BY DEF poolVars, MirrorInv, PoolInv, PoolTypeOK
<1>2. PoolInv'
  <2>1. height' \in Nat \ {0}
    BY <1>1
  <2> QED
    BY <1>1, <2>1, OthersKeep
<1>3. InFlight' = InFlight /\ \A s : (Ran(s)' <=> Ran(s)) /\ Named(s)' = Named(s)
  BY <1>1 DEF InFlight, Ran, Named
<1>4. \A s \in InFlight : Foreseen(plan[s].ops)' /\ (~Ran(s)' => plan'[s].keys = <<>>)
  <2>1. ASSUME NEW s \in InFlight, NEW i \in DOMAIN plan[s].ops,
               plan[s].ops[i].kind \in {"CREATE", "EXTEND"}
        PROVE  plan[s].ops[i].expiresAt <= height' + plan[s].ops[i].btl
    <3>1. plan[s].ops[i].expiresAt <= height + plan[s].ops[i].btl
      BY <2>1 DEF MirrorInv, Foreseen
    <3>2. plan[s].ops[i].expiresAt \in Nat /\ plan[s].ops[i].btl \in Nat
      BY <1>1, PlanIs DEF Ops
    <3> QED
      BY <1>1, <3>1, <3>2
  <2> QED
    BY <1>1, <1>3, <2>1 DEF MirrorInv, Foreseen
<1>5. \A k \in Keys : (Mirrors(k) => Mirrors(k)') /\ (Remembered(k) => Remembered(k)')
  BY <1>1, <1>3 DEF Mirrors, Remembered, InPool
<1>6. \A s \in InFlight : Settled(s) => Settled(s)'
  <2>1. \A s : Outcome(s)' = Outcome(s) /\ Touched(s)' = Touched(s)
    BY <1>1, <1>3 DEF Outcome, Touched
  <2> QED
    BY <1>1, <2>1 DEF Settled
<1>7. InStep => InStep'
  BY <1>3, <1>5, <1>6 DEF InStep
<1> QED
  BY <1>1, <1>2, <1>3, <1>4, <1>7 DEF MirrorInv

\* A batch built: what other batches touch stays as it is.
LEMMA BuildMirrors ==
  ASSUME MirrorInv, NEW s \in Signers, NEW block \in 0 .. height - 1, Build(s, block)
  PROVE  MirrorInv'
<1>1. /\ PoolInv /\ lost \in Nat /\ ledger' = ledger /\ minted' = minted /\ height' = height
      /\ lost' = lost
  BY DEF MirrorInv, Build, chainVars
<1>2. PoolInv' /\ BuildMoves(s)
  BY <1>1, BuildKeeps
<1>3. /\ PlacesApart /\ KeysFresh /\ PlacesApart' /\ KeysFresh'
  BY <1>1, <1>2 DEF PoolInv
<1>4. /\ \A t \in InFlight : t # s /\ t \in InFlight' /\ plan'[t] = plan[t]
      /\ \A t \in InFlight' : t \in InFlight \/ t = s
  BY <1>2 DEF BuildMoves, InFlight
<1>5. \A t \in InFlight' : Foreseen(plan[t].ops)' /\ (~Ran(t)' => plan'[t].keys = <<>>)
  <2>1. \A t \in InFlight : Foreseen(plan[t].ops)' /\ (~Ran(t)' => plan'[t].keys = <<>>)
    BY <1>1, <1>4 DEF MirrorInv, Foreseen, Ran
  <2>2. s \in InFlight' => Foreseen(plan[s].ops)' /\ plan'[s].keys = <<>>
    BY <1>1, <1>2 DEF BuildMoves, InFlight, Foreseen
  <2> QED
    BY <1>4, <2>1, <2>2
<1>6. s \in InFlight' => ~Ran(s)'
  BY <1>2 DEF BuildMoves, InFlight, Ran
<1>7. ASSUME NEW t \in InFlight, Settled(t)
      PROVE  Settled(t)'
  <2>1. t \in InFlight' /\ plan'[t] = plan[t]
    BY <1>4
  <2>2. ASSUME NEW k \in Keys, k \in Touched(t)
        PROVE  alive'[k] = alive[k] /\ (k \in reserved' <=> k \in reserved)
    <3>1. CASE k \in ToSet(plan[t].keys)
      <4>1. ~InPool(k) /\ ~InPool(k)'
        BY <1>3, <2>1, <3>1 DEF KeysFresh
      <4> QED
        BY <4>1 DEF InPool
    <3>2. CASE k \in Named(t)
      <4>1. k \in reserved \/ (alive[k] # NoEntry /\ alive[k].pending)
        BY <1>1, <3>2, NamedInPool
      <4>2. /\ k \in reserved => k \in reserved'
            /\ alive[k] # NoEntry /\ alive[k].pending => alive'[k] = alive[k]
        BY <1>2 DEF BuildMoves
      <4> QED
        BY <1>3, <4>1, <4>2 DEF PlacesApart
    <3> QED
      BY <2>2, <3>1, <3>2 DEF Touched
  <2> QED
    BY <1>1, <1>2, <1>7, <2>1, <2>2, OutcomeLocal
<1>8. ASSUME NEW k \in Keys, Mirrors(k), Remembered(k)
      PROVE  Mirrors(k)' /\ Remembered(k)'
  <2>1. Mirrors(k)'
    <3>1. SUFFICES ASSUME alive'[k] # NoEntry,
                          \A t \in InFlight' : Ran(t)' => k \notin Named(t)'
                   PROVE  Agrees(alive'[k], ledger'[k])
      BY DEF Mirrors
    <3>2. \A t \in InFlight : Ran(t) => k \notin Named(t)
      BY <1>4, <3>1 DEF Ran, Named
    <3>3. /\ alive[k] # NoEntry
          /\ alive'[k].owner = alive[k].owner /\ alive'[k].expiresAt = alive[k].expiresAt
      BY <1>2, <3>1 DEF BuildMoves
    <3> QED
      BY <1>1, <1>8, <3>2, <3>3 DEF Mirrors, Agrees
  <2>2. Remembered(k)'
    <3>1. (\E t \in InFlight : k \in ToSet(plan[t].keys)) =>
            \E t \in InFlight' : k \in ToSet(plan'[t].keys)
      BY <1>4
    <3>2. InPool(k) => InPool(k)'
      BY <1>2 DEF BuildMoves
    <3> QED
      BY <1>1, <1>8, <3>1, <3>2 DEF Remembered
  <2> QED
    BY <2>1, <2>2
<1>9. InStep => InStep'
  <2>1. ASSUME InStep, NEW t \in InFlight', Ran(t)'
        PROVE  Settled(t)'
    <3>1. t \in InFlight /\ Ran(t)
      BY <1>4, <1>6, <2>1 DEF Ran
    <3> QED
      BY <1>7, <2>1, <3>1 DEF InStep
  <2> QED
    BY <1>8, <2>1 DEF InStep
<1> QED
  BY <1>1, <1>2, <1>5, <1>9 DEF MirrorInv

\* Before a batch runs, the pool and the chain agree on what it names, and
\* neither knows the keys to come.
LEMMA MineStarts ==
  ASSUME MirrorInv, lost = 0, NEW s \in InFlight, ~Ran(s),
         NEW c, c = Executed(s, plan[s].ops), c.ok, NEW keys,
         keys = [j \in 1 .. c.minted - minted |-> minted + j], NEW start,
         start = [alive |-> alive, reserved |-> reserved, keys |-> keys]
  PROVE  Starts(s, c, keys, start)
<1>1. /\ PoolInv /\ PlacesApart /\ KeysFresh /\ ReservationsExclusive /\ minted \in Nat
      /\ \A k \in Keys : Mirrors(k) /\ Remembered(k)
      /\ plan[s].keys = <<>>
      /\ \A t \in InFlight : \A k \in ToSet(plan[t].keys) : k <= minted
  BY DEF MirrorInv, PoolInv, PoolTypeOK, InStep, KeysFresh
<1>2. ASSUME NEW k \in Keys, k \in Named(s)
      PROVE  Matched(alive[k], k \in reserved, ledger[k])
  <2>1. k \in reserved \/ (alive[k] # NoEntry /\ alive[k].pending)
    BY <1>1, <1>2, NamedInPool
  <2>2. CASE k \in reserved
    BY <1>1, <2>2 DEF PlacesApart, Matched
  <2>3. CASE alive[k] # NoEntry
    <3>1. \A t \in InFlight : Ran(t) => k \notin Named(t)
      BY <1>1, <1>2 DEF ReservationsExclusive
    <3> QED
      BY <1>1, <2>3, <3>1 DEF Mirrors, Matched
  <2> QED
    BY <2>1, <2>2, <2>3
<1>3. ASSUME NEW k \in Keys, k > minted
      PROVE  alive[k] = NoEntry /\ ledger[k] = NoEntry
  <2>1. k \in Nat /\ ~(k <= minted)
    BY <1>1, <1>3 DEF Keys
  <2> QED
    BY <1>1, <2>1 DEF KeysFresh, InPool, Remembered
<1>4. \A k \in Keys : k \in Named(s) \/ k > minted => Matched(alive[k], k \in reserved, ledger[k])
  BY <1>2, <1>3 DEF Matched
<1>5. Synced(s, [ledger |-> ledger, minted |-> minted, ok |-> TRUE], start, c.minted)
  BY <1>1, <1>3, <1>4 DEF Synced
<1> QED
  BY <1>5 DEF Starts

\* The keys minted between m and n.
MintedBetween(m, n) ==
  /\ \A i \in 1 .. n - m : m + i > m
  /\ \A k \in Nat : k > m /\ k <= n => \E i \in 1 .. n - m : m + i = k

LEMMA MintedIs ==
  ASSUME NEW m \in Nat, NEW n \in Nat, m <= n
  PROVE  MintedBetween(m, n)
<1>1. \A i \in 1 .. n - m : m + i > m
  OBVIOUS
<1>2. ASSUME NEW k \in Nat, k > m, k <= n
      PROVE  \E i \in 1 .. n - m : m + i = k
  <2>1. k - m \in 1 .. n - m /\ m + (k - m) = k
    BY <1>2
  <2> QED
    BY <2>1
<1> QED
  BY <1>1, <1>2 DEF MintedBetween

\* A batch run.
LEMMA MineMirrors ==
  ASSUME MirrorInv, NEW s \in Signers, Mine(s)
  PROVE  MirrorInv'
<1> DEFINE c == Executed(s, plan[s].ops)
           keys == [j \in 1 .. c.minted - minted |-> minted + j]
           start == [alive |-> alive, reserved |-> reserved, keys |-> keys]
<1>1. /\ PoolInv /\ lost \in Nat /\ s \in InFlight
      /\ Foreseen(plan[s].ops) /\ minted \in Nat
  BY DEF MirrorInv, Mine, InFlight, PoolInv, PoolTypeOK
<1>2. PoolInv' /\ MineMoves(s, c)
  BY <1>1, MineKeeps
<1>3. /\ ~Ran(s) /\ plan[s].keys = <<>> /\ ToSet(plan[s].keys) = {}
  <2>1. ~Ran(s)
    BY <1>2 DEF MineMoves, Ran
  <2>2. plan[s].keys = <<>>
    BY <1>1, <2>1 DEF MirrorInv
  <2> QED
    BY <2>1, <2>2 DEF ToSet
<1>4. /\ \A t \in InFlight : plan'[t].ops = plan[t].ops /\ Named(t)' = Named(t)
      /\ \A t \in InFlight : t # s => (Ran(t)' <=> Ran(t))
      /\ Ran(s)' <=> c.ok
      /\ InFlight' = InFlight
  <2>1. \A t \in InFlight : plan'[t].ops = plan[t].ops
    BY <1>2 DEF MineMoves
  <2> HIDE DEF c
  <2>2. plan'[s].status = IF c.ok THEN "executed" ELSE "reverted"
    BY <1>2 DEF MineMoves
  <2>3. Ran(s)' <=> c.ok
    BY <2>2 DEF Ran
  <2> QED
    BY <1>2, <2>1, <2>3 DEF MineMoves, Named, Ran
<1>5. c \in ChainRecords
  BY <1>1, ExecutedIs
<1>6. /\ ~c.ok => ledger' = ledger /\ minted' = minted
      /\ c.ok => ledger' = c.ledger /\ minted' = c.minted /\ plan'[s].keys = keys
      /\ minted' \in Nat /\ minted <= minted'
      /\ plan'[s].keys = [i \in 1 .. minted' - minted |-> minted + i]
      /\ alive' = alive /\ expired' = expired /\ reserved' = reserved
      /\ height' = height /\ lost' = lost
  <2> HIDE DEF c
  <2>1. /\ ledger' = IF c.ok THEN c.ledger ELSE ledger
        /\ minted' = IF c.ok THEN c.minted ELSE minted
        /\ plan'[s].keys = [i \in 1 .. minted' - minted |-> minted + i]
        /\ alive' = alive /\ expired' = expired /\ reserved' = reserved
        /\ height' = height /\ lost' = lost
    BY <1>2 DEF MineMoves
  <2>2. c.minted \in Nat /\ minted <= c.minted
    BY <1>5 DEF ChainRecords
  <2>3. c.ok => minted' = c.minted /\ ledger' = c.ledger
    BY <2>1
  <2>4. c.ok => plan'[s].keys = keys
    BY <2>1, <2>3
  <2>5. ~c.ok => minted' = minted /\ ledger' = ledger
    BY <2>1
  <2>6. minted' \in Nat /\ minted <= minted'
    BY <1>1, <2>2, <2>3, <2>5
  <2> QED
    BY <2>1, <2>3, <2>4, <2>5, <2>6
<1>7. \A t \in InFlight' : Foreseen(plan[t].ops)' /\ (~Ran(t)' => plan'[t].keys = <<>>)
  <2>1. ~c.ok => plan'[s].keys = <<>>
    <3>1. ASSUME ~c.ok
          PROVE  plan'[s].keys = <<>>
      <4>1. minted' - minted = 0
        <5>1. minted' = minted /\ minted \in Nat
          BY <1>1, <1>6, <3>1
        <5> QED
          BY <5>1
      <4>2. 1 .. 0 = {}
        OBVIOUS
      <4> QED
        BY <1>6, <4>1, <4>2
    <3> QED
      BY <3>1
  <2>2. \A t \in InFlight : Foreseen(plan[t].ops)'
    BY <1>4, <1>6 DEF MirrorInv, Foreseen
  <2>3. \A t \in InFlight : t # s => (~Ran(t)' => plan'[t].keys = <<>>)
    BY <1>2, <1>4 DEF MirrorInv, MineMoves
  <2> QED
    BY <1>4, <2>1, <2>2, <2>3
<1>8. /\ \A i \in 1 .. minted' - minted : minted + i > minted
      /\ \A k \in Nat : k > minted /\ k <= minted' =>
           \E i \in 1 .. minted' - minted : minted + i = k
  <2>1. minted \in Nat /\ minted' \in Nat /\ minted <= minted'
    BY <1>1, <1>6
  <2>2. MintedBetween(minted, minted')
    BY <2>1, MintedIs
  <2> QED
    BY <2>2 DEF MintedBetween
<1> SUFFICES ASSUME lost = 0 PROVE InStep'
  BY <1>1, <1>2, <1>6, <1>7 DEF MirrorInv
<1>9. /\ \A k \in Keys : Mirrors(k) /\ Remembered(k) /\ k \in Nat
      /\ \A t \in InFlight : Ran(t) => Settled(t)
      /\ KeysFresh /\ ReservationsExclusive
  BY <1>1 DEF MirrorInv, InStep, PoolInv, Keys
<1>10. c.ok => Synced(s, c, Outcome(s)', c.minted)
  <2>1. ASSUME c.ok, NEW d, NEW ks, NEW p, d = c, ks = keys, p = start
        PROVE  Synced(s, d, Mirrored(s, p, plan[s].ops), d.minted)
    <3>1. Starts(s, d, ks, p)
      BY <1>1, <1>3, <2>1, MineStarts
    <3> HIDE DEF c
    <3> QED
      BY <1>1, <3>1, RunSyncs
  <2>2. c.ok => Outcome(s)' = Mirrored(s, start, plan[s].ops)
    BY <1>1, <1>4, <1>6 DEF Outcome
  <2> HIDE DEF c, start
  <2> QED
    BY <2>1, <2>2
<1> HIDE DEF c, keys, start
<1>11. /\ \A k \in Keys : k \notin Named(s) /\ k <= minted => ledger'[k] = ledger[k]
       /\ \A k \in Keys : k > minted' => ledger'[k] = NoEntry
  <2>1. CASE c.ok
    BY <1>6, <1>10, <2>1 DEF Synced
  <2>2. CASE ~c.ok
    BY <1>1, <1>6, <1>9, <2>2 DEF Remembered
  <2> QED
    BY <2>1, <2>2
<1>12. ASSUME NEW k \in Keys
       PROVE  Mirrors(k)'
  <2>1. SUFFICES ASSUME alive[k] # NoEntry, \A t \in InFlight : Ran(t)' => k \notin Named(t)
                 PROVE  Agrees(alive[k], ledger'[k])
    BY <1>4, <1>6 DEF Mirrors
  <2>2. k <= minted
    BY <1>9, <2>1 DEF KeysFresh, InPool
  <2>3. ledger'[k] = ledger[k]
    BY <1>1, <1>4, <1>6, <1>11, <2>1, <2>2
  <2>4. \A t \in InFlight : Ran(t) => k \notin Named(t)
    BY <1>3, <1>4, <2>1
  <2> QED
    BY <1>9, <2>1, <2>3, <2>4 DEF Mirrors
<1>13. ASSUME NEW k \in Keys, ledger'[k] # NoEntry
       PROVE  k <= minted' /\ (InPool(k)' \/ \E t \in InFlight' : k \in ToSet(plan'[t].keys))
  <2>1. k \in Nat /\ k <= minted'
    BY <1>6, <1>9, <1>11, <1>13
  <2>2. CASE k > minted
    <3>1. PICK i \in 1 .. minted' - minted : minted + i = k
      BY <1>8, <2>1, <2>2
    <3>2. k \in ToSet(plan'[s].keys)
      BY <1>6, <3>1 DEF ToSet
    <3> QED
      BY <1>1, <1>4, <2>1, <3>2
  <2>3. CASE k <= minted /\ k \in Named(s)
    <3>1. InPool(k)
      BY <1>1, <2>3, NamedInPool
    <3> QED
      BY <1>6, <2>1, <3>1 DEF InPool
  <2>4. CASE k <= minted /\ k \notin Named(s)
    <3>1. InPool(k) \/ \E t \in InFlight : k \in ToSet(plan[t].keys)
      BY <1>9, <1>11, <1>13, <2>4 DEF Remembered
    <3>2. InPool(k) => InPool(k)'
      BY <1>6 DEF InPool
    <3>3. \A t \in InFlight : k \in ToSet(plan[t].keys) => k \in ToSet(plan'[t].keys)
      BY <1>2, <1>3 DEF MineMoves
    <3> QED
      BY <1>4, <2>1, <3>1, <3>2, <3>3
  <2> QED
    BY <1>1, <2>1, <2>2, <2>3, <2>4
<1>14. ASSUME NEW t \in InFlight, t # s, Ran(t)'
       PROVE  Settled(t)'
  <2>1. plan'[t] = plan[t] /\ t \in InFlight' /\ Settled(t)
    BY <1>2, <1>4, <1>9, <1>14 DEF MineMoves
  <2>2. ASSUME NEW k \in Keys, k \in Touched(t)
        PROVE  ledger'[k] = ledger[k]
    <3>1. k \notin Touched(s)
      BY <1>1, <1>14, <2>2, TouchedApart
    <3>2. k <= minted
      <4>1. k \in Named(t) => InPool(k)
        BY <1>1, NamedInPool
      <4> QED
        BY <1>9, <2>2, <4>1 DEF Touched, KeysFresh
    <3> QED
      BY <1>11, <3>1, <3>2 DEF Touched
  <2> QED
    BY <1>1, <1>2, <1>6, <2>1, <2>2, OutcomeLocal
<1>15. ASSUME Ran(s)'
       PROVE  Settled(s)'
  <2>1. Synced(s, c, Outcome(s)', c.minted) /\ ledger' = c.ledger /\ minted' = c.minted
    BY <1>4, <1>6, <1>10, <1>15
  <2>2. ASSUME NEW k \in Keys, k \in Touched(s)'
        PROVE  k \in Named(s) \/ k > minted
    <3>1. k \in Named(s) \/ k \in ToSet(plan'[s].keys)
      BY <1>1, <1>4, <2>2 DEF Touched
    <3>2. k \in ToSet(plan'[s].keys) => k > minted
      BY <1>6, <1>8 DEF ToSet
    <3> QED
      BY <3>1, <3>2
  <2>3. \A k \in Keys : k \in Touched(s)' =>
          Matched(Outcome(s)'.alive[k], k \in Outcome(s)'.reserved, ledger'[k])
    BY <2>1, <2>2 DEF Synced
  <2> QED
    BY <2>3 DEF Settled
<1> QED
  BY <1>4, <1>12, <1>13, <1>14, <1>15 DEF InStep, Remembered

LEMMA MirrorInit == Init => MirrorInv
<1> SUFFICES ASSUME Init PROVE MirrorInv
  OBVIOUS
<1>1. /\ plan = [s \in Signers |-> NoPlan] /\ lost = 0
      /\ \A k \in Keys : alive[k] = NoEntry /\ ledger[k] = NoEntry
  BY DEF Init
<1>2. PoolInv
  BY PoolInit
<1>3. InFlight = {}
  BY <1>1 DEF InFlight
<1>4. InStep
  BY <1>1, <1>3 DEF InStep, Mirrors, Remembered
<1> QED
  BY <1>1, <1>2, <1>3, <1>4 DEF MirrorInv

LEMMA MirrorStep == MirrorInv /\ [Next]_vars => MirrorInv'
<1> SUFFICES ASSUME MirrorInv, [Next]_vars PROVE MirrorInv'
  OBVIOUS
<1>1. height \in Nat
  BY DEF MirrorInv, PoolInv, PoolTypeOK
<1>2. CASE NewBlock
  <2>1. height' = height + 1 /\ UNCHANGED <<poolVars, plan, ledger, minted, lost>>
    BY <1>2 DEF NewBlock, countVars
  <2>2. height' \in Nat /\ height <= height'
    BY <1>1, <2>1
  <2> QED
    BY <2>1, <2>2, OthersMirror
<1>3. ASSUME NEW s \in Signers, NEW block \in 0 .. height - 1, Build(s, block)
      PROVE  MirrorInv'
  BY <1>3, BuildMirrors
<1>4. ASSUME NEW s \in Signers, SendFails(s)
      PROVE  MirrorInv'
  BY <1>4, FailureMirrors DEF SendFails, InFlight, Ran, countVars
<1>5. ASSUME NEW s \in Signers, ReceiptArrives(s)
      PROVE  MirrorInv'
  BY <1>5, SuccessMirrors, FailureMirrors DEF ReceiptArrives, InFlight, Ran, countVars
<1>6. ASSUME NEW s \in Signers, ReceiptLost(s)
      PROVE  MirrorInv'
  BY <1>6, LossMirrors DEF ReceiptLost, InFlight
<1>7. ASSUME NEW s \in Signers, Mine(s)
      PROVE  MirrorInv'
  BY <1>7, MineMirrors
<1>8. CASE UNCHANGED vars
  <2>1. UNCHANGED <<poolVars, plan, ledger, minted, lost>> /\ height' = height
    BY <1>8 DEF vars, chainVars, countVars
  <2> QED
    BY <1>1, <2>1, OthersMirror
<1> QED
  BY <1>2, <1>3, <1>4, <1>5, <1>6, <1>7, <1>8 DEF Next

LEMMA MirrorInvariant == Spec => []MirrorInv
BY MirrorInit, MirrorStep, PTL DEF Spec

LEMMA MirrorHolds ==
  ASSUME MirrorInv
  PROVE  PoolMirrorsChain
<1> SUFFICES ASSUME lost = 0, NEW k \in Keys, alive[k] # NoEntry, ~alive[k].pending
             PROVE  Agrees(alive[k], ledger[k])
  BY DEF PoolMirrorsChain, Agrees
<1>1. PoolInv /\ PlacesApart /\ Mirrors(k)
  BY DEF MirrorInv, PoolInv, InStep
<1>2. \A s \in InFlight : k \notin Named(s)
  BY <1>1, NamedInPool DEF PlacesApart
<1> QED
  BY <1>1, <1>2 DEF Mirrors

\* As long as no receipt was lost, an entity of the pool that no batch holds
\* is on the chain with the pool's owner and no earlier expiry: what
\* apply_success and apply_failure write into the pool is what the chain did,
\* in whatever order the receipts of the signers come in.
THEOREM MirrorStaysTrue == Spec => []PoolMirrorsChain
BY MirrorInvariant, MirrorHolds, PTL

(***************************************************************************)
(* The reservations                                                        *)
(***************************************************************************)

\* The reservations that no batch in flight names are those of plans given up.
Accounted == dropped = {k \in reserved : \A s \in InFlight : k \notin Named(s)}

\* Recording a batch uses up all it has reserved.
LEMMA SuccessFrees ==
  ASSUME PoolInv, NEW s \in InFlight
  PROVE  Outcome(s).reserved = reserved \ Named(s)
<1> DEFINE ops == plan[s].ops
           last == Len(ops)
           S == PoolRecords(alive, reserved, ToSet(plan[s].keys), Named(s))
           start == [alive |-> alive, reserved |-> reserved, keys |-> plan[s].keys]
<1>1. PICK f \in [0 .. last -> S] : Records(f, s, start, ops) /\ Outcome(s) = f[last]
  <2> HIDE DEF S
  <2> QED
    BY OutcomeUnfolds DEF S
<1>2. /\ last \in Nat /\ DOMAIN ops = 1 .. last
      /\ \A n \in 1 .. last : Recordable(ops[n], Named(s))
  <2>1. AllRecordable(ops, Named(s))
    BY BatchRecordable
  <2> HIDE DEF ops
  <2> QED
    BY <2>1 DEF AllRecordable
<1>3. \A n \in 1 .. last : f[n] = AfterSuccess(s, f[n - 1], ops[n])
  BY <1>1 DEF Records
<1>4. \A n \in 0 .. last : f[n] \in S
  BY <1>1
<1>5. \A k \in reserved : k \in Named(s) =>
        \E i \in 1 .. last : ops[i].kind = "EXPIRE" /\ ops[i].key = k
  BY <1>2, NamedInPool DEF Named
<1> HIDE DEF last, ops
<1> DEFINE Clear(n) ==
             \A i \in 1 .. n : ops[i].kind = "EXPIRE" => ops[i].key \notin f[n].reserved
           Kept == {n \in 0 .. last : ~Clear(n)}
<1>6. ASSUME Kept # {} PROVE FALSE
  <2>1. PICK m \in Kept : m \in Nat /\ \A k \in Kept : m <= k
    <3>1. Kept \subseteq Nat
      BY <1>2
    <3> HIDE DEF Kept
    <3> QED
      BY <1>6, <3>1, Smallest
  <2>2. m # 0
    OBVIOUS
  <2>3. m \in 1 .. last /\ m - 1 \in 0 .. last /\ ~(m <= m - 1)
    BY <1>2, <2>1, <2>2
  <2>4. Clear(m - 1)
    BY <2>1, <2>3
  <2>5. Recorded(s, f[m - 1], ops[m], f[m])
    <3>1. f[m - 1] \in S /\ Recordable(ops[m], Named(s)) /\ f[m] = AfterSuccess(s, f[m - 1], ops[m])
      BY <1>2, <1>3, <1>4, <2>3
    <3> QED
      BY <3>1, AfterSuccessIs
  <2>6. ASSUME NEW i \in 1 .. m, ops[i].kind = "EXPIRE"
        PROVE  ops[i].key \notin f[m].reserved
    <3>1. CASE i = m
      BY <2>5, <2>6, <3>1 DEF Recorded
    <3>2. CASE i # m
      <4>1. i \in 1 .. m - 1
        BY <2>3, <3>2
      <4>2. ops[i].key \notin f[m - 1].reserved
        BY <2>4, <2>6, <4>1
      <4> QED
        BY <2>5, <4>2 DEF Recorded
    <3> QED
      BY <3>1, <3>2
  <2> QED
    BY <2>1, <2>6
<1>7. Clear(last)
  <2>1. last \in 0 .. last
    BY <1>2
  <2> QED
    BY <1>6, <2>1
<1>8. /\ Outcome(s).reserved \subseteq reserved
      /\ \A k \in reserved : k \notin Named(s) => k \in Outcome(s).reserved
  BY OutcomeIs DEF PoolRecords
<1>9. \A k \in reserved : k \in Named(s) => k \notin Outcome(s).reserved
  BY <1>1, <1>5, <1>7
<1> QED
  BY <1>8, <1>9

\* So does giving it back.
LEMMA FailureFrees ==
  ASSUME PoolInv, NEW s \in InFlight
  PROVE  ToSet(Candidates(plan[s].ops)) = reserved \cap Named(s)
<1> DEFINE ops == plan[s].ops
           back == Candidates(ops)
<1>1. /\ ops \in Seq(Ops) /\ ExpiresOnce(ops) /\ reserved \subseteq Keys /\ NoKey \notin Keys
  BY PlanIs, SimulatorAssumption DEF PoolInv, PoolTypeOK
<1>2. /\ \A j \in DOMAIN back : \E i \in DOMAIN ops :
           ops[i].key \in reserved /\ back[j] = ops[i].key
      /\ \A i \in DOMAIN ops : ops[i].kind = "EXPIRE" /\ ops[i].key \in reserved =>
           \E j \in DOMAIN back : back[j] = ops[i].key
  <2> HIDE DEF ops
  <2> QED
    BY <1>1, CandidatesAre
<1>3. \A k \in Named(s) : k \in reserved =>
        \E i \in DOMAIN ops : ops[i].kind = "EXPIRE" /\ ops[i].key = k
  BY NamedInPool DEF Named
<1> HIDE DEF back
<1>4. ToSet(back) \subseteq reserved \cap Named(s)
  BY <1>1, <1>2 DEF ToSet, Named
<1>5. reserved \cap Named(s) \subseteq ToSet(back)
  BY <1>2, <1>3 DEF ToSet
<1> QED
  BY <1>4, <1>5 DEF back

\* The end of a batch takes its reservations with it, and no others.
LEMMA ReleaseAccounts ==
  ASSUME PoolInv, Accounted, NEW s \in InFlight, Release(s), dropped' = dropped,
         reserved' = reserved \ Named(s)
  PROVE  Accounted'
<1>1. plan = [t \in Signers |-> plan[t]] /\ s \in Signers
  BY DEF PoolInv, PoolTypeOK, InFlight
<1>2. \A t : t \in InFlight' <=> t \in InFlight /\ t # s
  BY <1>1 DEF Release, InFlight
<1>3. \A t \in InFlight' : Named(t)' = Named(t)
  BY <1>1, <1>2 DEF Release, InFlight, Named
<1> QED
  BY <1>2, <1>3 DEF Accounted

LEMMA AccountedStep == PoolInv /\ Accounted /\ [Next]_vars => Accounted'
<1> SUFFICES ASSUME PoolInv, Accounted, [Next]_vars PROVE Accounted'
  OBVIOUS
<1>1. ASSUME UNCHANGED <<reserved, dropped>>, InFlight' = InFlight,
             \A t \in InFlight : Named(t)' = Named(t)
      PROVE  Accounted'
  BY <1>1 DEF Accounted
<1>2. ASSUME UNCHANGED <<reserved, dropped, plan>> PROVE Accounted'
  BY <1>1, <1>2 DEF InFlight, Named
<1>3. CASE NewBlock
  BY <1>2, <1>3 DEF NewBlock, poolVars, countVars
<1>4. ASSUME NEW s \in Signers, NEW block \in 0 .. height - 1, Build(s, block)
      PROVE  Accounted'
  <2>1. PICK taken : Reserving(s, taken) /\ BuildMoves(s)
    BY <1>4, BuildKeeps
  <2>2. /\ s \notin InFlight /\ \A t \in InFlight : t \in InFlight' /\ Named(t)' = Named(t)
        /\ \A t \in InFlight' : t = s \/ t \in InFlight
    BY <2>1 DEF BuildMoves, InFlight, Named
  <2>3. CASE plan' = plan /\ dropped' = dropped \cup taken
    <3>1. InFlight' = InFlight
      BY <2>3 DEF InFlight
    <3> QED
      BY <2>1, <2>2, <2>3, <3>1 DEF Reserving, Accounted
  <2>4. CASE dropped' = dropped /\ s \in InFlight'
             /\ taken \subseteq Named(s)' /\ Named(s)' \cap reserved = {}
    BY <2>1, <2>2, <2>4 DEF Reserving, Accounted
  <2> QED
    BY <2>1, <2>3, <2>4 DEF Reserving
<1>5. ASSUME NEW s \in InFlight, ApplyFailure(s), Release(s), dropped' = dropped
      PROVE  Accounted'
  <2>1. reserved' = reserved \ ToSet(Candidates(plan[s].ops))
    BY <1>5 DEF ApplyFailure
  <2>2. reserved' = reserved \ Named(s)
    BY <2>1, FailureFrees
  <2> QED
    BY <1>5, <2>2, ReleaseAccounts
<1>6. ASSUME NEW s \in InFlight, ApplySuccess(s), Release(s), dropped' = dropped
      PROVE  Accounted'
  <2>1. reserved' = reserved \ Named(s)
    BY <1>6, SuccessFrees DEF ApplySuccess
  <2> QED
    BY <1>6, <2>1, ReleaseAccounts
<1>7. ASSUME NEW s \in Signers, SendFails(s) \/ ReceiptLost(s) \/ ReceiptArrives(s)
      PROVE  Accounted'
  BY <1>5, <1>6, <1>7 DEF SendFails, ReceiptLost, ReceiptArrives, countVars, InFlight
<1>8. ASSUME NEW s \in Signers, Mine(s)
      PROVE  Accounted'
  <2>1. MineMoves(s, Executed(s, plan[s].ops)) /\ dropped' = dropped
    BY <1>8, MineKeeps DEF Mine, countVars
  <2>2. InFlight' = InFlight /\ reserved' = reserved
        /\ \A t \in InFlight : plan'[t].ops = plan[t].ops
    BY <2>1 DEF MineMoves
  <2> QED
    BY <1>1, <2>1, <2>2 DEF Named
<1>9. CASE UNCHANGED vars
  BY <1>2, <1>9 DEF vars, poolVars, countVars
<1> QED
  BY <1>3, <1>4, <1>7, <1>8, <1>9 DEF Next

LEMMA AccountedInvariant == Spec => []Accounted
<1>1. Init => Accounted
  BY DEF Init, Accounted
<1> QED
  BY <1>1, PoolInvariant, AccountedStep, PTL DEF Spec

\* Where an entity is, spelled out.
LEMMA PlaceIs ==
  ASSUME NEW k \in Keys, NEW place
  PROVE  place \in Places(k) <=>
           \/ alive[k] # NoEntry /\ place = <<"alive", k>>
           \/ \E i \in DOMAIN expired : expired[i] = k /\ place = <<"expired", i>>
           \/ \E s \in InFlight : k \in reserved /\ k \in Named(s) /\ place = <<"batch", s>>
           \/ \E s \in InFlight : k \in ToSet(plan[s].keys) /\ place = <<"receipt", s>>
BY DEF Places

LEMMA OnePlace ==
  ASSUME MirrorInv, Accounted, lost = 0, NEW k \in Keys, ledger[k] # NoEntry, k \notin dropped
  PROVE  \E place : Places(k) = {place}
<1>1. /\ PlacesApart /\ KeysFresh /\ ReservationsExclusive
      /\ InPool(k) \/ \E s \in InFlight : k \in ToSet(plan[s].keys)
  BY DEF MirrorInv, PoolInv, InStep, Remembered
<1>2. k \in ToSet(expired) <=> \E i \in DOMAIN expired : expired[i] = k
  BY DEF ToSet
<1>3. ASSUME NEW place, \A other : other \in Places(k) <=> other = place
      PROVE  Places(k) = {place}
  BY <1>3
<1>4. CASE alive[k] # NoEntry
  <2>1. /\ k \notin reserved /\ \A i \in DOMAIN expired : expired[i] # k
        /\ \A s \in InFlight : k \notin ToSet(plan[s].keys)
    BY <1>1, <1>2, <1>4 DEF PlacesApart, KeysFresh, InPool
  <2> DEFINE place == <<"alive", k>>
  <2>2. \A other : other \in Places(k) <=> other = place
    BY <1>4, <2>1, PlaceIs
  <2>3. Places(k) = {place}
    <3> HIDE DEF place
    <3> QED
      BY <1>3, <2>2
  <2> QED
    BY <2>3
<1>5. CASE k \in reserved
  <2>1. PICK s \in InFlight : k \in Named(s)
    BY <1>5 DEF Accounted
  <2>2. /\ alive[k] = NoEntry /\ \A i \in DOMAIN expired : expired[i] # k
        /\ \A t \in InFlight : k \notin ToSet(plan[t].keys)
        /\ \A t \in InFlight : k \in Named(t) => t = s
    BY <1>1, <1>2, <1>5, <2>1 DEF PlacesApart, KeysFresh, InPool, ReservationsExclusive
  <2> DEFINE place == <<"batch", s>>
  <2>3. \A other : other \in Places(k) <=> other = place
    BY <1>5, <2>1, <2>2, PlaceIs
  <2>4. Places(k) = {place}
    <3> HIDE DEF place
    <3> QED
      BY <1>3, <2>3
  <2> QED
    BY <2>4
<1>6. CASE k \in ToSet(expired)
  <2>1. PICK i \in DOMAIN expired : expired[i] = k
    BY <1>2, <1>6
  <2>2. /\ alive[k] = NoEntry /\ k \notin reserved
        /\ \A j \in DOMAIN expired : expired[j] = k => j = i
        /\ \A s \in InFlight : k \notin ToSet(plan[s].keys)
    BY <1>1, <1>6, <2>1 DEF PlacesApart, KeysFresh, InPool, Once
  <2> DEFINE place == <<"expired", i>>
  <2>3. \A other : other \in Places(k) <=> other = place
    BY <2>1, <2>2, PlaceIs
  <2>4. Places(k) = {place}
    <3> HIDE DEF place
    <3> QED
      BY <1>3, <2>3
  <2> QED
    BY <2>4
<1>7. CASE ~InPool(k)
  <2>1. PICK s \in InFlight : k \in ToSet(plan[s].keys)
    BY <1>1, <1>7
  <2>2. /\ alive[k] = NoEntry /\ k \notin reserved
        /\ \A i \in DOMAIN expired : expired[i] # k
        /\ \A t \in InFlight : k \in ToSet(plan[t].keys) => t = s
    BY <1>1, <1>2, <1>7, <2>1 DEF KeysFresh, InPool
  <2> DEFINE place == <<"receipt", s>>
  <2>3. \A other : other \in Places(k) <=> other = place
    BY <2>1, <2>2, PlaceIs
  <2>4. Places(k) = {place}
    <3> HIDE DEF place
    <3> QED
      BY <1>3, <2>3
  <2> QED
    BY <2>4
<1> QED
  BY <1>4, <1>5, <1>6, <1>7 DEF InPool

LEMMA NoPlace ==
  ASSUME PoolInv, Accounted, NEW k \in Keys, k \in dropped
  PROVE  Places(k) = {}
<1>1. PlacesApart /\ KeysFresh /\ k \in reserved /\ \A s \in InFlight : k \notin Named(s)
  BY DEF PoolInv, Accounted
<1>2. /\ alive[k] = NoEntry /\ \A i \in DOMAIN expired : expired[i] # k
      /\ \A s \in InFlight : k \notin ToSet(plan[s].keys)
  BY <1>1 DEF PlacesApart, KeysFresh, InPool, ToSet
<1>3. \A place : place \notin Places(k)
  BY <1>1, <1>2, PlaceIs
<1> QED
  BY <1>3

LEMMA NothingElseLost ==
  ASSUME MirrorInv, Accounted
  PROVE  OnlyDroppedPlansForget
<1>1. ASSUME lost = 0, NEW k \in Keys, ledger[k] # NoEntry
      PROVE  Cardinality(Places(k)) = IF k \in dropped THEN 0 ELSE 1
  <2>1. CASE k \in dropped
    <3>1. Places(k) = {}
      BY <2>1, NoPlace DEF MirrorInv
    <3> QED
      BY <2>1, <3>1, FS_EmptySet
  <2>2. CASE k \notin dropped
    <3>1. PICK place : Places(k) = {place}
      BY <1>1, <2>2, OnePlace
    <3> QED
      BY <2>2, <3>1, FS_Singleton
  <2> QED
    BY <2>1, <2>2
<1> QED
  BY <1>1 DEF OnlyDroppedPlansForget

\* As long as no receipt was lost, every entity on the chain is in exactly one
\* of the pool, the queue of candidates for EXPIRE, a batch in flight that has
\* reserved it and the receipts under way, except the candidates of plans that
\* build_batch gave up, which are in none: promote_expired, build_batch and
\* the two outcomes of a batch move an entity from one place to the next and
\* never copy it, and giving up a plan is the only step that loses one.
THEOREM EveryOtherEntityKept == Spec => []OnlyDroppedPlansForget
BY AccountedInvariant, MirrorInvariant, NothingElseLost, PTL

(***************************************************************************)
(* The cap on the pool                                                     *)
(***************************************************************************)

\* What a batch may create.
Limit == Min({MaxOps, MaxAlive})

LEMMA LimitIs ==
  /\ Limit \in Nat /\ Limit <= MaxOps /\ Limit <= MaxAlive
  /\ \A n \in Nat : n <= MaxOps /\ n <= MaxAlive => n <= Limit
<1>1. MaxOps \in Nat /\ MaxAlive \in Nat
  BY SimulatorAssumption
<1>2. \E m \in {MaxOps, MaxAlive} : \A n \in {MaxOps, MaxAlive} : m <= n
  BY <1>1
<1>3. Limit \in {MaxOps, MaxAlive} /\ \A n \in {MaxOps, MaxAlive} : Limit <= n
  BY <1>2 DEF Limit, Min
<1> QED
  BY <1>1, <1>3

\* What one signer's batch adds is no more than what leaves the pool.
LEMMA CapKept ==
  ASSUME NEW f \in [Signers -> Nat], NEW g \in [Signers -> Nat], NEW s \in Signers,
         \A t \in Signers : t # s => f[t] = g[t],
         NEW a \in Nat, NEW b \in Nat, b + g[s] <= a + f[s],
         NEW cap \in Int, a + SumFunctionOnSet(f, Signers) <= cap
  PROVE  b + SumFunctionOnSet(g, Signers) <= cap
<1>1. IsFiniteSet(Signers) /\ \A t \in Signers : f[t] \in Int /\ g[t] \in Int
  BY SimulatorAssumption
<1>2. /\ SumFunctionOnSet(f, Signers) \in Int /\ SumFunctionOnSet(g, Signers) \in Int
      /\ SumFunctionOnSet(g, Signers) = SumFunctionOnSet(f, Signers) - f[s] + g[s]
  BY <1>1, SumChanges
<1>3. f[s] \in Int /\ g[s] \in Int
  BY <1>1
<1> QED
  BY <1>2, <1>3

\* One signer's batch fits under the cap, and the others' within the limit.
LEMMA CapBuilt ==
  ASSUME NEW g \in [Signers -> Nat], NEW s \in Signers, \A t \in Signers : g[t] <= Limit,
         NEW b \in Nat, b + g[s] <= MaxAlive
  PROVE  b + SumFunctionOnSet(g, Signers) <= MaxAlive + (Cardinality(Signers) - 1) * Limit
<1> DEFINE others == Signers \ {s}
           n == Cardinality(Signers) - 1
<1>1. /\ IsFiniteSet(Signers) /\ MaxAlive \in Nat /\ Limit \in Nat
      /\ \A t \in Signers : g[t] \in Int
  BY SimulatorAssumption, LimitIs
<1>2. IsFiniteSet(others) /\ Cardinality(others) = n /\ n \in Nat
  <2>1. IsFiniteSet(others) /\ Cardinality(others) = n
    BY <1>1, FS_RemoveElement
  <2> QED
    BY <2>1, FS_CardinalityType
<1>3. SumFunctionOnSet(g, others) <= n * Limit
  BY <1>1, <1>2, SumBounded
<1>4. SumFunctionOnSet(g, Signers) = g[s] + SumFunctionOnSet(g, others)
  BY <1>1, SumTakes
<1>5. SumFunctionOnSet(g, others) \in Int /\ g[s] \in Int
  BY <1>1, <1>2, SumTakesSome
<1>6. n * Limit \in Int
  BY <1>1, <1>2
<1> HIDE DEF n, others
<1>7. b + SumFunctionOnSet(g, Signers) <= MaxAlive + n * Limit
  BY <1>1, <1>3, <1>4, <1>5, <1>6
<1> QED
  BY <1>7 DEF n

\* Keys of the entities in a pool.
Live(entries) == {k \in Keys : entries[k] # NoEntry}

LEMMA LiveFinite ==
  ASSUME NEW entries
  PROVE  /\ IsFiniteSet(Live(entries)) /\ Cardinality(Live(entries)) \in Nat
         /\ \A T \in SUBSET Live(entries) :
              IsFiniteSet(T) /\ Cardinality(T) <= Cardinality(Live(entries))
<1>1. IsFiniteSet(Keys)
  BY SimulatorAssumption, FS_Interval DEF Keys
<1>2. IsFiniteSet(Live(entries))
  BY <1>1, FS_Subset DEF Live
<1> QED
  BY <1>2, FS_Subset, FS_CardinalityType

LEMMA OneMore ==
  ASSUME NEW T, IsFiniteSet(T), NEW x, NEW U, U \subseteq T \cup {x}
  PROVE  Cardinality(U) <= Cardinality(T) + 1
<1>1. /\ IsFiniteSet(T \cup {x}) /\ Cardinality(T) \in Nat
      /\ Cardinality(T \cup {x}) = IF x \in T THEN Cardinality(T) ELSE Cardinality(T) + 1
  BY FS_AddElement, FS_CardinalityType
<1>2. IsFiniteSet(U) /\ Cardinality(U) <= Cardinality(T \cup {x})
  BY <1>1, FS_Subset
<1>3. Cardinality(U) \in Nat
  BY <1>2, FS_CardinalityType
<1> QED
  BY <1>1, <1>2, <1>3

\* The operations of one kind among the first of a batch.
OfKind(kind, ops, n) == {i \in 1 .. n : ops[i].kind = kind}

LEMMA OfKindFinite ==
  ASSUME NEW kind, NEW ops, NEW n \in Nat
  PROVE  /\ IsFiniteSet(OfKind(kind, ops, n)) /\ Cardinality(OfKind(kind, ops, n)) \in Nat
         /\ Cardinality(OfKind(kind, ops, n)) <= n
<1>1. IsFiniteSet(1 .. n) /\ Cardinality(1 .. n) = n
  BY FS_Interval
<1>2. OfKind(kind, ops, n) \in SUBSET (1 .. n)
  BY DEF OfKind
<1>3. /\ IsFiniteSet(OfKind(kind, ops, n))
      /\ Cardinality(OfKind(kind, ops, n)) <= Cardinality(1 .. n)
  BY <1>1, <1>2, FS_Subset
<1> QED
  BY <1>1, <1>3, FS_CardinalityType

LEMMA CountIs ==
  ASSUME NEW kind, NEW ops, ops \in Seq(Ops)
  PROVE  /\ CountOf(kind, ops) = Cardinality(OfKind(kind, ops, Len(ops)))
         /\ CountOf(kind, ops) \in Nat /\ CountOf(kind, ops) <= Len(ops)
<1>1. Len(ops) \in Nat /\ DOMAIN ops = 1 .. Len(ops)
  OBVIOUS
<1>2. CountOf(kind, ops) = Cardinality(OfKind(kind, ops, Len(ops)))
  BY <1>1 DEF CountOf, OfKind
<1> QED
  BY <1>1, <1>2, OfKindFinite

\* A batch recorded adds at most its CREATEs to the pool.
LEMMA OutcomeGrows ==
  ASSUME PoolInv, NEW s \in InFlight
  PROVE  Cardinality(Live(Outcome(s).alive)) <=
           Cardinality(Live(alive)) + CountOf("CREATE", plan[s].ops)
<1> DEFINE ops == plan[s].ops
           last == Len(ops)
           start == [alive |-> alive, reserved |-> reserved, keys |-> plan[s].keys]
           S == PoolRecords(alive, reserved, ToSet(plan[s].keys), Named(s))
           C(n) == OfKind("CREATE", ops, n)
<1>1. s \in Signers /\ AllRecordable(ops, Named(s)) /\ start \in S /\ reserved \subseteq Keys
  BY BatchRecordable DEF PoolInv, PoolTypeOK
<1>2. ops \in Seq(Ops) /\ last \in Nat /\ \A n \in 1 .. last : Recordable(ops[n], Named(s))
  BY <1>1 DEF AllRecordable
<1>3. PICK f \in [0 .. last -> S] : Records(f, s, start, ops) /\ Outcome(s) = f[last]
  BY OutcomeUnfolds
<1>4. /\ f[0] = start
      /\ \A n \in 1 .. last : f[n] = AfterSuccess(s, f[n - 1], ops[n])
  BY <1>3 DEF Records
<1> DEFINE Size(n) == Cardinality(Live(f[n].alive))
           Wrong == {n \in 0 .. last : ~(Size(n) <= Size(0) + Cardinality(C(n)))}
<1>5. /\ \A n \in 0 .. last : Size(n) \in Nat /\ IsFiniteSet(Live(f[n].alive))
      /\ \A n \in Nat : Cardinality(C(n)) \in Nat /\ IsFiniteSet(C(n))
  <2> HIDE DEF last, ops
  <2> QED
    BY LiveFinite, OfKindFinite
<1>6. ASSUME NEW n \in 1 .. last
      PROVE  /\ Size(n) <= Size(n - 1) + (IF ops[n].kind = "CREATE" THEN 1 ELSE 0)
             /\ Cardinality(C(n)) = Cardinality(C(n - 1))
                                      + (IF ops[n].kind = "CREATE" THEN 1 ELSE 0)
  <2> DEFINE p == f[n - 1]
             q == f[n]
             op == ops[n]
  <2>1. n \in Nat /\ n - 1 \in 0 .. last /\ n \in 0 .. last /\ n - 1 \in Nat
    BY <1>2
  <2>2. p \in S /\ Recordable(op, Named(s))
    <3> HIDE DEF S, last
    <3> QED
      BY <1>2, <1>3, <2>1
  <2>3. q = AfterSuccess(s, p, op)
    BY <1>4
  <2>4. Recorded(s, p, op, q)
    <3> HIDE DEF p, op, q
    <3> QED
      BY <2>2, <2>3, AfterSuccessIs
  <2>5. CASE op.kind = "CREATE"
    <3>1. Live(q.alive) \subseteq Live(p.alive) \cup {Head(p.keys)}
      <4> HIDE DEF p, op, q
      <4> QED
        BY <2>4, <2>5 DEF Recorded, EntryAfter, Live
    <3>2. Size(n) <= Size(n - 1) + 1
      BY <1>5, <2>1, <3>1, OneMore
    <3>3. C(n) = C(n - 1) \cup {n} /\ n \notin C(n - 1)
      <4>1. \A i : i \in 1 .. n <=> i \in 1 .. n - 1 \/ i = n
        BY <2>1
      <4>2. n \notin 1 .. n - 1
        BY <2>1
      <4> QED
        BY <2>5, <4>1, <4>2 DEF OfKind
    <3>4. Cardinality(C(n)) = Cardinality(C(n - 1)) + 1
      BY <1>5, <2>1, <3>3, FS_AddElement
    <3> HIDE DEF Size, C
    <3> QED
      BY <2>5, <3>2, <3>4
  <2>6. CASE op.kind # "CREATE"
    <3>1. Live(q.alive) \subseteq Live(p.alive)
      <4> HIDE DEF p, op, q
      <4> QED
        BY <2>4, <2>6 DEF Recorded, EntryAfter, Live
    <3>2. Size(n) <= Size(n - 1)
      BY <1>5, <2>1, <3>1, FS_Subset
    <3>3. C(n) = C(n - 1)
      <4>1. \A i : i \in 1 .. n <=> i \in 1 .. n - 1 \/ i = n
        BY <2>1
      <4> QED
        BY <2>6, <4>1 DEF OfKind
    <3>4. Size(n) \in Nat /\ Size(n - 1) \in Nat /\ Cardinality(C(n - 1)) \in Nat
      BY <1>5, <2>1
    <3> HIDE DEF Size, C
    <3> QED
      BY <2>6, <3>2, <3>3, <3>4
  <2> QED
    BY <2>5, <2>6
<1>7. ASSUME Wrong # {} PROVE FALSE
  <2>1. PICK m \in Wrong : m \in Nat /\ \A k \in Wrong : m <= k
    <3>1. Wrong \subseteq Nat
      OBVIOUS
    <3> HIDE DEF Wrong
    <3> QED
      BY <1>7, <3>1, Smallest
  <2>2. m # 0
    <3>1. C(0) = {}
      BY DEF OfKind
    <3>2. Cardinality(C(0)) = 0 /\ Size(0) \in Nat
      BY <1>2, <1>5, <3>1, FS_EmptySet
    <3>3. Size(0) <= Size(0) + Cardinality(C(0))
      <4> HIDE DEF Size, C
      <4> QED
        BY <3>2
    <3> QED
      BY <2>1, <3>3
  <2>3. m \in 1 .. last /\ m - 1 \in 0 .. last /\ ~(m <= m - 1) /\ m \in 0 .. last /\ m - 1 \in Nat
    BY <1>2, <2>1, <2>2
  <2>4. Size(m - 1) <= Size(0) + Cardinality(C(m - 1))
    BY <2>1, <2>3
  <2>5. ~(Size(m) <= Size(0) + Cardinality(C(m)))
    BY <2>1
  <2>6. /\ Size(m) \in Nat /\ Size(m - 1) \in Nat /\ Size(0) \in Nat
        /\ Cardinality(C(m)) \in Nat /\ Cardinality(C(m - 1)) \in Nat
    <3>1. 0 \in 0 .. last
      BY <1>2
    <3> HIDE DEF Size, C, last, Wrong
    <3> QED
      BY <1>5, <2>1, <2>3, <3>1
  <2> DEFINE d == IF ops[m].kind = "CREATE" THEN 1 ELSE 0
  <2>7. Size(m) <= Size(m - 1) + d /\ Cardinality(C(m)) = Cardinality(C(m - 1)) + d
    BY <1>6, <2>3
  <2>8. d \in Nat
    OBVIOUS
  <2> HIDE DEF Size, C, d
  <2> QED
    BY <2>4, <2>5, <2>6, <2>7, <2>8
<1>8. Size(last) <= Size(0) + Cardinality(C(last))
  <2>1. last \in 0 .. last
    BY <1>2
  <2> QED
    BY <1>7, <2>1
<1>9. CountOf("CREATE", ops) = Cardinality(C(last))
  <2> HIDE DEF ops
  <2> QED
    BY <1>2, CountIs
<1>10. f[0].alive = alive /\ f[last].alive = Outcome(s).alive
  BY <1>3, <1>4
<1> QED
  BY <1>8, <1>9, <1>10

\* A batch drawn creates no more than there is room for.
LEMMA CreatesFit ==
  ASSUME PoolTypeOK, NEW s \in Signers, NEW block \in 0 .. height - 1,
         NEW keys, keys \subseteq Available(s), NEW room \in Int, NEW n \in Nat,
         NEW ops \in Drawn(s, keys, block, room, n)
  PROVE  /\ ops \in Seq(Ops) /\ CountOf("CREATE", ops) <= n
         /\ CountOf("CREATE", ops) = 0 \/ CountOf("CREATE", ops) <= room
<1> DEFINE C == OfKind("CREATE", ops, Len(ops))
<1>1. /\ ops \in Seq(Ops) /\ Len(ops) <= n
      /\ \A i \in DOMAIN ops :
           ops[i] \in Feasible(s, keys, block, room, CountOf("CREATE", SubSeq(ops, 1, i - 1)))
  <2>1. /\ ops \in SeqOf(Feasible(s, keys, block, room, 0), n)
        /\ \A i \in DOMAIN ops :
             ops[i] \in Feasible(s, keys, block, room, CountOf("CREATE", SubSeq(ops, 1, i - 1)))
    BY DEF Drawn
  <2>2. PICK m \in 0 .. n : ops \in [1 .. m -> Feasible(s, keys, block, room, 0)]
    BY <2>1 DEF SeqOf
  <2>3. m \in Nat /\ \A i \in 1 .. m : ops[i] \in Ops
    BY <2>2, FeasibleIs
  <2>4. ops \in Seq(Ops) /\ Len(ops) = m
    BY <2>2, <2>3
  <2> QED
    BY <2>1, <2>4
<1>2. /\ CountOf("CREATE", ops) = Cardinality(C) /\ CountOf("CREATE", ops) \in Nat
      /\ CountOf("CREATE", ops) <= n /\ Len(ops) \in Nat /\ IsFiniteSet(C)
  <2>1. CountOf("CREATE", ops) \in Nat /\ CountOf("CREATE", ops) <= Len(ops) /\ Len(ops) \in Nat
    BY <1>1, CountIs
  <2>2. CountOf("CREATE", ops) <= n
    BY <1>1, <2>1
  <2> QED
    BY <1>1, <2>1, <2>2, CountIs, OfKindFinite
<1>3. SUFFICES ASSUME CountOf("CREATE", ops) # 0
               PROVE  CountOf("CREATE", ops) <= room
  BY <1>1, <1>2
<1>4. C # {}
  BY <1>2, <1>3, FS_EmptySet
<1>5. PICK i \in C : \A j \in C : j <= i
  <2> DEFINE Back == {Len(ops) - j : j \in C}
  <2>1. Back \subseteq Nat /\ Back # {} /\ \A j \in C : j \in Nat
    BY <1>2, <1>4 DEF OfKind
  <2>2. PICK b \in Back : \A c \in Back : b <= c
    <3> HIDE DEF Back
    <3> QED
      BY <2>1, Smallest
  <2>3. PICK i \in C : b = Len(ops) - i
    OBVIOUS
  <2>4. \A j \in C : Len(ops) - i <= Len(ops) - j
    BY <2>2, <2>3
  <2> HIDE DEF C
  <2>5. \A j \in C : j <= i
    BY <1>2, <2>1, <2>4
  <2> QED
    BY <2>5
<1> DEFINE first == SubSeq(ops, 1, i - 1)
<1>6. i \in 1 .. Len(ops) /\ i \in DOMAIN ops /\ ops[i].kind = "CREATE" /\ i \in Nat
  BY <1>1, <1>2 DEF OfKind
<1>7. /\ first \in Seq(Ops) /\ Len(first) = i - 1
      /\ \A j \in 1 .. i - 1 : first[j] = ops[j]
  BY <1>1, <1>6, SubSeqProperties
<1>8. CountOf("CREATE", first) = Cardinality(C) - 1
  <2>1. OfKind("CREATE", first, i - 1) = C \ {i}
    <3>1. \A j \in C : j \in Nat /\ j <= i /\ j >= 1
      BY <1>2, <1>5 DEF OfKind
    <3>2. \A j \in C \ {i} : j \in 1 .. i - 1
      <4> HIDE DEF C
      <4> QED
        BY <1>6, <3>1
    <3>3. \A j \in 1 .. i - 1 : j \in 1 .. Len(ops) /\ j # i
      BY <1>2, <1>6
    <3> HIDE DEF first
    <3> QED
      BY <1>7, <3>2, <3>3 DEF OfKind
  <2>2. Cardinality(C \ {i}) = Cardinality(C) - 1
    BY <1>2, FS_RemoveElement
  <2> HIDE DEF C, first
  <2> QED
    BY <1>7, <2>1, <2>2, CountIs
<1>9. room > CountOf("CREATE", first)
  <2>1. ops[i] \in Feasible(s, keys, block, room, CountOf("CREATE", first))
    BY <1>1, <1>6
  <2>2. ops[i] \notin OwnedOps(s, keys, block)
    BY <1>6 DEF OwnedOps, Extension, Op
  <2> QED
    BY <2>1, <2>2 DEF Feasible
<1> HIDE DEF C, first
<1> QED
  BY <1>2, <1>8, <1>9

\* Operations of another kind in front do not count.
LEMMA CountBehind ==
  ASSUME NEW kind, NEW first \in Seq(Ops), NEW ops \in Seq(Ops),
         \A i \in 1 .. Len(first) : first[i].kind # kind
  PROVE  /\ first \o ops \in Seq(Ops)
         /\ CountOf(kind, first \o ops) <= CountOf(kind, ops)
<1> DEFINE all == first \o ops
           n == Len(first)
           A == OfKind(kind, all, Len(all))
           B == OfKind(kind, ops, Len(ops))
           shift == [i \in A |-> i - n]
<1>1. /\ all \in Seq(Ops) /\ Len(all) = n + Len(ops) /\ n \in Nat /\ Len(ops) \in Nat
      /\ \A i \in 1 .. n + Len(ops) : all[i] = IF i <= n THEN first[i] ELSE ops[i - n]
  BY ConcatProperties
<1> HIDE DEF all
<1>2. ASSUME NEW i \in A
      PROVE  i \in Nat /\ i - n \in B
  <2>1. i \in 1 .. n + Len(ops) /\ all[i].kind = kind /\ i \in Nat
    BY <1>1 DEF OfKind
  <2>2. ~(i <= n)
    BY <1>1, <2>1
  <2>3. i - n \in 1 .. Len(ops) /\ ops[i - n].kind = kind
    BY <1>1, <2>1, <2>2
  <2> QED
    BY <2>1, <2>3 DEF OfKind
<1>3. IsFiniteSet(B) /\ IsFiniteSet(A)
  BY <1>1, OfKindFinite
<1>4. shift \in Injection(A, B)
  <2> HIDE DEF A, B
  <2>1. shift \in [A -> B]
    BY <1>2
  <2>2. \A i, j \in A : shift[i] = shift[j] => i = j
    BY <1>1, <1>2
  <2> HIDE DEF shift
  <2> QED
    BY <2>1, <2>2 DEF Injection, IsInjective
<1>5. Cardinality(A) <= Cardinality(B)
  <2> HIDE DEF A, B, shift
  <2> QED
    BY <1>3, <1>4, FS_Injection
<1>6. CountOf(kind, all) = Cardinality(A) /\ CountOf(kind, ops) = Cardinality(B)
  BY <1>1, CountIs
<1> HIDE DEF A, B
<1> QED
  BY <1>1, <1>5, <1>6 DEF all

\* A new batch creates within the limit, and fits under the cap if it creates
\* anything.
BuildFits(s) ==
  /\ Cardinality(Live(alive')) <= Cardinality(Live(alive))
  /\ plan' # plan =>
       LET count == CountOf("CREATE", plan'[s].ops)
       IN /\ plan'[s].ops \in Seq(Ops) /\ count <= Limit
          /\ count = 0 \/ Cardinality(Live(alive')) + count <= MaxAlive

LEMMA NewBatchFits ==
  ASSUME PoolInv, NEW s \in Signers, NEW block \in 0 .. height - 1, Build(s, block)
  PROVE  BuildFits(s)
<1> DEFINE promoted == Promotable(block)
           left == [k \in Keys |-> IF k \in promoted THEN NoEntry ELSE alive[k]]
           keys == Available(s) \ promoted
           room == MaxAlive - (AliveCount - Cardinality(promoted))
           size0 == Cardinality(Live(alive))
           size1 == Cardinality(Live(alive'))
<1>1. PoolTypeOK /\ PoolInv' /\ BuildMoves(s) /\ \A k \in promoted : alive'[k] = NoEntry
  BY BuildKeeps DEF PoolInv
<1>2. /\ size0 \in Nat /\ size1 \in Nat /\ Cardinality(promoted) \in Nat
      /\ AliveCount = size0 /\ Cardinality(promoted) <= size0
      /\ size1 <= size0 - Cardinality(promoted)
  <2>1. promoted \subseteq Live(alive)
    BY DEF Promotable, Live
  <2>2. Live(alive') \subseteq Live(alive) \ promoted
    BY <1>1 DEF BuildMoves, Live
  <2> HIDE DEF promoted
  <2>3. /\ IsFiniteSet(Live(alive)) /\ size0 \in Nat /\ size1 \in Nat
        /\ IsFiniteSet(promoted) /\ Cardinality(promoted) <= size0
    BY <2>1, LiveFinite
  <2>4. IsFiniteSet(Live(alive) \ promoted)
        /\ Cardinality(Live(alive) \ promoted) = size0 - Cardinality(promoted)
    <3>1. Live(alive) \cap promoted = promoted
      BY <2>1
    <3> QED
      BY <2>3, <3>1, FS_Difference
  <2>5. size1 <= size0 - Cardinality(promoted)
    BY <2>2, <2>4, FS_Subset
  <2>6. Cardinality(promoted) \in Nat
    BY <2>3, FS_CardinalityType
  <2> QED
    BY <2>3, <2>5, <2>6 DEF AliveCount, Live
<1>3. /\ room \in Int /\ room <= MaxAlive /\ MaxAlive \in Nat /\ size1 <= size0
      /\ size1 + room <= MaxAlive
  <2>1. MaxAlive \in Nat
    BY SimulatorAssumption
  <2> HIDE DEF size0, size1, promoted
  <2> QED
    BY <1>2, <2>1
<1>4. PICK order \in SetToSeqs(promoted), size \in 1 .. MaxOps :
        LET queue == expired \o order
            n == IF size <= Len(queue) THEN size ELSE Len(queue)
            taken == Reverse(SubSeq(queue, Len(queue) - n + 1, Len(queue)))
        IN /\ expired' = SubSeq(queue, 1, Len(queue) - n)
           /\ reserved' = reserved \cup ToSet(taken)
           /\ \E ops \in Drawn(s, keys, block, room, size - n) :
                \/ /\ Len(ops) = size - n
                   /\ WithinBounds(ops)
                   /\ alive' = Marked(left, {ops[i].key : i \in DOMAIN ops})
                   /\ plan' = [plan EXCEPT ![s] = [ops |-> Expires(taken) \o ops,
                                                   status |-> "sent", keys |-> <<>>]]
                   /\ UNCHANGED dropped
                \/ /\ Len(ops) < size - n
                   /\ Feasible(s, keys, block, room, CountOf("CREATE", ops)) = {}
                   /\ alive' = left
                   /\ dropped' = dropped \cup ToSet(taken)
                   /\ UNCHANGED plan
  BY DEF Build
<1> DEFINE queue == expired \o order
           n == IF size <= Len(queue) THEN size ELSE Len(queue)
           taken == Reverse(SubSeq(queue, Len(queue) - n + 1, Len(queue)))
<1>5. n \in Nat /\ size - n \in Nat /\ taken \in Seq(Keys) /\ size - n <= MaxOps
  <2>1. n \in Nat /\ size - n \in Nat /\ taken \in Seq(Keys)
    BY <1>4, QueueTaken
  <2>2. MaxOps \in Nat /\ size \in Nat /\ size <= MaxOps
    BY SimulatorAssumption
  <2> HIDE DEF n
  <2> QED
    BY <2>1, <2>2
<1>6. PICK ops \in Drawn(s, keys, block, room, size - n) :
        \/ plan' = [plan EXCEPT ![s] = [ops |-> Expires(taken) \o ops,
                                        status |-> "sent", keys |-> <<>>]]
        \/ plan' = plan
  BY <1>4
<1>7. SUFFICES ASSUME plan' # plan
               PROVE  /\ plan'[s].ops \in Seq(Ops) /\ CountOf("CREATE", plan'[s].ops) <= Limit
                      /\ \/ CountOf("CREATE", plan'[s].ops) = 0
                         \/ size1 + CountOf("CREATE", plan'[s].ops) <= MaxAlive
  BY <1>3 DEF BuildFits
<1>8. keys \subseteq Available(s)
  OBVIOUS
<1> HIDE DEF promoted, room, keys, size0, size1, queue, n, taken
<1>9. /\ ops \in Seq(Ops) /\ CountOf("CREATE", ops) <= size - n
      /\ CountOf("CREATE", ops) = 0 \/ CountOf("CREATE", ops) <= room
      /\ CountOf("CREATE", ops) \in Nat
  <2>1. /\ ops \in Seq(Ops) /\ CountOf("CREATE", ops) <= size - n
        /\ CountOf("CREATE", ops) = 0 \/ CountOf("CREATE", ops) <= room
    BY <1>1, <1>3, <1>5, <1>6, <1>8, CreatesFit
  <2> QED
    BY <2>1, CountIs
<1>10. plan'[s].ops = Expires(taken) \o ops
  BY <1>1, <1>6, <1>7 DEF PoolTypeOK
<1>11. /\ Expires(taken) \in Seq(Ops)
       /\ \A i \in 1 .. Len(Expires(taken)) : Expires(taken)[i].kind # "CREATE"
  <2>1. /\ DOMAIN taken = 1 .. Len(taken) /\ Len(taken) \in Nat
        /\ \A i \in 1 .. Len(taken) : taken[i] \in Keys
    BY <1>5
  <2>2. \A k \in Keys : /\ Op("EXPIRE", k, 0, 0, NoKey) \in Ops
                        /\ Op("EXPIRE", k, 0, 0, NoKey).kind # "CREATE"
    BY DEF Op, Ops
  <2>3. Expires(taken) = [i \in 1 .. Len(taken) |-> Op("EXPIRE", taken[i], 0, 0, NoKey)]
    BY <2>1 DEF Expires
  <2>4. Expires(taken) \in [1 .. Len(taken) -> Ops]
    BY <2>1, <2>2, <2>3
  <2> QED
    BY <2>1, <2>2, <2>3, <2>4
<1>12. /\ plan'[s].ops \in Seq(Ops)
       /\ CountOf("CREATE", plan'[s].ops) <= CountOf("CREATE", ops)
       /\ CountOf("CREATE", plan'[s].ops) \in Nat
  <2>1. /\ Expires(taken) \o ops \in Seq(Ops)
        /\ CountOf("CREATE", Expires(taken) \o ops) <= CountOf("CREATE", ops)
    BY <1>9, <1>11, CountBehind
  <2>2. CountOf("CREATE", Expires(taken) \o ops) \in Nat
    BY <2>1, CountIs
  <2> QED
    BY <1>10, <2>1, <2>2
<1>13. ASSUME NEW m \in Nat, NEW count \in Nat, m = CountOf("CREATE", ops),
              count = CountOf("CREATE", plan'[s].ops)
       PROVE  count <= Limit /\ (count = 0 \/ size1 + count <= MaxAlive)
  <2>1. /\ count <= m /\ m <= size - n /\ (m = 0 \/ m <= room)
        /\ size - n \in Nat /\ size - n <= MaxOps /\ MaxOps \in Nat
    BY <1>5, <1>9, <1>12, <1>13, SimulatorAssumption
  <2>2. size1 \in Nat
    BY <1>2
  <2>3. count <= MaxOps /\ count <= MaxAlive /\ (count = 0 \/ size1 + count <= MaxAlive)
    BY <1>3, <2>1, <2>2
  <2> QED
    BY <2>3, LimitIs
<1> QED
  BY <1>9, <1>12, <1>13

\* CreatesInFlight and OvershootBounded, of any batches p and entries a.
CreatesOf(p) ==
  [s \in Signers |-> IF p[s] = NoPlan \/ p[s].status = "reverted" THEN 0
                     ELSE CountOf("CREATE", p[s].ops)]

WithinLimit(p) ==
  \A s \in Signers : p[s] # NoPlan =>
    p[s].ops \in Seq(Ops) /\ CountOf("CREATE", p[s].ops) <= Limit

Capped(a, p) ==
  Cardinality(Live(a)) + SumFunctionOnSet(CreatesOf(p), Signers)
    <= MaxAlive + (Cardinality(Signers) - 1) * Limit

CapInv == PoolInv /\ WithinLimit(plan) /\ Capped(alive, plan)

LEMMA CreatesAre ==
  ASSUME NEW p, WithinLimit(p)
  PROVE  /\ CreatesOf(p) \in [Signers -> Nat]
         /\ \A s \in Signers : CreatesOf(p)[s] <= Limit
<1>1. \A s \in Signers : p[s] # NoPlan =>
        CountOf("CREATE", p[s].ops) \in Nat /\ CountOf("CREATE", p[s].ops) <= Limit
  BY CountIs DEF WithinLimit
<1>2. 0 <= Limit
  BY LimitIs
<1> QED
  BY <1>1, <1>2 DEF CreatesOf

LEMMA CapMoves ==
  ASSUME NEW a, NEW p, NEW b, NEW q, NEW s \in Signers, WithinLimit(p), WithinLimit(q),
         \A t \in Signers : t # s => q[t] = p[t],
         Cardinality(Live(b)) + CreatesOf(q)[s] <= Cardinality(Live(a)) + CreatesOf(p)[s],
         Capped(a, p)
  PROVE  Capped(b, q)
<1> DEFINE f == CreatesOf(p)
           g == CreatesOf(q)
           cap == MaxAlive + (Cardinality(Signers) - 1) * Limit
<1>1. f \in [Signers -> Nat] /\ g \in [Signers -> Nat]
  BY CreatesAre
<1>2. \A t \in Signers : t # s => f[t] = g[t]
  BY DEF CreatesOf
<1>3. Cardinality(Live(a)) \in Nat /\ Cardinality(Live(b)) \in Nat
  BY LiveFinite
<1>4. cap \in Int
  <2>1. MaxAlive \in Int /\ Cardinality(Signers) \in Int /\ Limit \in Int
    BY SimulatorAssumption, FS_CardinalityType, LimitIs
  <2> QED
    BY <2>1
<1>5. Cardinality(Live(a)) + SumFunctionOnSet(f, Signers) <= cap
  BY DEF Capped
<1>6. Cardinality(Live(b)) + g[s] <= Cardinality(Live(a)) + f[s]
  OBVIOUS
<1> HIDE DEF f, g, cap
<1>7. Cardinality(Live(b)) + SumFunctionOnSet(g, Signers) <= cap
  BY <1>1, <1>2, <1>3, <1>4, <1>5, <1>6, CapKept
<1> QED
  BY <1>7 DEF Capped, g, cap

LEMMA CapRoom ==
  ASSUME NEW b, NEW q, NEW s \in Signers, WithinLimit(q),
         Cardinality(Live(b)) + CreatesOf(q)[s] <= MaxAlive
  PROVE  Capped(b, q)
<1>1. /\ CreatesOf(q) \in [Signers -> Nat] /\ Cardinality(Live(b)) \in Nat
      /\ \A t \in Signers : CreatesOf(q)[t] <= Limit
  BY CreatesAre, LiveFinite
<1>2. Cardinality(Live(b)) + SumFunctionOnSet(CreatesOf(q), Signers)
        <= MaxAlive + (Cardinality(Signers) - 1) * Limit
  BY <1>1, CapBuilt
<1> QED
  BY <1>2 DEF Capped

\* The end of a batch.
LEMMA ReleaseCaps ==
  ASSUME CapInv, PoolInv', NEW s \in InFlight, Release(s),
         Cardinality(Live(alive')) <= Cardinality(Live(alive)) + CreatesOf(plan)[s]
  PROVE  CapInv'
<1>1. /\ s \in Signers /\ WithinLimit(plan) /\ plan'[s] = NoPlan
      /\ \A t \in Signers : t # s => plan'[t] = plan[t]
  BY DEF CapInv, PoolInv, PoolTypeOK, InFlight, Release
<1>2. WithinLimit(plan')
  BY <1>1 DEF WithinLimit
<1>3. CreatesOf(plan')[s] = 0
  BY <1>1 DEF CreatesOf
<1>4. Cardinality(Live(alive')) + 0 = Cardinality(Live(alive'))
  BY LiveFinite
<1>5. Capped(alive', plan')
  BY <1>1, <1>2, <1>3, <1>4, CapMoves DEF CapInv
<1> QED
  BY <1>2, <1>5 DEF CapInv

LEMMA FailureCaps ==
  ASSUME CapInv, NEW s \in InFlight, ApplyFailure(s), Release(s), UNCHANGED chainVars
  PROVE  CapInv'
<1>1. PoolInv /\ PoolTypeOK /\ PoolInv' /\ s \in Signers
  <2>1. PoolInv
    BY DEF CapInv
  <2> QED
    BY <2>1, FailureKeeps DEF PoolInv, InFlight
<1>2. Live(alive') = Live(alive)
  <2>1. \A e \in Entries : [e EXCEPT !.pending = FALSE] # NoEntry
    BY SimulatorAssumption DEF Entries
  <2> QED
    BY <1>1, <2>1 DEF ApplyFailure, Unmarked, Live, PoolTypeOK
<1>3. CreatesOf(plan)[s] \in Nat /\ Cardinality(Live(alive)) \in Nat
  BY <1>1, CreatesAre, LiveFinite DEF CapInv
<1>4. Cardinality(Live(alive')) <= Cardinality(Live(alive)) + CreatesOf(plan)[s]
  BY <1>2, <1>3
<1> QED
  BY <1>1, <1>4, ReleaseCaps

LEMMA SuccessCaps ==
  ASSUME CapInv, NEW s \in InFlight, plan[s].status = "executed", ApplySuccess(s), Release(s),
         UNCHANGED chainVars
  PROVE  CapInv'
<1>1. PoolInv /\ PoolInv' /\ s \in Signers /\ plan[s] # NoPlan
  <2>1. PoolInv
    BY DEF CapInv
  <2> QED
    BY <2>1, SuccessKeeps DEF InFlight
<1>2. CreatesOf(plan)[s] = CountOf("CREATE", plan[s].ops)
  BY <1>1 DEF CreatesOf
<1>3. alive' = Outcome(s).alive
  BY DEF ApplySuccess
<1>4. Cardinality(Live(alive')) <= Cardinality(Live(alive)) + CreatesOf(plan)[s]
  BY <1>1, <1>2, <1>3, OutcomeGrows
<1> QED
  BY <1>1, <1>4, ReleaseCaps

LEMMA MineCaps ==
  ASSUME CapInv, NEW s \in Signers, Mine(s)
  PROVE  CapInv'
<1>1. PoolInv /\ s \in InFlight
  BY DEF CapInv, Mine, InFlight
<1>2. PoolInv' /\ MineMoves(s, Executed(s, plan[s].ops))
  BY <1>1, MineKeeps
<1>3. /\ alive' = alive /\ plan'[s].ops = plan[s].ops /\ plan[s].status = "sent"
      /\ \A t \in Signers : t # s => plan'[t] = plan[t]
      /\ plan[s] # NoPlan /\ plan'[s] # NoPlan
  <2>1. /\ alive' = alive /\ plan'[s].ops = plan[s].ops /\ plan[s].status = "sent"
        /\ InFlight' = InFlight
        /\ \A t \in InFlight : t # s => plan'[t] = plan[t]
    BY <1>2 DEF MineMoves
  <2> QED
    BY <1>1, <2>1 DEF InFlight
<1>4. WithinLimit(plan) /\ WithinLimit(plan')
  BY <1>3 DEF CapInv, WithinLimit
<1>5. CreatesOf(plan')[s] <= CreatesOf(plan)[s]
      /\ CreatesOf(plan')[s] \in Nat /\ CreatesOf(plan)[s] \in Nat
  <2>1. CreatesOf(plan')[s] \in Nat /\ CreatesOf(plan)[s] \in Nat
    BY <1>4, CreatesAre
  <2>2. CreatesOf(plan')[s] = 0 \/ CreatesOf(plan')[s] = CreatesOf(plan)[s]
    BY <1>3 DEF CreatesOf
  <2> QED
    BY <2>1, <2>2
<1>6. Cardinality(Live(alive')) + CreatesOf(plan')[s]
        <= Cardinality(Live(alive)) + CreatesOf(plan)[s]
  BY <1>3, <1>5, LiveFinite
<1>7. Capped(alive', plan')
  BY <1>3, <1>4, <1>6, CapMoves DEF CapInv
<1> QED
  BY <1>2, <1>4, <1>7 DEF CapInv

LEMMA BuildCaps ==
  ASSUME CapInv, NEW s \in Signers, NEW block \in 0 .. height - 1, Build(s, block)
  PROVE  CapInv'
<1>1. PoolInv /\ PoolInv' /\ BuildMoves(s) /\ BuildFits(s) /\ WithinLimit(plan)
  <2>1. PoolInv
    BY DEF CapInv
  <2> QED
    BY <2>1, BuildKeeps, NewBatchFits DEF CapInv
<1>2. /\ plan[s] = NoPlan /\ \A t \in Signers : t # s => plan'[t] = plan[t]
      /\ CreatesOf(plan)[s] = 0
      /\ Cardinality(Live(alive)) \in Nat /\ Cardinality(Live(alive')) \in Nat
  BY <1>1, LiveFinite DEF BuildMoves, CreatesOf
<1>3. WithinLimit(plan')
  <2>1. CASE plan' = plan
    BY <1>1, <2>1
  <2>2. CASE plan' # plan
    BY <1>1, <1>2, <2>2 DEF WithinLimit, BuildFits
  <2> QED
    BY <2>1, <2>2
<1>4. CASE CreatesOf(plan')[s] = 0
  <2>1. Cardinality(Live(alive')) + 0 <= Cardinality(Live(alive)) + 0
    BY <1>1, <1>2 DEF BuildFits
  <2> QED
    BY <1>1, <1>2, <1>3, <1>4, <2>1, CapMoves DEF CapInv
<1>5. CASE CreatesOf(plan')[s] # 0
  <2>1. plan' # plan /\ CreatesOf(plan')[s] = CountOf("CREATE", plan'[s].ops)
    BY <1>2, <1>5 DEF CreatesOf
  <2>2. Cardinality(Live(alive')) + CreatesOf(plan')[s] <= MaxAlive
    BY <1>1, <1>5, <2>1 DEF BuildFits
  <2>3. Capped(alive', plan')
    BY <1>3, <2>2, CapRoom
  <2> QED
    BY <1>1, <1>3, <2>3 DEF CapInv
<1> QED
  BY <1>4, <1>5

LEMMA CapInit == Init => CapInv
<1> SUFFICES ASSUME Init PROVE CapInv
  OBVIOUS
<1>1. /\ plan = [s \in Signers |-> NoPlan] /\ \A k \in Keys : alive[k] = NoEntry
      /\ PoolInv
  BY PoolInit DEF Init
<1>2. WithinLimit(plan) /\ \A s \in Signers : CreatesOf(plan)[s] = 0
  BY <1>1 DEF WithinLimit, CreatesOf
<1>3. Live(alive) = {} /\ Cardinality(Live(alive)) = 0
  BY <1>1, FS_EmptySet DEF Live
<1>4. MaxAlive \in Nat /\ \E s : s \in Signers
  BY SimulatorAssumption
<1>5. PICK s \in Signers : CreatesOf(plan)[s] = 0
  BY <1>2, <1>4
<1>6. Cardinality(Live(alive)) + CreatesOf(plan)[s] <= MaxAlive
  BY <1>3, <1>4, <1>5
<1>7. Capped(alive, plan)
  BY <1>2, <1>6, CapRoom
<1> QED
  BY <1>1, <1>2, <1>7 DEF CapInv

LEMMA CapStep == CapInv /\ [Next]_vars => CapInv'
<1> SUFFICES ASSUME CapInv, [Next]_vars PROVE CapInv'
  OBVIOUS
<1>1. PoolInv /\ PoolInv'
  BY PoolStep DEF CapInv
<1>2. ASSUME alive' = alive, plan' = plan
      PROVE  CapInv'
  BY <1>1, <1>2 DEF CapInv
<1>3. CASE NewBlock
  BY <1>2, <1>3 DEF NewBlock, poolVars
<1>4. ASSUME NEW s \in Signers, NEW block \in 0 .. height - 1, Build(s, block)
      PROVE  CapInv'
  BY <1>4, BuildCaps
<1>5. ASSUME NEW s \in Signers, SendFails(s) \/ ReceiptLost(s)
      PROVE  CapInv'
  BY <1>5, FailureCaps DEF SendFails, ReceiptLost, InFlight
<1>6. ASSUME NEW s \in Signers, ReceiptArrives(s)
      PROVE  CapInv'
  BY <1>6, SuccessCaps, FailureCaps DEF ReceiptArrives, InFlight
<1>7. ASSUME NEW s \in Signers, Mine(s)
      PROVE  CapInv'
  BY <1>7, MineCaps
<1>8. CASE UNCHANGED vars
  BY <1>2, <1>8 DEF vars, poolVars
<1> QED
  BY <1>3, <1>4, <1>5, <1>6, <1>7, <1>8 DEF Next

LEMMA CapInvariant == Spec => []CapInv
BY CapInit, CapStep, PTL DEF Spec

LEMMA CapHolds ==
  ASSUME CapInv
  PROVE  OvershootBounded
<1>1. AliveCount = Cardinality(Live(alive)) /\ CreatesInFlight = CreatesOf(plan)
  BY DEF AliveCount, Live, CreatesInFlight, CreatesOf
<1> QED
  BY <1>1 DEF CapInv, Capped, OvershootBounded, Limit

\* The pool, with the entities that receipts will still bring, outgrows
\* --max-alive by no more than one batch of every other signer: is_feasible
\* counts the pool and the batch being built, and not what the other batches
\* create.
THEOREM OvershootIsBounded == Spec => []OvershootBounded
BY CapInvariant, CapHolds, PTL
==============================================================================
