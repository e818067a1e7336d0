----------------------------- MODULE FeeMarket ------------------------------
(***************************************************************************)
(* The base fee and the gas limit of the next block:                       *)
(* calc_next_block_base_fee and calculate_block_gas_limit of               *)
(* vendor/alloy-eips/src/eip1559/helpers.rs, as functions of the parent's  *)
(* header h and of the parameters p in force (ArkivProtocolParams). The    *)
(* parameters that a caller passes are not looked at.                      *)
(*                                                                         *)
(* Numbers are u64 and their products u128; a release build wraps around.  *)
(***************************************************************************)
EXTENDS Integers

CONSTANTS
  Word,     \* 2^64
  Divisor   \* GAS_LIMIT_BOUND_DIVISOR

ASSUME FeeAssumption == Word \in Nat \ {0} /\ Divisor \in Nat \ {0}

\* What the functions take: the parent's gas used, gas limit and base fee,
\* and the limit that the builder asks for.
Header == [used : Nat, limit : Nat, fee : Nat, desired : Nat]

\* Parameters that RemoteProtocolScheduleEntry::validate admits.
ValidRates ==
  [minBaseFee : Nat, elasticity : Nat \ {0}, denominator : Nat \ {0},
   maxGasLimit : {g \in Nat : g >= 5000}]

Larger(a, b) == IF a >= b THEN a ELSE b
Smaller(a, b) == IF a <= b THEN a ELSE b
-----------------------------------------------------------------------------
GasTarget(h, p) == h.limit \div p.elasticity

\* The EIP-1559 update term for a usage that is `distance` off the target,
\* before it is cut to u64. Only a denominator near 2^64 and beyond makes the
\* product wrap.
Change(distance, h, p) ==
  (h.fee * distance) \div ((GasTarget(h, p) * p.denominator) % (Word * Word))

\* Faulty variant: a fee too small for a whole step stays where it is.
NextBaseFeeNoMinimum(h, p) ==
  LET target == GasTarget(h, p)
      next == CASE target = 0 \/ h.used = target -> h.fee
                [] target # 0 /\ h.used > target ->
                     (h.fee + (Change(h.used - target, h, p) % Word)) % Word
                [] OTHER -> Larger(0, h.fee - (Change(target - h.used, h, p) % Word))
  IN Larger(next, p.minBaseFee)

\* calc_next_block_base_fee
NextBaseFee(h, p) ==
  LET unusable == p.elasticity = 0 \/ p.denominator = 0
      target == GasTarget(h, p)
      next == CASE unusable -> h.fee
                [] ~unusable /\ (target = 0 \/ h.used = target) -> h.fee
                [] ~unusable /\ target # 0 /\ h.used > target ->
                     (h.fee + (Larger(1, Change(h.used - target, h, p)) % Word)) % Word
                [] OTHER -> Larger(0, h.fee - (Change(target - h.used, h, p) % Word))
  IN Larger(next, p.minBaseFee)

\* How far one block may move the gas limit.
Delta(h) == Larger(1, h.limit \div Divisor) - 1

\* Where the gas limit is to go: no further than the schedule's cap.
LimitGoal(h, p) == Smaller(h.desired, p.maxGasLimit)

\* calculate_block_gas_limit
NextGasLimit(h, p) ==
  Larger(h.limit - Delta(h), Smaller((h.limit + Delta(h)) % Word, LimitGoal(h, p)))
-----------------------------------------------------------------------------
\* Neither the fee nor the gas limit comes near 2^64.
Fits(h, p) ==
  LET target == GasTarget(h, p)
      scale == target * p.denominator
  IN /\ scale < Word * Word /\ h.fee < Word /\ 2 * h.limit < Word
     /\ (target # 0 /\ h.used > target) =>
          h.fee + 1 + (h.fee * (h.used - target)) \div scale < Word

\* The fee keeps its floor, follows demand, rises at least by 1 after a
\* block above the target and falls by no more than 1/denominator.
FeeFollowsDemand(h, p) ==
  LET next == NextBaseFee(h, p)
      target == GasTarget(h, p)
  IN /\ next >= p.minBaseFee
     /\ (target # 0 /\ h.used > target) => next > h.fee
     /\ h.used = target => next = Larger(h.fee, p.minBaseFee)
     /\ h.used < target => next <= Larger(h.fee, p.minBaseFee)
     /\ (h.fee - next) * p.denominator <= h.fee

\* The gas limit goes towards its goal and never past it or away from it, by
\* less than the 1/1024 that header validation allows, and it does go there
\* unless the parent's limit is too small to be moved at all.
LimitNearsGoal(h, p) ==
  LET next == NextGasLimit(h, p)
      goal == LimitGoal(h, p)
  IN /\ h.limit <= goal => next \in h.limit .. goal
     /\ h.limit >= goal => next \in goal .. h.limit
     /\ next = h.limit \/ (next - h.limit) \in
          (1 - h.limit \div Divisor) .. (h.limit \div Divisor - 1)
     /\ (h.limit # goal /\ h.limit >= 2 * Divisor) => next # h.limit
=============================================================================
