----------------------------- MODULE MCSchedule -----------------------------
(***************************************************************************)
(* Documents, rates and headers for the runs of ProtocolSchedule.          *)
(***************************************************************************)
EXTENDS ScheduleProps, TLC

CONSTANTS compiled, shipped, base, raised   \* protocol parameters

Doc(version, currentBlock, entries) ==
  [version |-> version, currentBlock |-> currentBlock, schedule |-> entries]

Flat(p) == [b \in {0} |-> p]
RaisedFrom(block) == [b \in {0, block} |-> IF b = 0 THEN base ELSE raised]

\* Gated documents, as the service documentation recommends: the entry of
\* block 2 is published ahead and let through later; two documents share a
\* version; the last one takes the entry back.
GatedDocuments ==
  {Doc(1, 0, Flat(base)), Doc(2, 1, RaisedFrom(2)), Doc(2, 2, RaisedFrom(2)),
   Doc(3, 1, RaisedFrom(1))}

\* A service that counts its versions from 0.
FromZeroDocuments == {Doc(0, 0, Flat(base))}

\* With Word = 2^15. The compiled default has no cap on the gas limit, the
\* default file has; the floors are below, between and above the fees used.
FeeRates ==
  LET rates(floor, denominator, cap) ==
        [minBaseFee |-> floor, elasticity |-> 2, denominator |-> denominator,
         maxGasLimit |-> cap]
  IN (compiled :> rates(4, 8, 32767)) @@ (shipped :> rates(4, 8, 5001))
     @@ (base :> rates(1, 4, 5000)) @@ (raised :> rates(8, 2, 5003))

\* Usage at, next to and far from the target, and fees of less and more than
\* one step; gas limits that cannot move, that can and that overflow.
FeeHeaders ==
  LET header(used, limit, fee, desired) ==
        [used |-> used, limit |-> limit, fee |-> fee, desired |-> desired]
  IN {header(0, 5000, 3, 9000), header(0, 5000, 40, 4000),
      header(2499, 5001, 6, 5002), header(2500, 5001, 6, 9000),
      header(2501, 5000, 3, 4999), header(2501, 5000, 12, 5003),
      header(5000, 5000, 6, 9000), header(1000, 2047, 30, 9000),
      header(0, 1, 5, 9000), header(1, 1, 9, 0),
      header(3000, 8000, 9, 8000), header(9000, 20000, 9, 9000)}
=============================================================================
