---------------------------- MODULE ScheduleProps ---------------------------
(***************************************************************************)
(* What the protocol schedule promises, over the behaviours of module      *)
(* ProtocolSchedule.                                                       *)
(***************************************************************************)
EXTENDS ProtocolSchedule, FeeMarket

CONSTANTS
  Rates,   \* the fee and gas-limit fields of each of Params
  Headers  \* parents' headers, and limits that builders ask for

ASSUME RatesAssumption == Rates \in [Params -> ValidRates] /\ Headers \subseteq Header

Stored == published \cup {DefaultFile}

TypeOK ==
  /\ published \subseteq Documents /\ current \in published
  /\ releases \in 0 .. MaxReleases
  /\ crashes \in 0 .. MaxCrashes
  /\ height \in [Node -> Heights]
  /\ running \in [Node -> BOOLEAN]
  /\ schedule \in [Node -> Schedules \cup {NoEntries}]
  /\ lastVersion \in [Node -> Nat]
  /\ file \in [Node -> Stored \cup {NoFile, Torn}]
  /\ step \in [Node -> {"idle", "fetched", "installed", "writing"}]
  /\ document \in [Node -> Stored \cup {NoDocument}]
  /\ unsaved \in [Node -> BOOLEAN]

\* What a node runs is the selection of one whole document, with that
\* document's version, or the compiled defaults: never entries of two
\* documents, and never a version that is not of the entries.
SchedulesAreWhole ==
  \A n \in Node :
    \/ lastVersion[n] = 0 /\ schedule[n] = NoEntries
    \/ \E d \in Stored : lastVersion[n] = d.version /\ schedule[n] = Selected(d)

\* No node, and no file a node may restart from, is ahead of the service: a
\* node can always take up what the service publishes. This needs a service
\* whose versions start at 1, the version of the default file.
NeverAheadOfService ==
  (\A d \in Documents : d.version >= 1) => \A n \in Node :
    /\ lastVersion[n] <= current.version
    /\ file[n] \notin {NoFile, Torn} => file[n].version <= current.version

\* A node that sleeps between polls restarts into the schedule it runs,
\* unless its last write failed.
RestartKeepsSchedule ==
  \A n \in Node :
    (/\ running[n]
     /\ step[n] \in {"idle", "fetched"}
     /\ lastVersion[n] # 0
     /\ ~unsaved[n]) =>
       /\ file[n] \notin {NoFile, Torn}
       /\ file[n].version = lastVersion[n]
       /\ Selected(file[n]) = schedule[n]

\* Documents gated by the chain head never bring an entry into force before
\* some node has reached its activation block.
NoEarlyActivation ==
  (\A d \in Documents : d.currentBlock # NoGate) =>
    \A n \in Node : \A b \in DOMAIN schedule[n] : \E m \in Node : b <= height[m]

\* The gate hides the future only: at every block up to currentBlock the
\* rule in force is the one the whole document lays down.
GateKeepsThePast ==
  \A n \in Node : lastVersion[n] # 0 =>
    \E d \in Stored :
      /\ d.version = lastVersion[n]
      /\ \A b \in Heights : (d.currentBlock = NoGate \/ b <= d.currentBlock) =>
           ParamsForBlock(schedule[n], b) = ParamsForBlock(d.schedule, b)

\* While a process lives it never goes back to an older document, whatever
\* order the answers come in.
NoRollback ==
  [][\A n \in Node :
       (running[n] /\ running'[n]) => lastVersion'[n] >= lastVersion[n]]_vars

\* docs/6_protocol-schedule-service.md: "Every execution node on a given
\* chain must converge on the same accepted schedule." Once the service and
\* the nodes are left alone, every node runs a document of the version that
\* is served, whatever crashes left of its file: the very document that is
\* served, if the service gave that version to no other.
Converges ==
  <>[](\A n \in Node :
         /\ running[n]
         /\ \E d \in published : d.version = current.version /\ schedule[n] = Selected(d))

\* Whatever document a node has installed when it builds or imports a block,
\* fallbacks and half-applied updates included, the base fee keeps the floor
\* of that schedule, follows demand and changes by a bounded amount, and the
\* gas limit nears the schedule's cap at a rate that header validation lets
\* through.
FeesFollowDemand ==
  [][\A n \in Node : height'[n] # height[n] =>
       LET rates == Rates[ParamsLatest(schedule[n])]
       IN \A h \in Headers : Fits(h, rates) =>
            FeeFollowsDemand(h, rates) /\ LimitNearsGoal(h, rates)]_vars
=============================================================================
