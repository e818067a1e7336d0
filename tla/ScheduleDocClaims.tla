------------------------- MODULE ScheduleDocClaims --------------------------
(***************************************************************************)
(* What the documents and comments say of the protocol schedule and the    *)
(* code does not do. TLC refutes each property in a run of its own.        *)
(***************************************************************************)
EXTENDS ScheduleProps

\* arkiv_schedule.rs: activation_block is the "First block where this entry
\* should apply." calc_next_block_base_fee takes the latest installed entry
\* for the base fee of any block, also of a node that is below it.
FeesFollowActivation ==
  \A n \in Node : running[n] =>
    LET next == height[n] + 1
    IN ParamsLatest(schedule[n]) = ParamsForBlock(schedule[n], next)

\* docs/6: the node "writes a default schedule file using compiled
\* defaults". The file caps the gas limit at 30M where the compiled default
\* is no cap, and it comes into force at the next restart: two nodes that
\* have heard nothing from the service and hold the same default file run
\* different parameters.
DefaultsAgree ==
  \A m, n \in Node :
    (running[m] /\ running[n] /\ file[m] = DefaultFile /\ file[n] = DefaultFile
       /\ step[m] = "idle" /\ step[n] = "idle"
       /\ schedule[m] \in {NoEntries, Selected(DefaultFile)}
       /\ schedule[n] \in {NoEntries, Selected(DefaultFile)})
      => ParamsLatest(schedule[m]) = ParamsLatest(schedule[n])

VARIABLE kept   \* history: the nodes whose file has held an accepted document

HistoryInit == Init /\ kept = {}

HistoryNext == Next /\ kept' = kept \cup {n \in Node : file'[n] \in Documents}

HistorySpec == HistoryInit /\ [][HistoryNext]_<<vars, kept>>

\* docs/6: "arkiv-node is fail-last-good: On startup, it loads the persisted
\* local schedule file if present." Once a node has accepted and stored a
\* document, each of its later processes would run an accepted schedule. The
\* next poll rewrites the file in place, so a process that ends inside that
\* fs::write takes the document before with it, and the process after that
\* runs the compiled defaults.
LastGoodSurvives == \A n \in kept : running[n] => lastVersion[n] # 0
=============================================================================
