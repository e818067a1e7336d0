-------------------------- MODULE ProtocolSchedule --------------------------
(***************************************************************************)
(* The protocol-schedule poller of crates/arkiv-node/src/                  *)
(* protocol_schedule.rs on every node of a chain, the schedule that it     *)
(* installs for the patched EIP-1559 helpers (vendor/alloy-eips), and the  *)
(* file that carries the schedule across restarts. The HTTP service and    *)
(* the chain are the environment.                                          *)
(*                                                                         *)
(* A valid schedule lists entries with strictly increasing activation      *)
(* blocks, the first of them 0 (RemoteProtocolSchedule::validate), so a    *)
(* schedule is a function from activation blocks to parameters. A body     *)
(* that does not parse or validate, and a failed request, leave the node   *)
(* as it was: such a poll is a stuttering step.                            *)
(***************************************************************************)
EXTENDS Integers, FiniteSets

CONSTANTS
  Node,         \* execution nodes of one chain
  Params,       \* protocol parameters of an entry
  Documents,    \* valid documents the service may publish
  NoGate,       \* the document has no currentBlock
  NoFile,       \* there is no schedule file
  Torn,         \* a file cut short by a crash or a failed write; never parses
  NoDocument,   \* the poller holds no document
  CompiledParams,  \* ArkivProtocolParams::default()
  DefaultFileParams, \* the entry of RemoteProtocolSchedule::default_file()
  MaxHeight,    \* bound on the height of the chain
  MaxReleases,  \* bound on the documents published
  MaxCrashes    \* bound on the crashes of nodes

Heights == 0 .. MaxHeight
Schedules ==
  UNION {[blocks -> Params] : blocks \in {b \in SUBSET Heights : 0 \in b}}
AllDocuments == [version : Nat, currentBlock : Heights \cup {NoGate},
                 schedule : Schedules]

\* Faulty variant: numbered like an update of the service's first document.
DefaultFileTooNew ==
  [version |-> 2, currentBlock |-> 0, schedule |-> [b \in {0} |-> DefaultFileParams]]

\* RemoteProtocolSchedule::default_file()
DefaultFile ==
  [version |-> 1, currentBlock |-> 0, schedule |-> [b \in {0} |-> DefaultFileParams]]

NoEntries == [b \in {} |-> CompiledParams]

ASSUME ScheduleAssumption ==
  /\ MaxHeight \in Nat /\ MaxReleases \in Nat /\ MaxCrashes \in Nat
  /\ CompiledParams \in Params /\ DefaultFileParams \in Params
  /\ Documents \subseteq AllDocuments
  /\ NoGate \notin Heights
  /\ {NoFile, Torn, NoDocument} \cap (Documents \cup {DefaultFile}) = {}
  /\ NoFile # Torn

VARIABLES
  published,   \* every document that the service has served; caches may keep it
  current,     \* the document that the service serves now
  releases,    \* number of documents published
  crashes,     \* number of crashes so far
  height,      \* the block each node has reached; survives restarts
  running,     \* whether the node's process is up
  schedule,    \* SCHEDULE: the installed entries
  lastVersion, \* LAST_ACCEPTED_VERSION
  file,        \* the file at ARKIV_PROTOCOL_SCHEDULE_PATH
  step,        \* where fetch_store_and_install stands
  document,    \* the document that fetch_store_and_install works on
  unsaved      \* history: the last accepted document did not reach the file

serviceVars == <<published, current, releases>>
nodeVars == <<schedule, lastVersion, file, step, document, unsaved>>
vars == <<serviceVars, crashes, height, running, nodeVars>>
-----------------------------------------------------------------------------
\* The last of a set of activation blocks.
Last(blocks) == CHOOSE b \in blocks : \A c \in blocks : c <= b

\* arkiv_protocol_params_latest
ParamsLatest(entries) ==
  IF DOMAIN entries = {} THEN CompiledParams ELSE entries[Last(DOMAIN entries)]

\* arkiv_protocol_params_for_block
ParamsForBlock(entries, block) ==
  LET active == {b \in DOMAIN entries : b <= block}
  IN IF active = {} THEN CompiledParams ELSE entries[Last(active)]

\* Faulty variant: takes the entry of the next block with it.
SelectedTooEarly(d) ==
  LET active == IF d.currentBlock = NoGate THEN DOMAIN d.schedule
                ELSE {b \in DOMAIN d.schedule : b <= d.currentBlock + 1}
  IN [b \in active |-> d.schedule[b]]

\* Faulty variant: an entry waits for the block after its own.
SelectedTooLate(d) ==
  LET active == IF d.currentBlock = NoGate THEN DOMAIN d.schedule
                ELSE {b \in DOMAIN d.schedule : b < d.currentBlock}
  IN IF active = {} THEN [b \in {0} |-> d.schedule[0]]
     ELSE [b \in active |-> d.schedule[b]]

\* selected_entries: the entries that currentBlock lets through, or the
\* first entry if there are none.
Selected(d) ==
  LET active == IF d.currentBlock = NoGate THEN DOMAIN d.schedule
                ELSE {b \in DOMAIN d.schedule : b <= d.currentBlock}
  IN IF active = {} THEN [b \in {0} |-> d.schedule[0]]
     ELSE [b \in active |-> d.schedule[b]]

\* Faulty variant: entries of the schedule before stay.
InstallMerges(n, d) ==
  /\ schedule' = [schedule EXCEPT ![n] =
       [b \in DOMAIN Selected(d) \cup DOMAIN schedule[n] |->
          IF b \in DOMAIN Selected(d) THEN Selected(d)[b] ELSE schedule[n][b]]]
  /\ lastVersion' = [lastVersion EXCEPT ![n] = d.version]

\* install_schedule, where it is not rejected.
Install(n, d) ==
  /\ schedule' = [schedule EXCEPT ![n] = Selected(d)]
  /\ lastVersion' = [lastVersion EXCEPT ![n] = d.version]

\* install_schedule rejects a document older than the last one accepted; a
\* process that has accepted none has last version 0.
Rejected(n, d) == lastVersion[n] # 0 /\ d.version < lastVersion[n]
-----------------------------------------------------------------------------
\* The service gates entries by a head of the chain that it has observed.
Observed(d) ==
  d.currentBlock # NoGate => \E n \in Node : d.currentBlock <= height[n]

Init ==
  /\ current \in Documents
  /\ height = [n \in Node |-> 0]
  /\ Observed(current)
  /\ published = {current}
  /\ releases = 0
  /\ crashes = 0
  /\ running = [n \in Node |-> FALSE]
  /\ schedule = [n \in Node |-> NoEntries]
  /\ lastVersion = [n \in Node |-> 0]
  /\ file = [n \in Node |-> NoFile]
  /\ step = [n \in Node |-> "idle"]
  /\ document = [n \in Node |-> NoDocument]
  /\ unsaved = [n \in Node |-> FALSE]

\* The service keeps its version monotonic (docs/6, service rules).
Publish(d) ==
  /\ releases < MaxReleases
  /\ d # current
  /\ d.version >= current.version
  /\ Observed(d)
  /\ current' = d
  /\ published' = published \cup {d}
  /\ releases' = releases + 1
  /\ UNCHANGED <<crashes, height, running, nodeVars>>

\* A node builds or imports its next block.
Advance(n) ==
  /\ running[n]
  /\ height[n] < MaxHeight
  /\ height' = [height EXCEPT ![n] = @ + 1]
  /\ UNCHANGED <<serviceVars, crashes, running, nodeVars>>

\* Faulty variant: a file that does not parse keeps the process from starting.
StartTornFails(n) ==
  /\ ~running[n]
  /\ file[n] = Torn
  /\ UNCHANGED vars

\* spawn_from_env of a fresh process, on a file that does not parse:
\* load_persisted_schedule warns, ensure_default_schedule_file sees the file.
StartTorn(n) ==
  /\ ~running[n]
  /\ file[n] = Torn
  /\ running' = [running EXCEPT ![n] = TRUE]
  /\ UNCHANGED <<serviceVars, crashes, height, nodeVars>>

\* ... on a file that does: the file decides the schedule and the version.
StartPersisted(n) ==
  /\ ~running[n]
  /\ file[n] \notin {NoFile, Torn}
  /\ Install(n, file[n])
  /\ running' = [running EXCEPT ![n] = TRUE]
  /\ UNCHANGED <<serviceVars, crashes, height, file, step, document, unsaved>>

\* ... without a file: the default file is written and not installed. The
\* write may fail, which is only warned about.
StartFresh(n) ==
  /\ ~running[n]
  /\ file[n] = NoFile
  /\ \E f \in {DefaultFile, Torn, NoFile} : file' = [file EXCEPT ![n] = f]
  /\ running' = [running EXCEPT ![n] = TRUE]
  /\ UNCHANGED <<serviceVars, crashes, height, schedule, lastVersion, step,
                 document, unsaved>>

Start(n) == StartTorn(n) \/ StartPersisted(n) \/ StartFresh(n)

\* The poll's GET is answered with document d. The next poll comes after the
\* sleep, whatever the outcome of this one.
Answered(n, d) ==
  /\ running[n]
  /\ step[n] = "idle"
  /\ document' = [document EXCEPT ![n] = d]
  /\ step' = [step EXCEPT ![n] = "fetched"]
  /\ UNCHANGED <<serviceVars, crashes, height, running, schedule, lastVersion,
                 file, unsaved>>

Fetch(n) == Answered(n, current)

\* A cache between the service and the node answers with an older document.
FetchStale(n) == \E d \in published : Answered(n, d)

\* Back to poll_loop's sleep.
Done(n) ==
  /\ step' = [step EXCEPT ![n] = "idle"]
  /\ document' = [document EXCEPT ![n] = NoDocument]

\* Faulty variant: the body is stored although it was not accepted.
RejectStores(n) ==
  /\ running[n]
  /\ step[n] = "fetched"
  /\ Rejected(n, document[n])
  /\ step' = [step EXCEPT ![n] = "installed"]
  /\ UNCHANGED <<serviceVars, crashes, height, running, schedule, lastVersion,
                 file, document, unsaved>>

\* install_schedule fails; the file keeps the document accepted before.
Reject(n) ==
  /\ running[n]
  /\ step[n] = "fetched"
  /\ Rejected(n, document[n])
  /\ Done(n)
  /\ UNCHANGED <<serviceVars, crashes, height, running, schedule, lastVersion,
                 file, unsaved>>

\* Faulty variant: the version of the document is not looked at.
AcceptAny(n) ==
  /\ running[n]
  /\ step[n] = "fetched"
  /\ Install(n, document[n])
  /\ step' = [step EXCEPT ![n] = "installed"]
  /\ unsaved' = [unsaved EXCEPT ![n] = TRUE]
  /\ UNCHANGED <<serviceVars, crashes, height, running, file, document>>

Accept(n) ==
  /\ running[n]
  /\ step[n] = "fetched"
  /\ ~Rejected(n, document[n])
  /\ Install(n, document[n])
  /\ step' = [step EXCEPT ![n] = "installed"]
  /\ unsaved' = [unsaved EXCEPT ![n] = TRUE]
  /\ UNCHANGED <<serviceVars, crashes, height, running, file, document>>

\* fs::write, first half: the file is created or truncated.
Truncate(n) ==
  /\ running[n]
  /\ step[n] = "installed"
  /\ file' = [file EXCEPT ![n] = Torn]
  /\ step' = [step EXCEPT ![n] = "writing"]
  /\ UNCHANGED <<serviceVars, crashes, height, running, schedule, lastVersion,
                 document, unsaved>>

\* Faulty variant: the buffer is released before it is written.
WriteReleased(n) ==
  /\ running[n]
  /\ step[n] = "writing"
  /\ Done(n)
  /\ file' = [file EXCEPT ![n] = document'[n]]
  /\ unsaved' = [unsaved EXCEPT ![n] = FALSE]
  /\ UNCHANGED <<serviceVars, crashes, height, running, schedule, lastVersion>>

\* fs::write, second half: the body is in the file.
Write(n) ==
  /\ running[n]
  /\ step[n] = "writing"
  /\ file' = [file EXCEPT ![n] = document[n]]
  /\ unsaved' = [unsaved EXCEPT ![n] = FALSE]
  /\ Done(n)
  /\ UNCHANGED <<serviceVars, crashes, height, running, schedule, lastVersion>>

\* fs::write fails, before or after it has truncated the file.
WriteFails(n) ==
  /\ running[n]
  /\ step[n] \in {"installed", "writing"}
  /\ Done(n)
  /\ UNCHANGED <<serviceVars, crashes, height, running, schedule, lastVersion,
                 file, unsaved>>

\* The process ends at any point: memory is lost, the file stays.
Crash(n) ==
  /\ running[n]
  /\ crashes < MaxCrashes
  /\ crashes' = crashes + 1
  /\ running' = [running EXCEPT ![n] = FALSE]
  /\ schedule' = [schedule EXCEPT ![n] = NoEntries]
  /\ lastVersion' = [lastVersion EXCEPT ![n] = 0]
  /\ unsaved' = [unsaved EXCEPT ![n] = FALSE]
  /\ Done(n)
  /\ UNCHANGED <<serviceVars, height, file>>

Next ==
  \/ \E d \in Documents : Publish(d)
  \/ \E n \in Node :
       \/ Advance(n) \/ Start(n) \/ Crash(n)
       \/ Fetch(n) \/ FetchStale(n) \/ Reject(n) \/ Accept(n)
       \/ Truncate(n) \/ Write(n) \/ WriteFails(n)

Spec == Init /\ [][Next]_vars

\* Operators restart a node that went down; the poller runs on; stale or
\* failed answers do not last for ever. Nothing says that blocks advance,
\* documents are published or writes succeed.
Fairness ==
  \A n \in Node :
    /\ WF_vars(Start(n))
    /\ SF_vars(Fetch(n))
    /\ WF_vars(Reject(n) \/ Accept(n))
    /\ WF_vars(Truncate(n) \/ Write(n) \/ WriteFails(n))

FairSpec == Spec /\ Fairness
=============================================================================
