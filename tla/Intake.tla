------------------------------- MODULE Intake -------------------------------
(***************************************************************************)
(* POST /v1/scan (api/v1/scan.py) against policies that are reloaded.  The *)
(* API labels an operation with the policy version OPA reports and answers *)
(* a request from an earlier operation for the same document and label.    *)
(* The MCP tools scan and classify (mcp/router.py) write operations to the *)
(* same table and look nothing up; what classify writes is found there.    *)
(* Each worker process polls OPA on its own (core/opa_client.py) and       *)
(* detects with the policy of its cache, whatever the label says.          *)
(*                                                                         *)
(* Policy n is the one OPA serves after n reloads; it has version n.       *)
(***************************************************************************)
EXTENDS Naturals, Sequences, FiniteSets

CONSTANTS
    Workers,          \* worker processes, each with an OPAClient
    Requests,         \* requests the API serves at once
    Docs,             \* documents, told apart by their digest
    MaxReloads,       \* bound: how often the policy changes
    MaxOps,           \* bound: operations created or about to be
    MaxFaults         \* bound: failing calls to OPA, and crashes of workers

ASSUME IntakeAssumption ==
    /\ IsFiniteSet(Requests)
    /\ Docs # {}
    /\ MaxReloads \in Nat
    /\ MaxOps \in Nat
    /\ MaxFaults \in Nat

VARIABLES
    opa,              \* the policy OPA serves
    poll,             \* [Workers -> Poll]: the answers of _refresh's requests
    cache,            \* [Workers -> Cache]: _policy_version, _policy_cache
    ops,              \* the operations, oldest first
    request,          \* [Requests -> Request]: past their lookup, or not
    task,             \* [Workers -> Task]: process_scan
    faults,
    polled            \* history: workers that polled in full since the reload

vars == <<opa, poll, cache, ops, request, task, faults, polled>>

Versions == 0 .. MaxReloads

FALLBACK_POLICY_VERSION == 0      \* "1.0.0", the version of the first policy

None == MaxReloads + 1            \* "unknown", an empty cache, no answer yet

NotOK == MaxReloads + 2           \* an answer with another status than 200

\* clean: no reload since the poll began.
Poll == [meta : Versions \cup {None, NotOK}, policy : Versions \cup {None, NotOK},
         clean : BOOLEAN]

NoPoll == [meta |-> None, policy |-> None, clean |-> TRUE]

Cache == [version : Versions \cup {None}, policy : Versions \cup {None}]

EmptyCache == [version |-> None, policy |-> None]

(***************************************************************************)
(* policy: what process_scan detected with (None: not yet, or the default  *)
(* policy).  calm: the label was OPA's, OPA has not been reloaded since    *)
(* and the worker had polled it.  due: requests for the same document and  *)
(* label that were past their lookup when this operation finished; late:   *)
(* operations that requests to POST /v1/scan created for them since.       *)
(***************************************************************************)
Operation ==
    [doc : Docs, label : Versions, calm : BOOLEAN, due : Nat, late : Nat,
     source : {"scan", "tool_scan", "tool_classify"},
     status : {"pending", "detected", "escalated", "completed"},
     policy : Versions \cup {None}]

Request ==
    [creates : BOOLEAN, doc : Docs, label : Versions, calm : BOOLEAN]

\* op: the operation process_scan works on (0: none), with the policy it read.
Task == [op : 0 .. MaxOps, policy : Versions \cup {None}]

NoTask == [op |-> 0, policy |-> None]

Idle == [creates |-> FALSE, doc |-> CHOOSE d \in Docs : TRUE, label |-> 0, calm |-> FALSE]

IntakeTypeOK ==
    /\ opa \in Versions
    /\ poll \in [Workers -> Poll]
    /\ cache \in [Workers -> Cache]
    /\ ops \in Seq(Operation) /\ Len(ops) <= MaxOps
    /\ request \in [Requests -> Request]
    /\ task \in [Workers -> Task]
    /\ faults \in 0 .. MaxFaults
    /\ polled \subseteq Workers

IntakeInit ==
    /\ opa = 0
    /\ poll = [w \in Workers |-> NoPoll]
    /\ cache = [w \in Workers |-> EmptyCache]
    /\ ops = << >>
    /\ request = [r \in Requests |-> Idle]
    /\ task = [w \in Workers |-> NoTask]
    /\ faults = 0
    /\ polled = {}

Fails == faults < MaxFaults /\ faults' = faults + 1

-----------------------------------------------------------------------------
(* OPA and the workers' caches.                                            *)

\* The pipeline deploys another policy.
Reload ==
    /\ opa < MaxReloads
    /\ opa' = opa + 1
    /\ polled' = {}
    /\ poll' = [w \in Workers |-> [poll[w] EXCEPT !.clean = poll[w] = NoPoll]]
    /\ ops' = [i \in DOMAIN ops |-> [ops[i] EXCEPT
                 !.calm = @ /\ ops[i].status # "pending"]]
    /\ request' = [r \in Requests |-> [request[r] EXCEPT !.calm = FALSE]]
    /\ UNCHANGED <<cache, task, faults>>

\* _refresh: the two requests are under way at once and OPA answers each alone.
GetVersion(w) ==
    /\ poll[w].meta = None
    /\ \/ poll' = [poll EXCEPT ![w].meta = opa] /\ UNCHANGED faults
       \/ poll' = [poll EXCEPT ![w].meta = NotOK] /\ Fails
    /\ UNCHANGED <<opa, cache, ops, request, task, polled>>

GetPolicy(w) ==
    /\ poll[w].policy = None
    /\ \/ poll' = [poll EXCEPT ![w].policy = opa] /\ UNCHANGED faults
       \/ poll' = [poll EXCEPT ![w].policy = NotOK] /\ Fails
    /\ UNCHANGED <<opa, cache, ops, request, task, polled>>

\* One of the requests raises: gather does, and nothing is applied.
PollRaises(w) ==
    /\ poll[w].meta = None \/ poll[w].policy = None
    /\ Fails
    /\ poll' = [poll EXCEPT ![w] = NoPoll]
    /\ UNCHANGED <<opa, cache, ops, request, task, polled>>

\* Mutant of ApplyPoll: the policy is replaced only if the version is known.
ApplyPollFirst(w) ==
    LET p == poll[w] IN
    /\ p.meta # None /\ p.policy # None
    /\ cache' = [cache EXCEPT
         ![w].version = IF p.meta = NotOK THEN @ ELSE p.meta,
         ![w].policy = IF p.policy = NotOK \/ p.meta = NotOK THEN @ ELSE p.policy]
    /\ poll' = [poll EXCEPT ![w] = NoPoll]
    /\ polled' = IF p.clean /\ p.policy # NotOK THEN polled \cup {w} ELSE polled
    /\ UNCHANGED <<opa, ops, request, task, faults>>

\* Mutant of ApplyPoll: the polling loop ends after its first refresh.
ApplyPollOnce(w) ==
    LET p == poll[w] IN
    /\ p.meta # None /\ p.policy # None
    /\ cache' = [cache EXCEPT
         ![w].version = IF p.meta = NotOK THEN @ ELSE p.meta,
         ![w].policy = IF p.policy = NotOK THEN @ ELSE p.policy]
    /\ polled' = IF p.clean /\ p.policy # NotOK THEN polled \cup {w} ELSE polled
    /\ UNCHANGED <<opa, poll, ops, request, task, faults>>

\* Each answer with status 200 replaces its part of the cache.
ApplyPoll(w) ==
    LET p == poll[w] IN
    /\ p.meta # None /\ p.policy # None
    /\ cache' = [cache EXCEPT
         ![w].version = IF p.meta = NotOK THEN @ ELSE p.meta,
         ![w].policy = IF p.policy = NotOK THEN @ ELSE p.policy]
    /\ poll' = [poll EXCEPT ![w] = NoPoll]
    /\ polled' = IF p.clean /\ p.policy # NotOK THEN polled \cup {w} ELSE polled
    /\ UNCHANGED <<opa, ops, request, task, faults>>

-----------------------------------------------------------------------------
(* POST /v1/scan                                                           *)

Same(o, req) == o.doc = req.doc /\ o.label = req.label

\* Mutant of Finished: the lookup finds completed operations only.
FinishedCompletedOnly(o) == o.status = "completed"

\* What the deduplication lookup finds.
Finished(o) == o.status \in {"completed", "escalated"}

\* policy_version: the client's, or what OPA answers, or the fallback.
Labels == Versions \cup {opa} \cup {FALLBACK_POLICY_VERSION}

\* Bound: no more operations than MaxOps, those on their way included.
RoomForOne == Len(ops) + Cardinality({q \in Requests : request[q].creates}) < MaxOps

(***************************************************************************)
(* The label is chosen and the lookup made.  An earlier operation answers  *)
(* the request, or one will be created for it.                             *)
(***************************************************************************)
Lookup(r) ==
    /\ ~request[r].creates
    /\ RoomForOne
    /\ \E d \in Docs, v \in Labels :
          LET req == [creates |-> TRUE, doc |-> d, label |-> v, calm |-> v = opa]
              hit == \E i \in DOMAIN ops : Same(ops[i], req) /\ Finished(ops[i])
          IN  request' = [request EXCEPT ![r] = IF hit THEN Idle ELSE req]
    /\ UNCHANGED <<opa, poll, cache, ops, task, faults, polled>>

\* Settled by the pipeline, as opposed to found by the lookup.
Settled(o) == o.status \in {"completed", "escalated"}

\* Mutant of Create: the operation is labelled by a policy_version of null.
CreateUnlabelled(r) ==
    /\ request[r].creates
    /\ ops' = Append(ops, [doc |-> request[r].doc, label |-> None, calm |-> FALSE,
                           due |-> 0, late |-> 0, source |-> "scan",
                           status |-> "pending", policy |-> None])
    /\ request' = [request EXCEPT ![r] = Idle]
    /\ UNCHANGED <<opa, poll, cache, task, faults, polled>>

\* The operation is committed with its outbox row.
Create(r) ==
    LET req == request[r] IN
    /\ req.creates
    /\ ops' = Append([i \in DOMAIN ops |->
                        IF Same(ops[i], req) /\ Settled(ops[i])
                        THEN [ops[i] EXCEPT !.late = @ + 1] ELSE ops[i]],
                     [doc |-> req.doc, label |-> req.label, calm |-> req.calm,
                      due |-> 0, late |-> 0, source |-> "scan",
                      status |-> "pending", policy |-> None])
    /\ request' = [request EXCEPT ![r] = Idle]
    /\ UNCHANGED <<opa, poll, cache, task, faults, polled>>

-----------------------------------------------------------------------------
(* The MCP tools.                                                          *)

\* Requests for the document and label of o that will create an operation.
PastLookup(o) ==
    Cardinality({r \in Requests : request[r].creates /\ Same(o, request[r])})

\* A tool commits an operation, whatever operations there are.
Record(o) ==
    /\ RoomForOne
    /\ ops' = Append(ops, o)
    /\ UNCHANGED <<opa, poll, cache, request, task, faults, polled>>

\* safecontext.scan: labelled by the client or by the fallback.
tool_scan ==
    \E d \in Docs, v \in Versions \cup {FALLBACK_POLICY_VERSION} :
        Record([doc |-> d, label |-> v, calm |-> FALSE, due |-> 0, late |-> 0,
                source |-> "tool_scan", status |-> "pending", policy |-> None])

\* safecontext.classify: recorded as completed, though nothing is scanned.
tool_classify ==
    \E d \in Docs :
        LET o == [doc |-> d, label |-> FALLBACK_POLICY_VERSION] IN
        Record([doc |-> o.doc, label |-> o.label, calm |-> FALSE,
                due |-> PastLookup(o), late |-> 0,
                source |-> "tool_classify", status |-> "completed", policy |-> None])

-----------------------------------------------------------------------------
(* The pipeline, as far as it matters here.                                *)

\* process_scan reads the policy of its process before anything else.  The
\* message of tool_scan names no operation: none of its rows is worked on.
DetectBegin(w) ==
    /\ task[w].op = 0
    /\ \E i \in DOMAIN ops :
          /\ ops[i].status = "pending" /\ ops[i].source = "scan"
          /\ \A v \in Workers : task[v].op # i
          /\ task' = [task EXCEPT ![w] = [op |-> i, policy |-> cache[w].policy]]
          /\ ops' = [ops EXCEPT ![i].calm = @ /\ w \in polled]
    /\ UNCHANGED <<opa, poll, cache, request, faults, polled>>

\* The findings are committed; OPA is asked whether to escalate.
DetectCommit(w) ==
    /\ task[w].op # 0
    /\ \E s \in {"escalated", "detected"} :
          ops' = [ops EXCEPT ![task[w].op] =
                    [@ EXCEPT !.status = s, !.policy = task[w].policy,
                              !.due = IF s = "escalated" THEN PastLookup(ops[task[w].op])
                                                         ELSE 0]]
    /\ task' = [task EXCEPT ![w] = NoTask]
    /\ UNCHANGED <<opa, poll, cache, request, faults, polled>>

(***************************************************************************)
(* The rest of the pipeline.  Audits and re-scans may then turn completed  *)
(* into escalated and back, which is the same to the lookup.               *)
(***************************************************************************)
Settle(i) ==
    /\ ops[i].status = "detected"
    /\ \E s \in {"completed", "escalated"} :
          ops' = [ops EXCEPT ![i].status = s, ![i].due = PastLookup(ops[i])]
    /\ UNCHANGED <<opa, poll, cache, request, task, faults, polled>>

\* A worker is restarted: its cache is empty and its task is redelivered.
CrashWorker(w) ==
    /\ Fails
    /\ cache' = [cache EXCEPT ![w] = EmptyCache]
    /\ poll' = [poll EXCEPT ![w] = NoPoll]
    /\ task' = [task EXCEPT ![w] = NoTask]
    /\ polled' = polled \ {w}
    /\ UNCHANGED <<opa, ops, request>>

Polling(w) == GetVersion(w) \/ GetPolicy(w) \/ ApplyPoll(w)

IntakeNext ==
    \/ Reload
    \/ \E w \in Workers : Polling(w) \/ PollRaises(w)
    \/ \E r \in Requests : Lookup(r) \/ Create(r)
    \/ tool_scan \/ tool_classify
    \/ \E w \in Workers : DetectBegin(w) \/ DetectCommit(w) \/ CrashWorker(w)
    \/ \E i \in DOMAIN ops : Settle(i)

\* start_polling never ends.
IntakeSpec ==
    /\ IntakeInit /\ [][IntakeNext]_vars
    /\ \A w \in Workers : WF_vars(Polling(w))

-----------------------------------------------------------------------------
(***************************************************************************)
(* In quiet times the label is honest: an operation labelled as OPA says   *)
(* and detected, with no reload in between, by a worker that has polled    *)
(* since the last reload was detected with the policy of its label.        *)
(***************************************************************************)
CalmLabelIsHonest ==
    \A i \in DOMAIN ops :
        ops[i].calm /\ ops[i].status # "pending" => ops[i].policy = ops[i].label

(***************************************************************************)
(* POST /v1/scan stops repeating work: once a finished operation is in the *)
(* table, be it one that classify recorded, the endpoint creates no other  *)
(* one for the same document and label than for the requests that were     *)
(* past their lookup by then.  The MCP tools, which look nothing up, may   *)
(* at any time; their operations are not counted in late.                  *)
(***************************************************************************)
DuplicatesAreInFlight ==
    \A i \in DOMAIN ops : ops[i].late <= ops[i].due

(***************************************************************************)
(* Hot reload: through failing polls and restarts, every worker ends up    *)
(* with the last policy and its version, and pairs torn by a reload during *)
(* a poll are mended.                                                      *)
(***************************************************************************)
ReloadReachesWorkers ==
    <>[](\A w \in Workers : cache[w] = [version |-> opa, policy |-> opa])
=============================================================================
