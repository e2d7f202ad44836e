------------------------------- MODULE Pipeline -------------------------------
(***************************************************************************)
(* PipelineEngine (the run in the memory of the backend) and               *)
(* PipelineService (the requests that drive it and the row of the run in   *)
(* PostgreSQL).                                                            *)
(*                                                                         *)
(* A stage is computed in one go; the awaits that let other requests in    *)
(* are the delay before each stage of a full run, the loading of the       *)
(* graph and the saving of the row.  Data is abstracted to where it comes  *)
(* from: the version of the graph and the stages that were applied to it.  *)
(* Times, progress, warnings and metrics are left out: nothing decides on  *)
(* them.                                                                   *)
(***************************************************************************)
EXTENDS Naturals, Sequences, FiniteSets, SequencesExt

CONSTANTS Clients,      \* requests that may be in flight at the same time
          NumStages,    \* PIPELINE_STAGES_ORDER.length
          CheckStage,   \* GRAPH_BUILD, the stage that rejects dangling edges
          Graphs,       \* versions of the graph, numbered from 1
          BadGraphs,    \* versions with a dangling edge
          Kinds,        \* the requests in use
          Budgets       \* bounds: requests sent, rows that cannot be saved, restarts of the
                        \* backend; and whether the client follows CarefulClient

ASSUME PipelineAssumption ==
    /\ NumStages \in Nat \ {0} /\ CheckStage \in 1..NumStages
    /\ Graphs # {} /\ Graphs \subseteq Nat \ {0} /\ BadGraphs \subseteq Graphs
    /\ Kinds \subseteq {"start", "pause", "resume", "next", "previous",
                        "replay", "reset"}
    /\ Budgets \subseteq [requests : Nat, faults : Nat, crashes : Nat, careful : BOOLEAN]

VARIABLES
    run,        \* status, currentStage (0 for null) and completedStages
    snapshots,  \* the outputs of the stages of this run
    output,     \* currentOutput
    input,      \* initialInput
    exec,       \* executionId
    timer,      \* the client whose delay timerId belongs to
    ready,      \* inputReady of the service
    req,        \* client -> its request
    graph,      \* the current version of the graph
    saved,      \* the latest row of pipeline_runs
    budget

engine == <<run, snapshots, output, input, exec>>
vars == <<run, snapshots, output, input, exec, timer, ready, req, graph, saved,
          budget>>

------------------------------------------------------------------------------
Status == {"IDLE", "RUNNING", "PAUSED", "COMPLETED", "FAILED"}
Stages == 1..NumStages
AllStages == [i \in Stages |-> i]

NoData == [graph |-> 0, stages |-> <<>>]
Loaded == [graph |-> graph, stages |-> <<>>]
Applied(data, i) == [data EXCEPT !.stages = Append(@, i)]
Rejects(data, i) == i = CheckStage /\ data.graph \in BadGraphs

FreshRun == [status |-> "IDLE", stage |-> 0, completed |-> <<>>]

\* What a save is called with: input and output as they are at the call; the run
\* and the list of snapshots are the engine's own objects (shared) until the
\* statement is sent or the engine replaces them.
Payload(o, in) == [run |-> FreshRun, snapshots |-> <<>>, output |-> o, input |-> in,
                   shared |-> {"run", "snapshots"}]

Idle == [pc |-> "idle", exec |-> 0, stage |-> 0, row |-> Payload(NoData, NoData)]

\* The row p, with its own copy of the shared objects in parts.
Copied(p, parts) ==
    [p EXCEPT
        !.run       = IF "run" \in parts \intersect p.shared THEN run ELSE @,
        !.snapshots = IF "snapshots" \in parts \intersect p.shared THEN snapshots ELSE @,
        !.shared    = @ \ parts]

\* The engine replaces the objects in parts: saves under way keep the old ones.
Detached(parts) ==
    [c \in Clients |-> IF req[c].pc = "saving"
                       THEN [req[c] EXCEPT !.row = Copied(@, parts)] ELSE req[c]]

\* Having done its work, the request c goes on to save the row of the run.
Saving(q, c) == [q EXCEPT ![c] = [Idle EXCEPT !.pc = "saving",
                                              !.row = Payload(output', input')]]

Init ==
    /\ run = FreshRun /\ snapshots = <<>> /\ output = NoData /\ input = NoData
    /\ exec = 0 /\ timer = {} /\ ready = FALSE
    /\ req = [c \in Clients |-> Idle]
    /\ graph \in Graphs
    /\ saved = Copied(Payload(NoData, NoData), {"run", "snapshots"})
    /\ budget \in Budgets

------------------------------------------------------------------------------
(* The loop over the stages                                                *)

\* executeRemainingStages(from), entered or re-entered after a stage by the loop
\* that client c awaits, up to its next delay or its return; r and q are the run
\* and the requests at that point.
Loop(c, id, from, r, q) ==
    LET open == {i \in from..NumStages : i \notin ToSet(r.completed)}
        goes == from <= NumStages /\ exec' = id
    IN  \/ /\ goes /\ r.status = "PAUSED"
           /\ run' = [r EXCEPT !.stage = from]
           /\ req' = Saving(q, c)
           /\ UNCHANGED timer
        \/ /\ goes /\ r.status = "RUNNING" /\ open # {}
           /\ run' = [r EXCEPT !.stage = Min(open)]
           /\ req' = [q EXCEPT ![c] = [Idle EXCEPT !.pc = "delay", !.exec = id,
                                                   !.stage = Min(open)]]
           /\ timer' = {c}
        \/ /\ ~(goes /\ r.status = "PAUSED")
           /\ ~(goes /\ r.status = "RUNNING" /\ open # {})
           /\ run' = [r EXCEPT !.status = "COMPLETED", !.stage = 0]
           /\ req' = Saving(q, c)
           /\ UNCHANGED timer

\* The delay is over: the stage is computed on whatever the output is now. A stage throws
\* only where there is no output: it awaits nothing, so that it cannot time out either, and
\* says in its result what is wrong with the data.
StageRuns(c) ==
    LET i == req[c].stage
        d == Applied(output, i)
    IN  /\ req[c].pc = "delay"
        /\ UNCHANGED <<input, exec, ready, graph, saved, budget>>
        /\ \/ /\ output = NoData
              /\ UNCHANGED <<snapshots, output, timer>>
              /\ run' = [run EXCEPT !.status = "FAILED", !.stage = i]
              /\ req' = Saving(req, c)
           \/ /\ output # NoData /\ Rejects(output, i)
              /\ snapshots' = Append(snapshots, d)
              /\ UNCHANGED <<output, timer>>
              /\ run' = [run EXCEPT !.status = "FAILED", !.stage = i]
              /\ req' = Saving(req, c)
           \/ /\ output # NoData /\ ~Rejects(output, i)
              /\ snapshots' = Append(snapshots, d)
              /\ output' = d
              /\ Loop(c, req[c].exec, i + 1, [run EXCEPT !.completed = Append(@, i)], req)

------------------------------------------------------------------------------
(* Requests                                                                *)

\* The use the engine is made for: one request at a time, save for a pause of a
\* full run, a start only when no stage is completed, no step back from a full run
\* that failed, and no restart of the backend after a pause.
CarefulClient(kind) ==
    /\ \A c \in Clients : req[c].pc = "idle" \/ (kind = "pause" /\ req[c].pc = "delay")
    /\ kind = "pause" => budget.crashes = 0
    /\ kind = "start" => run.completed = <<>>
    /\ kind = "previous" => Len(snapshots) = Len(run.completed)

Sent(c, kind) ==
    /\ req[c].pc = "idle" /\ kind \in Kinds /\ budget.requests > 0
    /\ budget.careful => CarefulClient(kind)
    /\ budget' = [budget EXCEPT !.requests = @ - 1]

\* start loads the graph before it asks whether a run is under way.
Start(c) ==
    /\ Sent(c, "start")
    /\ req' = [req EXCEPT ![c].pc = "starting"]
    /\ UNCHANGED <<engine, timer, ready, graph, saved>>

StartRefused(c) ==
    /\ req[c].pc = "starting" /\ run.status = "RUNNING"
    /\ input' = Loaded /\ output' = Loaded /\ ready' = TRUE
    /\ req' = [req EXCEPT ![c] = Idle]
    /\ UNCHANGED <<run, snapshots, exec, timer, graph, saved, budget>>

StartAccepted(c) ==
    /\ req[c].pc = "starting" /\ run.status # "RUNNING"
    /\ input' = Loaded /\ output' = Loaded /\ ready' = TRUE
    /\ exec' = exec + 1 /\ snapshots' = <<>>
    /\ Loop(c, exec + 1, 1, [run EXCEPT !.status = "RUNNING", !.stage = 1],
            Detached({"snapshots"}))
    /\ UNCHANGED <<graph, saved, budget>>

\* reset: the latest delay never ends, and its request is never answered.
Stopped(q) == [c \in Clients |->
                  IF c \in timer /\ q[c].pc = "delay"
                  THEN [q[c] EXCEPT !.pc = "stopped"] ELSE q[c]]

Pause(c) ==
    /\ Sent(c, "pause") /\ run.status = "RUNNING"
    /\ UNCHANGED <<snapshots, output, input, exec, timer, ready, graph, saved>>
    /\ run' = [run EXCEPT !.status = "PAUSED"]
    /\ req' = Saving(req, c)

Resume(c) ==
    /\ Sent(c, "resume") /\ run.status = "PAUSED" /\ run.stage # 0
    /\ UNCHANGED <<snapshots, output, input, ready, graph, saved>>
    /\ exec' = exec + 1
    /\ Loop(c, exec + 1, run.stage, [run EXCEPT !.status = "RUNNING"], req)

AllDone == Len(run.completed) >= NumStages

\* nextStage on the data o: one stage, without a delay. Its throws after the run was set to
\* RUNNING are out of reach: there is data (ReadyHasData), and with data no stage throws.
NextStage(c, o) ==
    LET i == Len(run.completed) + 1
        d == Applied(o, i)
    IN  \/ /\ run.status \notin {"IDLE", "COMPLETED"}
           /\ output' = o
           /\ req' = [req EXCEPT ![c] = Idle]
           /\ UNCHANGED <<run, snapshots, exec>>
        \/ /\ run.status \in {"IDLE", "COMPLETED"} /\ AllDone
           /\ output' = o
           /\ req' = Saving(req, c)
           /\ UNCHANGED <<run, snapshots, exec>>
        \/ /\ run.status \in {"IDLE", "COMPLETED"} /\ ~AllDone
           /\ exec' = exec + 1
           /\ snapshots' = Append(snapshots, d)
           /\ output' = d
           /\ run' = [completed |-> Append(run.completed, i),
                      status |-> IF Rejects(o, i) THEN "FAILED"
                                 ELSE IF i >= NumStages THEN "COMPLETED" ELSE "IDLE",
                      stage  |-> IF Rejects(o, i) THEN i
                                 ELSE IF i >= NumStages THEN 0 ELSE i + 1]
           /\ req' = Saving(req, c)

Next(c) ==
    /\ Sent(c, "next")
    /\ UNCHANGED <<input, timer, ready, graph, saved>>
    /\ \/ /\ ready
          /\ NextStage(c, output)
       \/ /\ ~ready
          /\ req' = [req EXCEPT ![c].pc = "seeding"]
          /\ UNCHANGED <<run, snapshots, output, exec>>

\* ensureInput does not look again whether another request has seeded meanwhile.
NextSeeded(c) ==
    /\ req[c].pc = "seeding"
    /\ input' = Loaded /\ ready' = TRUE
    /\ NextStage(c, Loaded)
    /\ UNCHANGED <<timer, graph, saved, budget>>

\* The graph cannot be loaded, or not in full.
LoadFails(c) ==
    /\ req[c].pc \in {"starting", "seeding"}
    /\ req' = [req EXCEPT ![c] = Idle]
    /\ UNCHANGED <<engine, timer, ready, graph, saved, budget>>

\* Slip: the stage is taken back and its output kept.
PreviousKeepsOutput(c) ==
    /\ Sent(c, "previous")
    /\ IF run.completed = <<>>
       THEN UNCHANGED <<run, snapshots>>
       ELSE /\ snapshots' = IF snapshots = <<>> THEN <<>> ELSE Front(snapshots)
            /\ run' = [status |-> "IDLE", stage |-> Last(run.completed),
                       completed |-> Front(run.completed)]
    /\ UNCHANGED <<output, input, exec, timer, ready, graph, saved>>
    /\ req' = Saving(req, c)

Previous(c) ==
    /\ Sent(c, "previous")
    /\ IF run.completed = <<>>
       THEN UNCHANGED <<run, snapshots, output>>
       ELSE /\ snapshots' = IF snapshots = <<>> THEN <<>> ELSE Front(snapshots)
            /\ output' = IF snapshots' = <<>> THEN input ELSE Last(snapshots')
            /\ run' = [status |-> "IDLE", stage |-> Last(run.completed),
                       completed |-> Front(run.completed)]
    /\ UNCHANGED <<input, exec, timer, ready, graph, saved>>
    /\ req' = Saving(req, c)

\* Slip: the service goes on believing that the engine has data.
ResetKeepsReady(c) ==
    /\ Sent(c, "reset")
    /\ run' = FreshRun /\ snapshots' = <<>> /\ output' = NoData /\ input' = NoData
    /\ exec' = 0 /\ timer' = {} /\ UNCHANGED ready
    /\ req' = Saving(Stopped(Detached({"run", "snapshots"})), c)
    /\ UNCHANGED <<graph, saved>>

\* Slip: the timer is stopped, the status stays.
ResetKeepsStatus(c) ==
    /\ Sent(c, "reset")
    /\ run' = [FreshRun EXCEPT !.status = run.status] /\ snapshots' = <<>>
    /\ output' = NoData /\ input' = NoData
    /\ exec' = 0 /\ timer' = {} /\ ready' = FALSE
    /\ req' = Saving(Stopped(Detached({"run", "snapshots"})), c)
    /\ UNCHANGED <<graph, saved>>

Reset(c) ==
    /\ Sent(c, "reset")
    /\ run' = FreshRun /\ snapshots' = <<>> /\ output' = NoData /\ input' = NoData
    /\ exec' = 0 /\ timer' = {} /\ ready' = FALSE
    /\ req' = Saving(Stopped(Detached({"run", "snapshots"})), c)
    /\ UNCHANGED <<graph, saved>>

\* Slip: the stages of the replayed run are not forgotten.
ReplayKeepsStages(c) ==
    /\ Sent(c, "replay") /\ run.completed # <<>> /\ input # NoData
    /\ exec' = 1 /\ snapshots' = <<>> /\ output' = input
    /\ UNCHANGED <<input, ready, graph, saved>>
    /\ Loop(c, 1, 1, [run EXCEPT !.status = "RUNNING", !.stage = 1],
            Stopped(Detached({"run", "snapshots"})))

\* replay resets and starts again from the same input.
Replay(c) ==
    /\ Sent(c, "replay") /\ run.completed # <<>> /\ input # NoData
    /\ exec' = 1 /\ snapshots' = <<>> /\ output' = input
    /\ UNCHANGED <<input, ready, graph, saved>>
    /\ Loop(c, 1, 1, [FreshRun EXCEPT !.status = "RUNNING", !.stage = 1],
            Stopped(Detached({"run", "snapshots"})))

\* The statement goes out with the row as it is now.
SaveSent(c) ==
    /\ req[c].pc = "saving"
    /\ req' = [req EXCEPT ![c].pc = "sent",
                          ![c].row = Copied(@, {"run", "snapshots"})]
    /\ UNCHANGED <<engine, timer, ready, graph, saved, budget>>

\* The row is written and the request answered; or the write fails and the
\* request is answered with an error.
Saves(c) ==
    /\ req[c].pc = "sent"
    /\ saved' = req[c].row
    /\ req' = [req EXCEPT ![c] = Idle]
    /\ UNCHANGED <<engine, timer, ready, graph, budget>>

SaveFails(c) ==
    /\ req[c].pc = "sent" /\ budget.faults > 0
    /\ budget' = [budget EXCEPT !.faults = @ - 1]
    /\ req' = [req EXCEPT ![c] = Idle]
    /\ UNCHANGED <<engine, timer, ready, graph, saved>>

\* External: imports change the graph.
GraphChanges ==
    /\ graph' \in Graphs /\ graph' > graph
    /\ UNCHANGED <<engine, timer, ready, req, saved, budget>>

\* The backend stops and comes up again: onModuleInit restores the latest row.
Restart ==
    /\ budget.crashes > 0
    /\ budget' = [budget EXCEPT !.crashes = @ - 1]
    /\ run' = saved.run /\ snapshots' = saved.snapshots
    /\ output' = saved.output /\ input' = saved.input
    /\ ready' = (saved.input # NoData \/ saved.output # NoData)
    /\ exec' = 0 /\ timer' = {}
    /\ req' = [c \in Clients |-> Idle]
    /\ UNCHANGED <<graph, saved>>

Proceed(c) ==
    \/ StageRuns(c) \/ StartRefused(c) \/ StartAccepted(c) \/ NextSeeded(c)
    \/ SaveSent(c) \/ Saves(c)

Request(c) ==
    \/ Start(c) \/ Pause(c) \/ Resume(c) \/ Next(c) \/ Previous(c) \/ Reset(c)
    \/ Replay(c)

NextStep ==
    \/ \E c \in Clients : \/ Request(c) \/ Proceed(c)
                          \/ LoadFails(c) \/ SaveFails(c)
    \/ GraphChanges
    \/ Restart

Spec == Init /\ [][NextStep]_vars

------------------------------------------------------------------------------
(* Properties                                                              *)

DataType == [graph : Graphs \cup {0}, stages : Seq(Stages)]
RunType == [status : Status, stage : Stages \cup {0}, completed : Seq(Stages)]
RowType == [run : RunType, snapshots : Seq(DataType), output : DataType,
            input : DataType, shared : SUBSET {"run", "snapshots"}]

\* Every part of the engine, the requests and the row has its type.
TypeOK ==
    /\ run \in RunType /\ snapshots \in Seq(DataType)
    /\ output \in DataType /\ input \in DataType
    /\ exec \in Nat /\ timer \subseteq Clients /\ ready \in BOOLEAN
    /\ graph \in Graphs
    /\ DOMAIN req = Clients
    /\ \A c \in Clients :
           /\ req[c].pc \in {"idle", "starting", "seeding", "delay", "stopped",
                             "saving", "sent"}
           /\ req[c].exec \in Nat /\ req[c].stage \in Stages \cup {0}
           /\ req[c].row \in RowType
    /\ saved \in RowType

\* The data in hand is the input with exactly the completed stages applied, in
\* the order in which they are listed: whatever was paused, stepped back, replayed,
\* failed or restored from the row, nextStage and resume go on from the data of the
\* stage before (currentOutput, completedStages and snapshots are kept in step by
\* hand, and the row holds objects that the engine goes on to change).  For a client
\* that follows CarefulClient.
OutputMatches ==
    budget.careful /\ output # NoData => output = [input EXCEPT !.stages = run.completed]

\* A run that reports COMPLETED has put its input through every stage, in order:
\* no path through pause, resume, next, previous and replay skips or repeats one.
\* For a client that follows CarefulClient.
CompletedIsWhole ==
    budget.careful /\ run.status = "COMPLETED" =>
        output = [graph |-> input.graph, stages |-> AllStages]

\* A run that reports RUNNING has a loop under way that is current (executionId)
\* and will end the run: requests that overlap in any way never leave the pipeline
\* RUNNING with nobody running it, which would refuse every later start and next.
RunningIsDriven ==
    ~budget.careful /\ run.status = "RUNNING" =>
        \E c \in Clients : req[c].pc = "delay" /\ req[c].exec = exec

\* inputReady of the service, by which next skips the loading of the graph, is
\* never left set by overlapping requests while the engine has no data.
ReadyHasData == ~budget.careful /\ ready => output # NoData /\ input # NoData
==============================================================================
