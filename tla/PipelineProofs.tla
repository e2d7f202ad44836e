---------------------------- MODULE PipelineProofs ----------------------------
(***************************************************************************)
(* Proofs about Pipeline for every number of clients, stages and requests. *)
(*                                                                         *)
(* Any client (PInv): as long as the backend is not restarted, requests    *)
(* that overlap in any way never leave the pipeline RUNNING with nobody    *)
(* running it, nor ready without data.  A restart is excluded because the  *)
(* row it reads may have been written while the run was RUNNING; nothing   *)
(* then runs it.  The invariant therefore says nothing of rows.            *)
(*                                                                         *)
(* A careful client (QInv): the data in hand is that of the completed      *)
(* stages, across pauses, steps back, replays, failures and restarts.      *)
(***************************************************************************)
EXTENDS Pipeline, TLAPS

RunShape(r) == DOMAIN r = {"status", "stage", "completed"}
ReqShape(q) ==
    /\ DOMAIN q = Clients
    /\ \A c \in Clients : DOMAIN q[c] = {"pc", "exec", "stage", "row"}

\* The engine is driven, with requests q.
Current(q, c, id) == q[c].pc = "delay" /\ q[c].exec = id
Driven == run.status = "RUNNING" => \E c \in Clients : Current(req, c, exec)

Whole(d) == DOMAIN d = {"graph", "stages"} /\ d.graph # 0
Filled(d) == d = NoData \/ Whole(d)

\* A sequence of outputs, each of which comes from a graph.
Outputs(s) == \E S : s \in Seq(S) /\ \A d \in S : Whole(d)

Held ==
    /\ Filled(output) /\ Filled(input) /\ Outputs(snapshots)
    /\ ready => Whole(output) /\ Whole(input)

Unbroken ==
    /\ RunShape(run) /\ ReqShape(req) /\ Driven
    /\ graph \in Graphs /\ Held

Budget == [requests : Nat, faults : Nat, crashes : Nat, careful : BOOLEAN]

PInv ==
    /\ budget \in Budget
    /\ budget.careful \/ (budget.crashes = 0 /\ Unbroken)

------------------------------------------------------------------------------
(* Data                                                                    *)

LEMMA WholeIsData == ASSUME NEW d, Whole(d) PROVE d # NoData /\ Filled(d)
  BY DEF Whole, NoData, Filled

LEMMA LoadedIsWhole == ASSUME graph \in Graphs PROVE Whole(Loaded)
  BY PipelineAssumption DEF Loaded, Whole

LEMMA AppliedIsWhole == ASSUME NEW d, NEW i, Whole(d) PROVE Whole(Applied(d, i))
  BY DEF Whole, Applied

LEMMA NoOutputs == Outputs(<<>>)
<1> DEFINE S == {[graph |-> 1, stages |-> <<>>]}
<1>1. <<>> \in Seq(S) OBVIOUS
<1>2. \A d \in S : Whole(d) BY DEF Whole
<1> HIDE DEF S
<1> QED BY <1>1, <1>2 DEF Outputs

LEMMA OutputAdded == ASSUME NEW s, NEW d, Outputs(s), Whole(d) PROVE Outputs(Append(s, d))
<1>1. PICK S : s \in Seq(S) /\ \A e \in S : Whole(e)
  BY DEF Outputs
<1>2. s \in Seq(S \cup {d})
  BY <1>1
<1>3. Append(s, d) \in Seq(S \cup {d})
  BY <1>2
<1>4. \A e \in S \cup {d} : Whole(e)
  BY <1>1
<1> QED BY <1>3, <1>4 DEF Outputs

LEMMA OutputTaken ==
    ASSUME NEW s, Outputs(s), s # <<>>
    PROVE  Outputs(Front(s)) /\ Whole(Last(s))
<1>1. PICK S : s \in Seq(S) /\ \A e \in S : Whole(e)
  BY DEF Outputs
<1>2. Front(s) \in Seq(S) /\ Last(s) \in S
  BY <1>1 DEF Front, Last
<1> QED BY <1>1, <1>2 DEF Outputs

------------------------------------------------------------------------------
(* Requests                                                                *)

LEMMA IdleShape == DOMAIN Idle = {"pc", "exec", "stage", "row"} /\ Idle.pc = "idle"
  BY DEF Idle

\* A loop that is entered as the current one leaves the engine driven: in a delay
\* of the client that awaits it, or no longer RUNNING.
LEMMA LoopDrives ==
    ASSUME NEW c \in Clients, NEW id, NEW from, NEW r, NEW q,
           RunShape(r), ReqShape(q), exec' = id, Loop(c, id, from, r, q)
    PROVE  RunShape(run') /\ ReqShape(req') /\ Driven'
<1> DEFINE open == {i \in from..NumStages : i \notin ToSet(r.completed)}
           goes == from <= NumStages /\ exec' = id
<1>1. CASE goes /\ r.status = "PAUSED" /\ run' = [r EXCEPT !.stage = from] /\ req' = Saving(q, c)
  BY <1>1, IdleShape DEF RunShape, ReqShape, Driven, Saving
<1>2. CASE /\ goes /\ r.status = "RUNNING"
           /\ run' = [r EXCEPT !.stage = Min(open)]
           /\ req' = [q EXCEPT ![c] = [Idle EXCEPT !.pc = "delay", !.exec = id,
                                                   !.stage = Min(open)]]
  <2>1. RunShape(run') BY <1>2 DEF RunShape
  <2>2. ReqShape(req') BY <1>2, IdleShape DEF ReqShape
  <2>3. Current(req', c, exec')
    BY <1>2, IdleShape DEF ReqShape, Current
  <2> QED BY <2>1, <2>2, <2>3 DEF Driven
<1>3. CASE run' = [r EXCEPT !.status = "COMPLETED", !.stage = 0] /\ req' = Saving(q, c)
  BY <1>3, IdleShape DEF RunShape, ReqShape, Driven, Saving
<1> QED BY <1>1, <1>2, <1>3 DEF Loop

\* A loop that is no longer current never goes on.
LEMMA OldLoopEnds ==
    ASSUME NEW c \in Clients, NEW id, NEW from, NEW r, NEW q,
           RunShape(r), ReqShape(q), exec' # id, Loop(c, id, from, r, q)
    PROVE  RunShape(run') /\ ReqShape(req') /\ Driven'
<1>1. run' = [r EXCEPT !.status = "COMPLETED", !.stage = 0] /\ req' = Saving(q, c)
  BY DEF Loop
<1> QED BY <1>1, IdleShape DEF RunShape, ReqShape, Driven, Saving

LEMMA DetachedShape ==
    ASSUME NEW parts, ReqShape(req)
    PROVE  ReqShape(Detached(parts)) /\ ReqShape(Stopped(Detached(parts)))
<1>1. ReqShape(Detached(parts))
  BY DEF ReqShape, Detached
<1> QED BY <1>1 DEF ReqShape, Stopped

\* A step of a client that awaits no delay leaves the loops of the others alone.
LEMMA OthersDrive ==
    ASSUME NEW c \in Clients, NEW v, ReqShape(req), RunShape(run), Driven,
           req[c].pc # "delay", DOMAIN v = {"pc", "exec", "stage", "row"},
           req' = [req EXCEPT ![c] = v],
           run'.status = run.status, exec' = exec
    PROVE  ReqShape(req') /\ Driven'
  BY DEF ReqShape, RunShape, Driven, Current

\* Nothing of the data is touched.
LEMMA DataKept ==
    ASSUME Held, UNCHANGED <<output, input, snapshots, ready>>
    PROVE  Held'
  BY DEF Held

------------------------------------------------------------------------------
(* Steps                                                                   *)

LEMMA SentLeaves ==
    ASSUME NEW c \in Clients, NEW kind, Sent(c, kind), budget \in Budget
    PROVE  budget' \in Budget /\ budget'.careful = budget.careful
           /\ budget'.crashes = budget.crashes
  BY DEF Sent, Budget

\* What a bound of the model says is never widened.
LEMMA BudgetKept ==
    ASSUME budget \in Budget, NextStep
    PROVE  budget' \in Budget /\ budget'.careful = budget.careful
           /\ (budget.crashes = 0 => budget'.crashes = 0)
<1>1. ASSUME NEW c \in Clients, Request(c) PROVE \E kind : Sent(c, kind)
  BY <1>1 DEF Request, Start, Pause, Resume, Next, Previous, Reset, Replay
<1>2. ASSUME NEW c \in Clients, Proceed(c) PROVE UNCHANGED budget
  BY <1>2 DEF Proceed, StageRuns, StartRefused, StartAccepted, NextSeeded, SaveSent, Saves
<1>3. ASSUME NEW c \in Clients, LoadFails(c) PROVE UNCHANGED budget
  BY <1>3 DEF LoadFails
<1>4. ASSUME NEW c \in Clients, SaveFails(c)
      PROVE  budget' \in Budget /\ budget'.careful = budget.careful
             /\ budget'.crashes = budget.crashes
  BY <1>4 DEF SaveFails, Budget
<1>5. CASE GraphChanges
  BY <1>5 DEF GraphChanges
<1>6. CASE Restart
  BY <1>6 DEF Restart, Budget
<1> QED BY <1>1, <1>2, <1>3, <1>4, <1>5, <1>6, SentLeaves DEF NextStep

LEMMA StageKeeps ==
    ASSUME NEW c \in Clients, Unbroken, StageRuns(c) PROVE Unbroken'
<1> DEFINE i == req[c].stage
           d == Applied(output, i)
<1>1. UNCHANGED <<input, exec, ready, graph>>
  BY DEF StageRuns
<1>2. CASE /\ UNCHANGED <<snapshots, output>>
           /\ run' = [run EXCEPT !.status = "FAILED", !.stage = i]
           /\ req' = Saving(req, c)
  <2>1. RunShape(run') /\ ReqShape(req') /\ Driven'
    BY <1>2, IdleShape DEF Unbroken, RunShape, ReqShape, Driven, Saving
  <2> QED BY <1>1, <1>2, <2>1 DEF Unbroken, Held
<1>3. CASE /\ output # NoData /\ UNCHANGED output
           /\ snapshots' = Append(snapshots, d)
           /\ run' = [run EXCEPT !.status = "FAILED", !.stage = i]
           /\ req' = Saving(req, c)
  <2>1. RunShape(run') /\ ReqShape(req') /\ Driven'
    BY <1>3, IdleShape DEF Unbroken, RunShape, ReqShape, Driven, Saving
  <2>2. Outputs(snapshots')
    BY <1>3, OutputAdded, AppliedIsWhole DEF Unbroken, Held, Filled
  <2> QED BY <1>1, <1>3, <2>1, <2>2 DEF Unbroken, Held
<1>4. CASE /\ output # NoData /\ snapshots' = Append(snapshots, d) /\ output' = d
           /\ Loop(c, req[c].exec, i + 1, [run EXCEPT !.completed = Append(@, i)], req)
  <2>1. RunShape([run EXCEPT !.completed = Append(@, i)]) /\ ReqShape(req)
    BY DEF Unbroken, RunShape
  <2>2. RunShape(run') /\ ReqShape(req') /\ Driven'
    BY <1>4, <2>1, LoopDrives, OldLoopEnds
  <2>3. Whole(d)
    BY <1>4, AppliedIsWhole DEF Unbroken, Held, Filled
  <2>4. Outputs(snapshots') /\ Filled(output') /\ Whole(output')
    BY <1>4, <2>3, OutputAdded, WholeIsData DEF Unbroken, Held
  <2> QED BY <1>1, <2>2, <2>4 DEF Unbroken, Held
<1> QED BY <1>2, <1>3, <1>4 DEF StageRuns

LEMMA StartedKeeps ==
    ASSUME NEW c \in Clients, Unbroken, StartAccepted(c) \/ StartRefused(c) PROVE Unbroken'
<1>1. Whole(Loaded) /\ Filled(Loaded)
  BY LoadedIsWhole, WholeIsData DEF Unbroken
<1>2. CASE StartAccepted(c)
  <2> DEFINE r == [run EXCEPT !.status = "RUNNING", !.stage = 1]
  <2>1. RunShape(r) /\ ReqShape(Detached({"snapshots"}))
    BY DetachedShape DEF Unbroken, RunShape
  <2>2. RunShape(run') /\ ReqShape(req') /\ Driven'
    BY <1>2, <2>1, LoopDrives DEF StartAccepted
  <2> QED BY <1>1, <1>2, <2>2, NoOutputs DEF StartAccepted, Unbroken, Held
<1>3. CASE StartRefused(c)
  <2>1. ReqShape(req') /\ Driven'
    BY <1>3, OthersDrive, IdleShape DEF StartRefused, Unbroken
  <2> QED BY <1>1, <1>3, <2>1 DEF StartRefused, Unbroken, Held
<1> QED BY <1>2, <1>3

LEMMA NextStageKeeps ==
    ASSUME NEW c \in Clients, NEW o, Unbroken, NextStage(c, o), Whole(o), Filled(input'),
           ready' => Whole(input'), req[c].pc # "delay", graph' \in Graphs
    PROVE  Unbroken'
<1> DEFINE i == Len(run.completed) + 1
           d == Applied(o, i)
<1>1. CASE /\ run.status \notin {"IDLE", "COMPLETED"} /\ output' = o
           /\ req' = [req EXCEPT ![c] = Idle]
           /\ UNCHANGED <<run, snapshots, exec>>
  <2>1. ReqShape(req') /\ Driven'
    BY <1>1, OthersDrive, IdleShape DEF Unbroken
  <2> QED BY <1>1, <2>1, WholeIsData DEF Unbroken, Held
<1>2. CASE /\ run.status \in {"IDLE", "COMPLETED"} /\ output' = o
           /\ req' = Saving(req, c)
           /\ UNCHANGED <<run, snapshots, exec>>
  <2>1. ReqShape(req') /\ Driven'
    BY <1>2, IdleShape DEF Unbroken, ReqShape, Driven, Saving
  <2> QED BY <1>2, <2>1, WholeIsData DEF Unbroken, Held
<1>3. CASE /\ snapshots' = Append(snapshots, d) /\ output' = d
           /\ run' = [completed |-> Append(run.completed, i),
                      status |-> IF Rejects(o, i) THEN "FAILED"
                                 ELSE IF i >= NumStages THEN "COMPLETED" ELSE "IDLE",
                      stage  |-> IF Rejects(o, i) THEN i
                                 ELSE IF i >= NumStages THEN 0 ELSE i + 1]
           /\ req' = Saving(req, c)
  <2>1. RunShape(run') /\ run'.status # "RUNNING"
    BY <1>3 DEF RunShape
  <2>2. ReqShape(req') /\ Driven'
    BY <1>3, <2>1, IdleShape DEF Unbroken, ReqShape, Driven, Saving
  <2>3. Whole(d)
    BY AppliedIsWhole
  <2>4. Outputs(snapshots')
    BY <1>3, <2>3, OutputAdded DEF Unbroken, Held
  <2> QED BY <1>3, <2>1, <2>2, <2>3, <2>4, WholeIsData DEF Unbroken, Held
<1> QED BY <1>1, <1>2, <1>3 DEF NextStage

LEMMA NextKeeps ==
    ASSUME NEW c \in Clients, Unbroken, Next(c) \/ NextSeeded(c) PROVE Unbroken'
<1>1. CASE Next(c)
  <2>1. req[c].pc = "idle" /\ UNCHANGED <<input, ready, graph>>
    BY <1>1 DEF Next, Sent
  <2>2. CASE ready /\ NextStage(c, output)
    BY <2>1, <2>2, NextStageKeeps DEF Unbroken, Held
  <2>3. CASE /\ req' = [req EXCEPT ![c].pc = "seeding"]
             /\ UNCHANGED <<run, snapshots, output, exec>>
    <3>1. req' = [req EXCEPT ![c] = [req[c] EXCEPT !.pc = "seeding"]]
      BY <2>3 DEF Unbroken, ReqShape
    <3>2. ReqShape(req') /\ Driven'
      BY <2>1, <2>3, <3>1, OthersDrive DEF Unbroken, ReqShape
    <3> QED BY <2>1, <2>3, <3>2, DataKept DEF Unbroken
  <2> QED BY <1>1, <2>2, <2>3 DEF Next
<1>2. CASE NextSeeded(c)
  <2>1. Whole(Loaded) /\ Filled(Loaded)
    BY LoadedIsWhole, WholeIsData DEF Unbroken
  <2> QED BY <1>2, <2>1, NextStageKeeps DEF NextSeeded, Unbroken
<1> QED BY <1>1, <1>2

LEMMA PauseKeeps == ASSUME NEW c \in Clients, Unbroken, Pause(c) PROVE Unbroken'
<1>1. RunShape(run') /\ ReqShape(req') /\ Driven'
  BY IdleShape DEF Pause, Unbroken, RunShape, ReqShape, Driven, Saving
<1> QED BY <1>1, DataKept DEF Pause, Unbroken

LEMMA ResumeKeeps == ASSUME NEW c \in Clients, Unbroken, Resume(c) PROVE Unbroken'
<1>1. RunShape([run EXCEPT !.status = "RUNNING"]) /\ ReqShape(req)
  BY DEF Unbroken, RunShape
<1>2. RunShape(run') /\ ReqShape(req') /\ Driven'
  BY <1>1, LoopDrives DEF Resume
<1> QED BY <1>2, DataKept DEF Resume, Unbroken

LEMMA PreviousKeeps == ASSUME NEW c \in Clients, Unbroken, Previous(c) PROVE Unbroken'
<1>1. UNCHANGED <<input, exec, ready, graph>> /\ req' = Saving(req, c) /\ req[c].pc = "idle"
  BY DEF Previous, Sent
<1>2. CASE UNCHANGED <<run, snapshots, output>>
  <2>1. req' = [req EXCEPT ![c] = req'[c]] /\ DOMAIN req'[c] = {"pc", "exec", "stage", "row"}
    BY <1>1, IdleShape DEF Unbroken, ReqShape, Saving
  <2>2. ReqShape(req') /\ Driven'
    BY <1>1, <1>2, <2>1, OthersDrive DEF Unbroken
  <2> QED BY <1>1, <1>2, <2>2, DataKept DEF Unbroken
<1>3. CASE /\ snapshots' = IF snapshots = <<>> THEN <<>> ELSE Front(snapshots)
           /\ output' = IF snapshots' = <<>> THEN input ELSE Last(snapshots')
           /\ run' = [status |-> "IDLE", stage |-> Last(run.completed),
                      completed |-> Front(run.completed)]
  <2>1. RunShape(run') /\ ReqShape(req') /\ Driven'
    BY <1>1, <1>3, IdleShape DEF Unbroken, RunShape, ReqShape, Driven, Saving
  <2>2. Outputs(snapshots')
    BY <1>3, OutputTaken, NoOutputs DEF Unbroken, Held
  <2>3. CASE snapshots' = <<>>
    BY <1>1, <1>3, <2>1, <2>2, <2>3 DEF Unbroken, Held
  <2>4. CASE snapshots' # <<>>
    <3>1. Whole(output') /\ Filled(output')
      BY <1>3, <2>2, <2>4, OutputTaken, WholeIsData
    <3> QED BY <1>1, <2>1, <2>2, <3>1 DEF Unbroken, Held
  <2> QED BY <2>3, <2>4
<1> QED BY <1>2, <1>3 DEF Previous

LEMMA ResetKeeps == ASSUME NEW c \in Clients, Unbroken, Reset(c) PROVE Unbroken'
<1>1. ReqShape(Stopped(Detached({"run", "snapshots"})))
  BY DetachedShape DEF Unbroken
<1>2. RunShape(run') /\ ReqShape(req') /\ Driven'
  BY <1>1, IdleShape DEF Reset, RunShape, ReqShape, Driven, Saving, FreshRun
<1> QED BY <1>2, NoOutputs DEF Reset, Unbroken, Held, Filled

LEMMA ReplayKeeps == ASSUME NEW c \in Clients, Unbroken, Replay(c) PROVE Unbroken'
<1> DEFINE r == [FreshRun EXCEPT !.status = "RUNNING", !.stage = 1]
           q == Stopped(Detached({"run", "snapshots"}))
<1>1. RunShape(r) /\ ReqShape(q)
  BY DetachedShape DEF Unbroken, RunShape, FreshRun
<1>2. Loop(c, 1, 1, r, q) /\ exec' = 1
  BY DEF Replay
<1>3. RunShape(run') /\ ReqShape(req') /\ Driven'
  BY <1>1, <1>2, LoopDrives
<1> QED BY <1>3, NoOutputs DEF Replay, Unbroken, Held, Filled

\* The steps that only move a request on.
LEMMA WaitingKeeps ==
    ASSUME NEW c \in Clients, Unbroken,
           Start(c) \/ LoadFails(c) \/ SaveSent(c) \/ Saves(c) \/ SaveFails(c)
    PROVE  Unbroken'
<1>1. UNCHANGED <<engine, ready, graph>> /\ req[c].pc # "delay"
  BY DEF Start, Sent, LoadFails, SaveSent, Saves, SaveFails
<1>2. \E v : DOMAIN v = {"pc", "exec", "stage", "row"} /\ req' = [req EXCEPT ![c] = v]
  <2>1. CASE Start(c)
    <3>1. req' = [req EXCEPT ![c] = [req[c] EXCEPT !.pc = "starting"]]
      BY <2>1 DEF Start, Unbroken, ReqShape
    <3> QED BY <3>1 DEF Unbroken, ReqShape
  <2>2. CASE SaveSent(c)
    <3> DEFINE v == [req[c] EXCEPT !.pc = "sent", !.row = Copied(@, {"run", "snapshots"})]
    <3>1. req' = [req EXCEPT ![c] = v]
      BY <2>2 DEF SaveSent, Unbroken, ReqShape
    <3>2. DOMAIN v = {"pc", "exec", "stage", "row"}
      BY DEF Unbroken, ReqShape
    <3> QED BY <3>1, <3>2
  <2>3. CASE LoadFails(c) \/ Saves(c) \/ SaveFails(c)
    BY <2>3, IdleShape DEF LoadFails, Saves, SaveFails
  <2> QED BY <2>1, <2>2, <2>3
<1>3. ReqShape(req') /\ Driven'
  BY <1>1, <1>2, OthersDrive DEF engine, Unbroken
<1> QED BY <1>1, <1>3, DataKept DEF engine, Unbroken

LEMMA StepKeeps == ASSUME PInv, [NextStep]_vars PROVE PInv'
<1>1. CASE UNCHANGED vars
  BY <1>1 DEF vars, PInv, Unbroken, RunShape, ReqShape, Driven, Current, Held
<1>2. CASE NextStep
  <2>1. /\ budget' \in Budget /\ budget'.careful = budget.careful
        /\ budget.crashes = 0 => budget'.crashes = 0
    BY <1>2, BudgetKept DEF PInv
  <2>2. SUFFICES ASSUME budget.crashes = 0, Unbroken PROVE Unbroken'
    BY <2>1 DEF PInv
  <2>3. ASSUME NEW c \in Clients, Request(c) PROVE Unbroken'
    BY <2>2, <2>3, WaitingKeeps, PauseKeeps, ResumeKeeps, NextKeeps, PreviousKeeps,
       ResetKeeps, ReplayKeeps DEF Request
  <2>4. ASSUME NEW c \in Clients, Proceed(c) PROVE Unbroken'
    BY <2>2, <2>4, StageKeeps, StartedKeeps, NextKeeps, WaitingKeeps DEF Proceed
  <2>5. CASE GraphChanges
    BY <2>2, <2>5
       DEF GraphChanges, engine, Unbroken, RunShape, ReqShape, Driven, Current, Held
  <2>6. CASE Restart
    BY <2>2, <2>6 DEF Restart
  <2> QED BY <1>2, <2>2, <2>3, <2>4, <2>5, <2>6, WaitingKeeps DEF NextStep
<1> QED BY <1>1, <1>2

LEMMA InitHolds ==
    ASSUME \A b \in Budgets : b.careful \/ b.crashes = 0, Init
    PROVE  PInv
<1>1. budget \in Budget /\ (budget.careful \/ budget.crashes = 0)
  BY PipelineAssumption DEF Init, Budget
<1>2. RunShape(run) /\ ReqShape(req) /\ Driven
  BY IdleShape DEF Init, FreshRun, RunShape, ReqShape, Driven
<1>3. Held
  BY NoOutputs DEF Init, Held, Filled
<1>4. graph \in Graphs BY DEF Init
<1> QED BY <1>1, <1>2, <1>3, <1>4 DEF PInv, Unbroken

------------------------------------------------------------------------------
(***************************************************************************)
(* The data of a careful client.  With k stages completed the output and   *)
(* the snapshots are those of the first k stages, but for the snapshot of  *)
(* a stage that was rejected, and the engine does nothing but wait for the *)
(* stage k + 1 (InStep).  The rows matter only while the backend may still *)
(* be restarted (RowsOk): no pause is then sent, so requests come one by   *)
(* one and a row is sent as it was when its save was called.               *)
(***************************************************************************)

Upto(k) == [i \in 1..k |-> i]
At(g, k) == [graph |-> g, stages |-> Upto(k)]
Outs(g, n) == [i \in 1..n |-> At(g, i)]

\* The run r, the snapshots s, the output o and the input in, with k stages completed.
InStep(r, s, o, in, g, k) ==
    /\ in = At(g, 0) /\ o = At(g, k)
    /\ r = [status |-> r.status, stage |-> r.stage, completed |-> Upto(k)]
    /\ r.status \in Status /\ (r.status = "COMPLETED" => k = NumStages)
    /\ s = Outs(g, k) \/ (r.status = "FAILED" /\ s = Outs(g, k + 1))
    /\ r.status \in {"RUNNING", "PAUSED"} => r.stage = k + 1 /\ k < NumStages

Empty(r, s, o, in) == r = FreshRun /\ s = <<>> /\ o = NoData /\ in = NoData

Kept(r, s, o, in) ==
    Empty(r, s, o, in) \/ \E g \in Graphs, k \in 0..NumStages : InStep(r, s, o, in, g, k)

\* One request at a time, but for a pause beside a delay.
Turns ==
    /\ \A c \in Clients : req[c].pc \in {"idle", "starting", "seeding", "delay", "saving", "sent"}
    /\ \A c, d \in Clients : c # d /\ req[c].pc = "delay" => req[d].pc \in {"idle", "saving", "sent"}
    /\ \A c, d \in Clients : c # d /\ req[c].pc \in {"starting", "seeding"} => req[d].pc = "idle"
    /\ \A c \in Clients :
           /\ req[c].pc = "delay" => /\ run.status \in {"RUNNING", "PAUSED"} /\ req[c].exec = exec
                                     /\ req[c].stage = run.stage
           /\ req[c].pc = "starting" => run.completed = <<>>
           /\ req[c].pc = "seeding" => ~ready
    /\ run.status = "RUNNING" => \E c \in Clients : req[c].pc = "delay"

RowOk(p) ==
    Kept(p.run, p.snapshots, p.output, p.input) /\ p.run.status \notin {"RUNNING", "PAUSED"}

RowsOk ==
    budget.crashes > 0 =>
        /\ run.status # "PAUSED"
        /\ \A c, d \in Clients : c = d \/ req[c].pc = "idle" \/ req[d].pc = "idle"
        /\ \A c \in Clients : /\ req[c].pc = "saving" => req[c].row = Payload(output, input)
                              /\ req[c].pc = "sent" => RowOk(req[c].row)
        /\ RowOk(saved)

Stepwise ==
    /\ graph \in Graphs /\ ReqShape(req)
    /\ Kept(run, snapshots, output, input) /\ ready = (input # NoData)
    /\ Turns /\ RowsOk

QInv == budget \in Budget /\ (budget.careful => Stepwise)

------------------------------------------------------------------------------
(* Stages and outputs                                                      *)

LEMMA UptoIs ==
    ASSUME NEW k \in Nat
    PROVE  /\ Upto(k) \in Seq(Nat) /\ Len(Upto(k)) = k /\ ToSet(Upto(k)) = 1..k
           /\ (Upto(k) = <<>>) <=> (k = 0)
           /\ Append(Upto(k), k + 1) = Upto(k + 1)
           /\ k # 0 => Front(Upto(k)) = Upto(k - 1) /\ Last(Upto(k)) = k
<1>1. Upto(k) \in Seq(Nat) /\ Len(Upto(k)) = k
  BY DEF Upto
<1>2. ToSet(Upto(k)) = 1..k
  BY DEF ToSet, Upto
<1>3. (Upto(k) = <<>>) <=> (k = 0)
  BY DEF Upto
<1>4. Append(Upto(k), k + 1) = Upto(k + 1)
  BY DEF Upto
<1>5. k # 0 => Front(Upto(k)) = Upto(k - 1) /\ Last(Upto(k)) = k
  BY <1>1 DEF Upto, Front, Last
<1>. QED
  BY <1>1, <1>2, <1>3, <1>4, <1>5

LEMMA OutsAre ==
    ASSUME NEW g, NEW k \in Nat
    PROVE  /\ Len(Outs(g, k)) = k
           /\ (Outs(g, k) = <<>>) <=> (k = 0)
           /\ Append(Outs(g, k), At(g, k + 1)) = Outs(g, k + 1)
           /\ k # 0 => Front(Outs(g, k)) = Outs(g, k - 1) /\ Last(Outs(g, k)) = At(g, k)
<1> DEFINE a(i) == At(g, i)
           s == [i \in 1..k |-> a(i)]
           t == [i \in 1..(k + 1) |-> a(i)]
           f == [i \in 1..(k - 1) |-> a(i)]
<1> HIDE DEF a
<1>1. s \in Seq({a(i) : i \in 1..k}) /\ Len(s) = k
  OBVIOUS
<1>2. s = <<>> <=> k = 0
  OBVIOUS
<1>3. Append(s, a(k + 1)) = t
  OBVIOUS
<1>4. k # 0 => Front(s) = f /\ Last(s) = a(k)
  BY <1>1 DEF Front, Last
<1>. QED
  BY <1>1, <1>2, <1>3, <1>4 DEF Outs, a

LEMMA AtIs ==
    ASSUME NEW g \in Graphs, NEW k \in Nat
    PROVE  /\ At(g, k) # NoData /\ At(g, k).graph = g
           /\ Applied(At(g, k), k + 1) = At(g, k + 1)
           /\ [At(g, 0) EXCEPT !.stages = Upto(k)] = At(g, k)
<1>1. g # 0
  BY PipelineAssumption
<1>2. At(g, k) # NoData /\ At(g, k).graph = g
  BY <1>1 DEF At, NoData
<1> DEFINE u == Upto(k)
           v == Upto(k + 1)
<1>4. Append(u, k + 1) = v
  BY UptoIs
<1> HIDE DEF u, v
<1> DEFINE x == [graph |-> g, stages |-> u]
<1>5. x.stages = u /\ [x EXCEPT !.stages = v] = [graph |-> g, stages |-> v]
  OBVIOUS
<1> HIDE DEF x
<1>6. Applied(x, k + 1) = [graph |-> g, stages |-> v]
  BY <1>4, <1>5 DEF Applied
<1>3. Applied(At(g, k), k + 1) = At(g, k + 1)
  BY <1>6 DEF At, u, v, x
<1>. QED
  BY <1>2, <1>3 DEF At

LEMMA LoadedIs == ASSUME graph \in Graphs PROVE Loaded = At(graph, 0)
BY UptoIs DEF Loaded, At

\* A run with data is in step.
LEMMA InStepKept ==
    ASSUME NEW r, NEW s, NEW o, NEW in, NEW g \in Graphs, NEW k \in 0..NumStages, InStep(r, s, o, in, g, k)
    PROVE  Kept(r, s, o, in) /\ in # NoData
BY AtIs DEF Kept, InStep

LEMMA HasData ==
    ASSUME Stepwise, ready \/ run # FreshRun
    PROVE  \E g \in Graphs, k \in 0..NumStages : InStep(run, snapshots, output, input, g, k)
BY DEF Stepwise, Kept, Empty

LEMMA NextOpen ==
    ASSUME NEW k \in 0..NumStages, k < NumStages
    PROVE  LET open == {i \in (k + 1)..NumStages : i \notin ToSet(Upto(k))}
           IN  open # {} /\ Min(open) = k + 1
<1> DEFINE open == {i \in (k + 1)..NumStages : i \notin ToSet(Upto(k))}
<1>1. k \in Nat /\ NumStages \in Nat
  BY PipelineAssumption
<1>6. ToSet(Upto(k)) = 1..k
  BY <1>1, UptoIs
<1>2. open = (k + 1)..NumStages
  BY <1>1, <1>6
<1>3. k + 1 \in open /\ \A i \in open : k + 1 <= i /\ i \in Nat
  BY <1>1, <1>2
<1> HIDE DEF open
<1>4. \A i \in open : (\A j \in open : i <= j) => i = k + 1
  BY <1>1, <1>3
<1>5. Min(open) = k + 1
  BY <1>3, <1>4 DEF Min
<1>. QED
  BY <1>3, <1>5 DEF open

------------------------------------------------------------------------------
(* Turns and rows                                                          *)

\* The request c after a step of its own.
Placed(c) ==
    \/ req[c].pc = "idle" /\ run.status # "RUNNING"
    \/ req[c].pc = "saving" /\ run.status # "RUNNING" /\ req[c].row = Payload(output, input)
    \/ /\ req[c].pc = "delay" /\ run.status = "RUNNING"
       /\ req[c].exec = exec /\ req[c].stage = run.stage
    \/ req[c].pc = "starting" /\ run.status # "RUNNING" /\ run.completed = <<>>
    \/ req[c].pc = "seeding" /\ run.status # "RUNNING" /\ ~ready

Others(c, q, pcs) == \A d \in Clients : d # c => q[d].pc \in pcs

LEMMA PlacedTurns ==
    ASSUME NEW c \in Clients, Placed(c)', Others(c, req', {"idle", "saving", "sent"}),
           Others(c, req', {"idle"}) \/ req'[c].pc \notin {"starting", "seeding"}
    PROVE  Turns'
<1>1. \A d \in Clients : req'[d].pc \in {"idle", "starting", "seeding", "delay", "saving", "sent"}
  BY DEF Placed, Others
<1>2. \A d \in Clients : req'[d].pc \in {"delay", "starting", "seeding"} => d = c
  BY DEF Others
<1>3. ASSUME NEW d \in Clients, NEW e \in Clients, d # e, req'[d].pc = "delay"
      PROVE  req'[e].pc \in {"idle", "saving", "sent"}
  BY <1>2, <1>3 DEF Others
<1>4. ASSUME NEW d \in Clients, NEW e \in Clients, d # e, req'[d].pc \in {"starting", "seeding"}
      PROVE  req'[e].pc = "idle"
  BY <1>2, <1>4 DEF Others
<1>5. run'.status = "RUNNING" => \E d \in Clients : req'[d].pc = "delay"
  BY DEF Placed
<1>6. ASSUME NEW d \in Clients
      PROVE  /\ req'[d].pc = "delay" => /\ run'.status \in {"RUNNING", "PAUSED"} /\ req'[d].exec = exec'
                                        /\ req'[d].stage = run'.stage
             /\ req'[d].pc = "starting" => run'.completed = <<>>
             /\ req'[d].pc = "seeding" => ~ready'
  BY <1>2 DEF Placed
<1>. QED
  BY <1>1, <1>3, <1>4, <1>5, <1>6 DEF Turns

LEMMA PlacedRows ==
    ASSUME NEW c \in Clients, RowsOk, Placed(c)',
           Others(c, req', {"idle"}), budget'.crashes > 0 => budget.crashes > 0,
           run'.status = "PAUSED" => run.status = "PAUSED", UNCHANGED saved
    PROVE  RowsOk'
<1>. SUFFICES ASSUME budget'.crashes > 0
              PROVE  /\ run'.status # "PAUSED"
                     /\ \A d, e \in Clients : d = e \/ req'[d].pc = "idle" \/ req'[e].pc = "idle"
                     /\ \A d \in Clients : /\ req'[d].pc = "saving" => req'[d].row = Payload(output', input')
                                           /\ req'[d].pc = "sent" => RowOk(req'[d].row)
                     /\ RowOk(saved')
  BY DEF RowsOk
<1>1. run.status # "PAUSED" /\ RowOk(saved)
  BY DEF RowsOk
<1>2. \A d \in Clients : d # c => req'[d].pc = "idle"
  BY DEF Others
<1>3. req'[c].pc # "sent" /\ (req'[c].pc = "saving" => req'[c].row = Payload(output', input'))
  BY DEF Placed
<1>. QED
  BY <1>1, <1>2, <1>3

\* Its work done, the request saves the row.
LEMMA SavingIs ==
    ASSUME NEW c \in Clients, NEW q, ReqShape(q), req' = Saving(q, c), run'.status # "RUNNING"
    PROVE  ReqShape(req') /\ Placed(c)' /\ \A d \in Clients : d # c => req'[d] = q[d]
<1>1. req'[c] = [Idle EXCEPT !.pc = "saving", !.row = Payload(output', input')]
  BY DEF Saving, ReqShape
<1>2. req'[c].pc = "saving" /\ req'[c].row = Payload(output', input')
  BY <1>1, IdleShape
<1>3. ReqShape(req') /\ \A d \in Clients : d # c => req'[d] = q[d]
  BY IdleShape DEF Saving, ReqShape
<1>. QED
  BY <1>2, <1>3 DEF Placed

LEMMA DelayIs ==
    ASSUME NEW c \in Clients, NEW q, ReqShape(q), run'.status = "RUNNING",
           req' = [q EXCEPT ![c] = [Idle EXCEPT !.pc = "delay", !.exec = exec', !.stage = run'.stage]]
    PROVE  ReqShape(req') /\ Placed(c)' /\ \A d \in Clients : d # c => req'[d] = q[d]
<1>1. req'[c] = [Idle EXCEPT !.pc = "delay", !.exec = exec', !.stage = run'.stage]
  BY DEF ReqShape
<1>2. req'[c].pc = "delay" /\ req'[c].exec = exec' /\ req'[c].stage = run'.stage
  BY <1>1, IdleShape
<1>3. ReqShape(req') /\ \A d \in Clients : d # c => req'[d] = q[d]
  BY IdleShape DEF ReqShape
<1>. QED
  BY <1>2, <1>3 DEF Placed

LEMMA IdleIs ==
    ASSUME NEW c \in Clients, ReqShape(req), req' = [req EXCEPT ![c] = Idle], run'.status # "RUNNING"
    PROVE  ReqShape(req') /\ Placed(c)' /\ \A d \in Clients : d # c => req'[d] = req[d]
BY IdleShape DEF ReqShape, Placed

\* With nothing to save, nothing is copied and no delay is stopped.
LEMMA QuietKept ==
    ASSUME NEW c \in Clients, NEW parts, ReqShape(req), Others(c, req, {"idle"}),
           req[c].pc \in {"idle", "starting", "seeding"}
    PROVE  /\ ReqShape(Detached(parts)) /\ Others(c, Detached(parts), {"idle"})
           /\ ReqShape(Stopped(Detached(parts))) /\ Others(c, Stopped(Detached(parts)), {"idle"})
<1>1. ReqShape(Detached(parts)) /\ ReqShape(Stopped(Detached(parts)))
  BY DetachedShape
<1>2. \A d \in Clients : Detached(parts)[d] = req[d]
  BY DEF Detached, Others
<1>3. \A d \in Clients : Stopped(Detached(parts))[d] = req[d]
  BY <1>2 DEF Stopped, Others
<1>. QED
  BY <1>1, <1>2, <1>3 DEF Others

\* What a careful client sends finds nobody else at work, but for a pause.
LEMMA SentQuiet ==
    ASSUME NEW c \in Clients, NEW kind, budget.careful, Stepwise, Sent(c, kind), kind # "pause"
    PROVE  /\ req[c].pc = "idle" /\ Others(c, req, {"idle"}) /\ run.status # "RUNNING"
           /\ kind = "start" => run.completed = <<>>
           /\ kind = "previous" => Len(snapshots) = Len(run.completed)
BY DEF Sent, CarefulClient, Others, Stepwise, Turns

LEMMA OpenQuiet ==
    ASSUME NEW c \in Clients, Stepwise, req[c].pc \in {"starting", "seeding"}
    PROVE  /\ Others(c, req, {"idle"}) /\ run.status # "RUNNING"
           /\ req[c].pc = "starting" => run.completed = <<>>
           /\ req[c].pc = "seeding" => ~ready
<1>1. Others(c, req, {"idle"})
  BY DEF Stepwise, Turns, Others
<1>2. run.status # "RUNNING"
  BY <1>1 DEF Stepwise, Turns, Others
<1>. QED
  BY <1>1, <1>2 DEF Stepwise, Turns

\* A step of a request that is alone.
LEMMA Alone ==
    ASSUME NEW c \in Clients, Stepwise, graph' \in Graphs, ReqShape(req'), Placed(c)',
           Others(c, req', {"idle"}), budget'.crashes > 0 => budget.crashes > 0,
           run'.status = "PAUSED" => run.status = "PAUSED", UNCHANGED saved,
           Kept(run', snapshots', output', input'), ready' = (input' # NoData)
    PROVE  Stepwise'
<1>1. Turns'
  <2>1. Others(c, req', {"idle", "saving", "sent"})
    BY DEF Others
  <2>. QED
    BY <2>1, PlacedTurns
<1>2. RowsOk'
  BY PlacedRows DEF Stepwise
<1>. QED
  BY <1>1, <1>2 DEF Stepwise

------------------------------------------------------------------------------
(* Steps                                                                   *)

\* A loop that is entered as the current one leaves the run in step: it waits for the
\* next stage, is paused before it or ends after the last one.
LEMMA LoopPlaced ==
    ASSUME NEW c \in Clients, NEW id, NEW q, NEW g \in Graphs, NEW k \in 0..NumStages,
           NEW st \in {"RUNNING", "PAUSED"}, NEW sg, NEW r,
           r = [status |-> st, stage |-> sg, completed |-> Upto(k)],
           exec' = id, Loop(c, id, k + 1, r, q),
           input' = At(g, 0), output' = At(g, k), snapshots' = Outs(g, k), ReqShape(q)
    PROVE  /\ InStep(run', snapshots', output', input', g, k)
           /\ ReqShape(req') /\ Placed(c)' /\ \A d \in Clients : d # c => req'[d] = q[d]
           /\ req'[c].pc \in {"saving", "delay"}
           /\ run'.status = "PAUSED" => st = "PAUSED"
<1> DEFINE open == {i \in (k + 1)..NumStages : i \notin ToSet(r.completed)}
<1>1. NumStages \in Nat /\ k \in Nat /\ r.status = st /\ r.completed = Upto(k)
  BY PipelineAssumption
<1>2. ASSUME req' = Saving(q, c), run'.status # "RUNNING"
      PROVE  /\ ReqShape(req') /\ Placed(c)' /\ \A d \in Clients : d # c => req'[d] = q[d]
             /\ req'[c].pc \in {"saving", "delay"}
  <2>1. req'[c].pc = "saving"
    BY <1>2, IdleShape DEF Saving, ReqShape
  <2>. QED
    BY <1>2, <2>1, SavingIs
<1>3. CASE k < NumStages
  <2>1. open # {} /\ Min(open) = k + 1 /\ k + 1 <= NumStages
    BY <1>1, <1>3, NextOpen
  <2> HIDE DEF open
  <2>2. CASE st = "PAUSED"
    <3>1. run' = [r EXCEPT !.stage = k + 1] /\ req' = Saving(q, c)
      BY <1>1, <2>1, <2>2 DEF Loop
    <3>2. run' = [status |-> "PAUSED", stage |-> k + 1, completed |-> Upto(k)]
      BY <2>2, <3>1
    <3>3. InStep(run', snapshots', output', input', g, k)
      BY <1>3, <2>2, <3>2 DEF InStep, Status
    <3>. QED
      BY <1>2, <2>2, <3>1, <3>2, <3>3
  <2>3. CASE st = "RUNNING"
    <3>1. run' = [r EXCEPT !.stage = k + 1]
          /\ req' = [q EXCEPT ![c] = [Idle EXCEPT !.pc = "delay", !.exec = id, !.stage = k + 1]]
      BY <1>1, <2>1, <2>3 DEF Loop, open
    <3>2. run' = [status |-> "RUNNING", stage |-> k + 1, completed |-> Upto(k)]
      BY <2>3, <3>1
    <3>3. InStep(run', snapshots', output', input', g, k)
      BY <1>3, <3>2 DEF InStep, Status
    <3>4. run'.status = "RUNNING"
          /\ req' = [q EXCEPT ![c] = [Idle EXCEPT !.pc = "delay", !.exec = exec', !.stage = run'.stage]]
      BY <3>1, <3>2
    <3>5. req'[c].pc = "delay"
      BY <3>1, IdleShape DEF ReqShape
    <3>. QED
      BY <3>3, <3>4, <3>5, DelayIs
  <2>. QED
    BY <2>2, <2>3
<1>4. CASE k = NumStages
  <2>1. ~(k + 1 <= NumStages)
    BY <1>1, <1>4
  <2>2. run' = [r EXCEPT !.status = "COMPLETED", !.stage = 0] /\ req' = Saving(q, c)
    BY <2>1 DEF Loop
  <2>3. run' = [status |-> "COMPLETED", stage |-> 0, completed |-> Upto(k)]
    BY <2>2
  <2>4. InStep(run', snapshots', output', input', g, k)
    BY <1>4, <2>3 DEF InStep, Status
  <2>. QED
    BY <1>2, <2>2, <2>3, <2>4
<1>. QED
  BY <1>1, <1>3, <1>4

\* The loop of a request that is alone.
LEMMA LoopAlone ==
    ASSUME NEW c \in Clients, NEW id, NEW q, NEW g \in Graphs, NEW k \in 0..NumStages,
           NEW st \in {"RUNNING", "PAUSED"}, NEW sg, NEW r,
           r = [status |-> st, stage |-> sg, completed |-> Upto(k)],
           exec' = id, Loop(c, id, k + 1, r, q),
           input' = At(g, 0), output' = At(g, k), snapshots' = Outs(g, k),
           ReqShape(q), Others(c, q, {"idle"}), Stepwise, UNCHANGED <<graph, saved>>,
           budget'.crashes > 0 => budget.crashes > 0, ready' = TRUE,
           st = "PAUSED" => run.status = "PAUSED"
    PROVE  Stepwise'
<1>1. /\ InStep(run', snapshots', output', input', g, k)
      /\ ReqShape(req') /\ Placed(c)' /\ \A d \in Clients : d # c => req'[d] = q[d]
      /\ run'.status = "PAUSED" => st = "PAUSED"
  BY LoopPlaced
<1>2. Kept(run', snapshots', output', input') /\ input' # NoData
  BY <1>1, InStepKept
<1>3. Others(c, req', {"idle"})
  BY <1>1 DEF Others
<1>4. graph' \in Graphs
  BY DEF Stepwise
<1>. QED
  BY <1>1, <1>2, <1>3, <1>4, Alone

LEMMA Running ==
    ASSUME NEW r, r = [status |-> r.status, stage |-> r.stage, completed |-> r.completed]
    PROVE  [r EXCEPT !.status = "RUNNING", !.stage = 1]
               = [status |-> "RUNNING", stage |-> 1, completed |-> r.completed]
<1>1. ASSUME NEW t, t = [r EXCEPT !.status = "RUNNING", !.stage = 1]
      PROVE  t = [status |-> "RUNNING", stage |-> 1, completed |-> r.completed]
  BY <1>1
<1>. QED
  BY <1>1

LEMMA Failing ==
    ASSUME NEW r, NEW i, r = [status |-> r.status, stage |-> r.stage, completed |-> r.completed]
    PROVE  [r EXCEPT !.status = "FAILED", !.stage = i]
               = [status |-> "FAILED", stage |-> i, completed |-> r.completed]
<1>1. ASSUME NEW t, t = [r EXCEPT !.status = "FAILED", !.stage = i]
      PROVE  t = [status |-> "FAILED", stage |-> i, completed |-> r.completed]
  BY <1>1
<1>. QED
  BY <1>1

LEMMA Advancing ==
    ASSUME NEW r, NEW i, r = [status |-> r.status, stage |-> r.stage, completed |-> r.completed]
    PROVE  [r EXCEPT !.completed = Append(@, i)]
               = [status |-> r.status, stage |-> r.stage, completed |-> Append(r.completed, i)]
<1>1. ASSUME NEW t, NEW x, t = [r EXCEPT !.completed = x]
      PROVE  t = [status |-> r.status, stage |-> r.stage, completed |-> x]
  BY <1>1
<1>. QED
  BY <1>1

LEMMA StartSteps ==
    ASSUME NEW c \in Clients, budget.careful, budget \in Budget, Stepwise, Start(c)
    PROVE  Stepwise'
<1>1. /\ Sent(c, "start") /\ req' = [req EXCEPT ![c].pc = "starting"]
      /\ UNCHANGED <<run, snapshots, output, input, exec, ready, graph, saved>>
  BY DEF Start, engine
<1>2. Others(c, req, {"idle"}) /\ run.status # "RUNNING" /\ run.completed = <<>>
  BY <1>1, SentQuiet
<1>3. ReqShape(req') /\ req'[c].pc = "starting" /\ \A d \in Clients : d # c => req'[d] = req[d]
  BY <1>1 DEF Stepwise, ReqShape
<1>4. Placed(c)' /\ Others(c, req', {"idle"})
  BY <1>1, <1>2, <1>3 DEF Placed, Others
<1>5. budget'.crashes = budget.crashes
  BY <1>1, SentLeaves
<1>6. Kept(run', snapshots', output', input') /\ ready' = (input' # NoData) /\ graph' \in Graphs
  BY <1>1 DEF Stepwise
<1>. QED
  BY <1>1, <1>3, <1>4, <1>5, <1>6, Alone

LEMMA StartedSteps ==
    ASSUME NEW c \in Clients, Stepwise, StartAccepted(c)
    PROVE  Stepwise'
<1> DEFINE q == Detached({"snapshots"})
           r == [run EXCEPT !.status = "RUNNING", !.stage = 1]
<1>1. /\ req[c].pc = "starting" /\ input' = Loaded /\ output' = Loaded /\ ready' = TRUE
      /\ exec' = exec + 1 /\ snapshots' = <<>> /\ Loop(c, exec + 1, 1, r, q)
      /\ UNCHANGED <<graph, saved, budget>>
  BY DEF StartAccepted
<1>2. Others(c, req, {"idle"}) /\ run.completed = <<>> /\ graph \in Graphs /\ ReqShape(req)
  BY <1>1, OpenQuiet DEF Stepwise
<1>3. ReqShape(q) /\ Others(c, q, {"idle"})
  BY <1>1, <1>2, QuietKept
<1>4. run = [status |-> run.status, stage |-> run.stage, completed |-> run.completed]
  BY DEF Stepwise, Kept, Empty, InStep, FreshRun
<1>5. Upto(0) = <<>> /\ Outs(graph, 0) = <<>> /\ Loaded = At(graph, 0)
  BY <1>2, UptoIs, OutsAre, LoadedIs
<1>9. r = [status |-> "RUNNING", stage |-> 1, completed |-> run.completed]
  BY <1>4, Running
<1>10. run.completed = Upto(0)
  BY <1>2, <1>5
<1>6. r = [status |-> "RUNNING", stage |-> 1, completed |-> Upto(0)]
  BY <1>9, <1>10
<1>7. 0 \in 0..NumStages /\ 0 + 1 = 1
  BY PipelineAssumption
<1> HIDE DEF q, r
<1>8. Loop(c, exec + 1, 0 + 1, r, q)
  BY <1>1, <1>7
<1>. QED
  BY <1>1, <1>2, <1>3, <1>5, <1>6, <1>7, <1>8, LoopAlone

LEMMA RefusedSteps ==
    ASSUME NEW c \in Clients, Stepwise, StartRefused(c) PROVE FALSE
BY OpenQuiet DEF StartRefused

LEMMA ResumeSteps ==
    ASSUME NEW c \in Clients, budget.careful, budget \in Budget, Stepwise, Resume(c)
    PROVE  Stepwise'
<1> DEFINE r == [run EXCEPT !.status = "RUNNING"]
<1>1. /\ Sent(c, "resume") /\ run.status = "PAUSED"
      /\ UNCHANGED <<snapshots, output, input, ready, graph, saved>>
      /\ exec' = exec + 1 /\ Loop(c, exec + 1, run.stage, r, req)
  BY DEF Resume
<1>2. Others(c, req, {"idle"}) /\ ReqShape(req)
  BY <1>1, SentQuiet DEF Stepwise
<1>3. PICK g \in Graphs, k \in 0..NumStages : InStep(run, snapshots, output, input, g, k)
  BY <1>1, HasData DEF FreshRun
<1>4. /\ input = At(g, 0) /\ output = At(g, k) /\ snapshots = Outs(g, k) /\ run.stage = k + 1
      /\ run = [status |-> run.status, stage |-> run.stage, completed |-> Upto(k)]
  BY <1>1, <1>3 DEF InStep
<1>5. r = [status |-> "RUNNING", stage |-> run.stage, completed |-> Upto(k)]
  BY <1>4
<1>6. budget'.crashes = budget.crashes
  BY <1>1, SentLeaves
<1>7. ready' = TRUE
  BY <1>1, <1>3, InStepKept DEF Stepwise
<1> HIDE DEF r
<1>8. Loop(c, exec + 1, k + 1, r, req)
  BY <1>1, <1>4
<1>. QED
  BY <1>1, <1>2, <1>4, <1>5, <1>6, <1>7, <1>8, LoopAlone

LEMMA ReplaySteps ==
    ASSUME NEW c \in Clients, budget.careful, budget \in Budget, Stepwise, Replay(c)
    PROVE  Stepwise'
<1> DEFINE r == [FreshRun EXCEPT !.status = "RUNNING", !.stage = 1]
           q == Stopped(Detached({"run", "snapshots"}))
<1>1. /\ Sent(c, "replay") /\ run.completed # <<>> /\ exec' = 1 /\ snapshots' = <<>> /\ output' = input
      /\ UNCHANGED <<input, ready, graph, saved>> /\ Loop(c, 1, 1, r, q)
  BY DEF Replay
<1>2. req[c].pc = "idle" /\ Others(c, req, {"idle"}) /\ ReqShape(req)
  BY <1>1, SentQuiet DEF Stepwise
<1>3. ReqShape(q) /\ Others(c, q, {"idle"})
  BY <1>2, QuietKept
<1>4. PICK g \in Graphs, k \in 0..NumStages : InStep(run, snapshots, output, input, g, k)
  BY <1>1, HasData DEF FreshRun
<1>5. Upto(0) = <<>> /\ Outs(g, 0) = <<>> /\ input = At(g, 0)
  BY <1>4, UptoIs, OutsAre DEF InStep
<1>12. /\ FreshRun = [status |-> FreshRun.status, stage |-> FreshRun.stage, completed |-> FreshRun.completed]
       /\ FreshRun.completed = <<>>
  BY DEF FreshRun
<1>13. r = [status |-> "RUNNING", stage |-> 1, completed |-> FreshRun.completed]
  BY <1>12, Running
<1>6. r = [status |-> "RUNNING", stage |-> 1, completed |-> Upto(0)]
  BY <1>5, <1>12, <1>13
<1>7. ready' = TRUE
  BY <1>1, <1>4, InStepKept DEF Stepwise
<1>8. budget'.crashes = budget.crashes
  BY <1>1, SentLeaves
<1>11. 0 \in 0..NumStages /\ 0 + 1 = 1
  BY PipelineAssumption
<1> HIDE DEF q, r
<1>9. Loop(c, 1, 0 + 1, r, q)
  BY <1>1, <1>11
<1>. QED
  BY <1>1, <1>3, <1>5, <1>6, <1>7, <1>8, <1>9, <1>11, LoopAlone

LEMMA ResetSteps ==
    ASSUME NEW c \in Clients, budget.careful, budget \in Budget, Stepwise, Reset(c)
    PROVE  Stepwise'
<1> DEFINE q == Stopped(Detached({"run", "snapshots"}))
<1>1. /\ Sent(c, "reset") /\ req' = Saving(q, c) /\ UNCHANGED <<graph, saved>>
      /\ run' = FreshRun /\ snapshots' = <<>> /\ output' = NoData /\ input' = NoData /\ ready' = FALSE
  BY DEF Reset
<1>2. req[c].pc = "idle" /\ Others(c, req, {"idle"}) /\ ReqShape(req)
  BY <1>1, SentQuiet DEF Stepwise
<1>3. ReqShape(q) /\ Others(c, q, {"idle"})
  BY <1>2, QuietKept
<1>4. run'.status = "IDLE"
  BY <1>1 DEF FreshRun
<1> HIDE DEF q
<1>5. ReqShape(req') /\ Placed(c)' /\ Others(c, req', {"idle"})
  BY <1>1, <1>3, <1>4, SavingIs DEF Others
<1>6. Kept(run', snapshots', output', input') /\ ready' = (input' # NoData) /\ graph' \in Graphs
  BY <1>1 DEF Kept, Empty, Stepwise
<1>7. budget'.crashes = budget.crashes
  BY <1>1, SentLeaves
<1>. QED
  BY <1>1, <1>4, <1>5, <1>6, <1>7, Alone

LEMMA PreviousSteps ==
    ASSUME NEW c \in Clients, budget.careful, budget \in Budget, Stepwise, Previous(c)
    PROVE  Stepwise'
<1>1. /\ Sent(c, "previous") /\ req' = Saving(req, c) /\ UNCHANGED <<input, ready, graph, saved>>
      /\ IF run.completed = <<>>
         THEN UNCHANGED <<run, snapshots, output>>
         ELSE /\ snapshots' = IF snapshots = <<>> THEN <<>> ELSE Front(snapshots)
              /\ output' = IF snapshots' = <<>> THEN input ELSE Last(snapshots')
              /\ run' = [status |-> "IDLE", stage |-> Last(run.completed),
                         completed |-> Front(run.completed)]
  BY DEF Previous
<1>2. /\ req[c].pc = "idle" /\ Others(c, req, {"idle"}) /\ ReqShape(req) /\ run.status # "RUNNING"
      /\ Len(snapshots) = Len(run.completed)
  BY <1>1, SentQuiet DEF Stepwise
<1>3. run'.status # "RUNNING" /\ (run'.status = "PAUSED" => run.status = "PAUSED")
  BY <1>1, <1>2
<1>4. ReqShape(req') /\ Placed(c)' /\ Others(c, req', {"idle"})
  BY <1>1, <1>2, <1>3, SavingIs DEF Others
<1>5. Kept(run', snapshots', output', input')
  <2>1. CASE run.completed = <<>>
    BY <1>1, <2>1 DEF Stepwise
  <2>2. CASE run.completed # <<>>
    <3>1. PICK g \in Graphs, k \in 0..NumStages : InStep(run, snapshots, output, input, g, k)
      BY <2>2, HasData DEF FreshRun
    <3>2. k \in Nat /\ NumStages \in Nat
      BY PipelineAssumption
    <3>3. input = At(g, 0) /\ run.completed = Upto(k) /\ snapshots \in {Outs(g, k), Outs(g, k + 1)}
      BY <3>1 DEF InStep
    <3>12. k # 0
      BY <2>2, <3>2, <3>3, UptoIs
    <3>13. Len(Upto(k)) = k
      BY <3>2, UptoIs
    <3>14. Len(Outs(g, k)) = k
      BY <3>2, OutsAre
    <3>10. Len(run.completed) = k /\ Len(Outs(g, k)) = k /\ k # 0
      BY <3>3, <3>12, <3>13, <3>14
    <3>11. k + 1 \in Nat /\ Len(Outs(g, k + 1)) = k + 1
      BY <3>2, OutsAre
    <3>4. snapshots = Outs(g, k) /\ k # 0
      BY <1>2, <3>2, <3>3, <3>10, <3>11
    <3>5. k - 1 \in 0..NumStages /\ k - 1 \in Nat
      BY <3>2, <3>4
    <3>6. snapshots' = Outs(g, k - 1)
      BY <1>1, <2>2, <3>2, <3>4, OutsAre
    <3>7. run' = [status |-> "IDLE", stage |-> k, completed |-> Upto(k - 1)]
      BY <1>1, <2>2, <3>2, <3>3, <3>4, UptoIs
    <3>8. output' = At(g, k - 1)
      <4>1. CASE k - 1 = 0
        BY <1>1, <2>2, <3>3, <3>5, <3>6, <4>1, OutsAre
      <4>2. CASE k - 1 # 0
        BY <1>1, <2>2, <3>5, <3>6, <4>2, OutsAre
      <4>. QED
        BY <4>1, <4>2
    <3>9. InStep(run', snapshots', output', input', g, k - 1)
      BY <1>1, <3>3, <3>6, <3>7, <3>8 DEF InStep, Status
    <3>. QED
      BY <3>5, <3>9, InStepKept
  <2>. QED
    BY <2>1, <2>2
<1>6. ready' = (input' # NoData) /\ graph' \in Graphs
  BY <1>1 DEF Stepwise
<1>7. budget'.crashes = budget.crashes
  BY <1>1, SentLeaves
<1>. QED
  BY <1>1, <1>3, <1>4, <1>5, <1>6, <1>7, Alone

\* One stage of a run that is in step, without a delay.
LEMMA StageInStep ==
    ASSUME NEW c \in Clients, NEW o, NEW in, NEW g \in Graphs, NEW k \in 0..NumStages,
           InStep(run, snapshots, o, in, g, k), run.status # "RUNNING", NextStage(c, o)
    PROVE  /\ \E kk \in 0..NumStages : InStep(run', snapshots', output', in, g, kk)
           /\ run'.status # "RUNNING" /\ (run'.status = "PAUSED" => run.status = "PAUSED")
           /\ req' = [req EXCEPT ![c] = Idle] \/ req' = Saving(req, c)
<1> DEFINE i == Len(run.completed) + 1
           d == Applied(o, i)
<1>1. k \in Nat /\ NumStages \in Nat
  BY PipelineAssumption
<1>2. o = At(g, k) /\ run.completed = Upto(k) /\ Len(run.completed) = k
  BY <1>1, UptoIs DEF InStep
<1>3. CASE /\ UNCHANGED <<run, snapshots, exec>> /\ output' = o
           /\ req' = [req EXCEPT ![c] = Idle] \/ req' = Saving(req, c)
  BY <1>3
<1>4. CASE /\ run.status \in {"IDLE", "COMPLETED"} /\ ~AllDone
           /\ snapshots' = Append(snapshots, d) /\ output' = d
           /\ run' = [completed |-> Append(run.completed, i),
                      status |-> IF Rejects(o, i) THEN "FAILED"
                                 ELSE IF i >= NumStages THEN "COMPLETED" ELSE "IDLE",
                      stage  |-> IF Rejects(o, i) THEN i
                                 ELSE IF i >= NumStages THEN 0 ELSE i + 1]
           /\ req' = Saving(req, c)
  <2>1. i = k + 1 /\ k < NumStages /\ k + 1 \in 0..NumStages /\ k + 1 \in Nat
    BY <1>1, <1>2, <1>4 DEF AllDone
  <2>2. snapshots = Outs(g, k) /\ in = At(g, 0)
    BY <1>4 DEF InStep
  <2>3. d = At(g, k + 1)
    BY <1>1, <1>2, <2>1, AtIs
  <2>4. snapshots' = Outs(g, k + 1) /\ output' = At(g, k + 1)
    BY <1>1, <1>4, <2>2, <2>3, OutsAre
  <2>5. Append(run.completed, i) = Upto(k + 1)
    BY <1>1, <1>2, <2>1, UptoIs
  <2> DEFINE st == IF Rejects(o, i) THEN "FAILED"
                   ELSE IF i >= NumStages THEN "COMPLETED" ELSE "IDLE"
             sg == IF Rejects(o, i) THEN i
                   ELSE IF i >= NumStages THEN 0 ELSE i + 1
  <2>6. st \in {"FAILED", "COMPLETED", "IDLE"} /\ (st = "COMPLETED" => k + 1 = NumStages)
    BY <1>1, <2>1
  <2> HIDE DEF st, sg
  <2>7. run' = [status |-> st, stage |-> sg, completed |-> Upto(k + 1)]
    BY <1>4, <2>5 DEF st, sg
  <2>8. run'.status = st /\ run' = [status |-> run'.status, stage |-> run'.stage, completed |-> Upto(k + 1)]
    BY <2>7
  <2>9. InStep(run', snapshots', output', in, g, k + 1)
    BY <2>2, <2>4, <2>6, <2>8 DEF InStep, Status
  <2>. QED
    BY <1>4, <2>1, <2>6, <2>8, <2>9
<1>. QED
  BY <1>3, <1>4 DEF NextStage

\* The request has worked through nextStage.
LEMMA StageAlone ==
    ASSUME NEW c \in Clients, NEW o, NEW g \in Graphs, NEW k \in 0..NumStages, Stepwise,
           InStep(run, snapshots, o, input', g, k), run.status # "RUNNING", NextStage(c, o),
           Others(c, req, {"idle"}), UNCHANGED <<graph, saved>>, ready' = TRUE,
           budget'.crashes > 0 => budget.crashes > 0
    PROVE  Stepwise'
<1>1. /\ \E kk \in 0..NumStages : InStep(run', snapshots', output', input', g, kk)
      /\ run'.status # "RUNNING" /\ (run'.status = "PAUSED" => run.status = "PAUSED")
      /\ req' = [req EXCEPT ![c] = Idle] \/ req' = Saving(req, c)
  BY StageInStep
<1>2. Kept(run', snapshots', output', input') /\ input' # NoData
  BY <1>1, InStepKept
<1>3. ReqShape(req) /\ graph' \in Graphs
  BY DEF Stepwise
<1>4. ReqShape(req') /\ Placed(c)' /\ \A d \in Clients : d # c => req'[d] = req[d]
  BY <1>1, <1>3, IdleIs, SavingIs
<1>5. Others(c, req', {"idle"})
  BY <1>4 DEF Others
<1>. QED
  BY <1>1, <1>2, <1>3, <1>4, <1>5, Alone

LEMMA NextSteps ==
    ASSUME NEW c \in Clients, budget.careful, budget \in Budget, Stepwise, Next(c)
    PROVE  Stepwise'
<1>1. /\ Sent(c, "next") /\ UNCHANGED <<input, ready, graph, saved>>
      /\ \/ ready /\ NextStage(c, output)
         \/ /\ ~ready /\ req' = [req EXCEPT ![c].pc = "seeding"]
            /\ UNCHANGED <<run, snapshots, output, exec>>
  BY DEF Next
<1>2. Others(c, req, {"idle"}) /\ run.status # "RUNNING" /\ ReqShape(req)
  BY <1>1, SentQuiet DEF Stepwise
<1>3. budget'.crashes = budget.crashes
  BY <1>1, SentLeaves
<1>4. CASE ready /\ NextStage(c, output)
  <2>1. PICK g \in Graphs, k \in 0..NumStages : InStep(run, snapshots, output, input, g, k)
    BY <1>4, HasData
  <2>2. InStep(run, snapshots, output, input', g, k) /\ ready' = TRUE
    BY <1>1, <1>4, <2>1, InStepKept DEF Stepwise
  <2>. QED
    BY <1>1, <1>2, <1>3, <1>4, <2>2, StageAlone
<1>5. CASE /\ ~ready /\ req' = [req EXCEPT ![c].pc = "seeding"]
           /\ UNCHANGED <<run, snapshots, output, exec>>
  <2>1. ReqShape(req') /\ req'[c].pc = "seeding" /\ \A d \in Clients : d # c => req'[d] = req[d]
    BY <1>2, <1>5 DEF ReqShape
  <2>2. Placed(c)' /\ Others(c, req', {"idle"})
    BY <1>1, <1>2, <1>5, <2>1 DEF Placed, Others
  <2>3. Kept(run', snapshots', output', input') /\ ready' = (input' # NoData) /\ graph' \in Graphs
    BY <1>1, <1>5 DEF Stepwise
  <2>. QED
    BY <1>1, <1>3, <1>5, <2>1, <2>2, <2>3, Alone
<1>. QED
  BY <1>1, <1>4, <1>5

LEMMA SeededSteps ==
    ASSUME NEW c \in Clients, Stepwise, NextSeeded(c)
    PROVE  Stepwise'
<1>1. /\ req[c].pc = "seeding" /\ input' = Loaded /\ ready' = TRUE /\ NextStage(c, Loaded)
      /\ UNCHANGED <<graph, saved, budget>>
  BY DEF NextSeeded
<1>2. Others(c, req, {"idle"}) /\ run.status # "RUNNING" /\ ~ready /\ graph \in Graphs
  BY <1>1, OpenQuiet DEF Stepwise
<1>3. run = FreshRun /\ snapshots = <<>>
  BY <1>2, InStepKept DEF Stepwise, Kept, Empty
<1>4. Upto(0) = <<>> /\ Outs(graph, 0) = <<>> /\ Loaded = At(graph, 0) /\ 0 \in 0..NumStages
  BY <1>2, UptoIs, OutsAre, LoadedIs, PipelineAssumption
<1>5. InStep(run, snapshots, Loaded, input', graph, 0)
  BY <1>1, <1>3, <1>4 DEF InStep, FreshRun, Status
<1>. QED
  BY <1>1, <1>2, <1>4, <1>5, StageAlone

LEMMA LoadFailsSteps ==
    ASSUME NEW c \in Clients, Stepwise, LoadFails(c)
    PROVE  Stepwise'
<1>1. /\ req[c].pc \in {"starting", "seeding"} /\ req' = [req EXCEPT ![c] = Idle]
      /\ UNCHANGED <<run, snapshots, output, input, exec, ready, graph, saved, budget>>
  BY DEF LoadFails, engine
<1>2. Others(c, req, {"idle"}) /\ run.status # "RUNNING" /\ ReqShape(req)
  BY <1>1, OpenQuiet DEF Stepwise
<1>3. ReqShape(req') /\ Placed(c)' /\ Others(c, req', {"idle"})
  BY <1>1, <1>2, IdleIs DEF Others
<1>4. Kept(run', snapshots', output', input') /\ ready' = (input' # NoData) /\ graph' \in Graphs
  BY <1>1 DEF Stepwise
<1>. QED
  BY <1>1, <1>3, <1>4, Alone

\* The delay is over: a full run takes its next stage, beside requests that are
\* saving the row.
LEMMA DelayEnds ==
    ASSUME NEW c \in Clients, budget \in Budget, Stepwise, StageRuns(c)
    PROVE  Stepwise'
<1> DEFINE i == req[c].stage
           d == Applied(output, i)
           r == [run EXCEPT !.completed = Append(@, i)]
<1>1. /\ req[c].pc = "delay" /\ UNCHANGED <<input, exec, ready, graph, saved, budget>>
      /\ \/ output = NoData
         \/ /\ snapshots' = Append(snapshots, d) /\ UNCHANGED output
            /\ run' = [run EXCEPT !.status = "FAILED", !.stage = i]
            /\ req' = Saving(req, c)
         \/ /\ snapshots' = Append(snapshots, d) /\ output' = d
            /\ Loop(c, req[c].exec, i + 1, r, req)
  BY DEF StageRuns
<1>2. /\ run.status \in {"RUNNING", "PAUSED"} /\ req[c].exec = exec /\ i = run.stage
      /\ Others(c, req, {"idle", "saving", "sent"}) /\ ReqShape(req)
  BY <1>1 DEF Stepwise, Turns, Others
<1>3. PICK g \in Graphs, k \in 0..NumStages : InStep(run, snapshots, output, input, g, k)
  BY <1>2, HasData DEF FreshRun
<1>4. k \in Nat /\ NumStages \in Nat
  BY PipelineAssumption
<1>5. /\ input = At(g, 0) /\ output = At(g, k) /\ snapshots = Outs(g, k) /\ i = k + 1 /\ k < NumStages
      /\ run = [status |-> run.status, stage |-> run.stage, completed |-> Upto(k)]
  BY <1>2, <1>3 DEF InStep
<1>13. /\ run = [status |-> run.status, stage |-> run.stage, completed |-> run.completed]
       /\ run.completed = Upto(k)
  BY <1>5
<1>6. output # NoData /\ d = At(g, k + 1)
  BY <1>4, <1>5, AtIs
<1>7. snapshots' = Outs(g, k + 1)
  BY <1>1, <1>4, <1>5, <1>6, OutsAre
<1>8. /\ \E kk \in 0..NumStages : InStep(run', snapshots', output', input', g, kk)
      /\ ReqShape(req') /\ Placed(c)' /\ \A e \in Clients : e # c => req'[e] = req[e]
      /\ run'.status = "PAUSED" => run.status = "PAUSED"
      /\ req'[c].pc \in {"saving", "delay"}
  <2>1. CASE /\ UNCHANGED output
             /\ run' = [run EXCEPT !.status = "FAILED", !.stage = i]
             /\ req' = Saving(req, c)
    <3>1. run' = [status |-> "FAILED", stage |-> i, completed |-> Upto(k)]
      BY <1>13, <2>1, Failing
    <3>2. InStep(run', snapshots', output', input', g, k)
      BY <1>1, <1>5, <1>7, <2>1, <3>1 DEF InStep, Status
    <3>3. ReqShape(req') /\ Placed(c)' /\ \A e \in Clients : e # c => req'[e] = req[e]
      BY <1>2, <2>1, <3>1, SavingIs
    <3>4. req'[c].pc = "saving"
      BY <1>2, <2>1, IdleShape DEF Saving, ReqShape
    <3>. QED
      BY <3>1, <3>2, <3>3, <3>4
  <2>2. CASE output' = d /\ Loop(c, req[c].exec, i + 1, r, req)
    <3>1. Append(Upto(k), k + 1) = Upto(k + 1) /\ k + 1 \in 0..NumStages
      BY <1>4, <1>5, UptoIs
    <3>2. r = [status |-> run.status, stage |-> run.stage, completed |-> Append(run.completed, i)]
      BY <1>13, Advancing
    <3>3. run.completed = Upto(k)
      BY <1>13
    <3>4. r = [status |-> run.status, stage |-> run.stage, completed |-> Upto(k + 1)]
      BY <1>5, <3>1, <3>2, <3>3
    <3>5. output' = At(g, k + 1) /\ input' = At(g, 0) /\ exec' = req[c].exec
      BY <1>1, <1>2, <1>5, <1>6, <2>2
    <3> DEFINE n == k + 1
               id == req[c].exec
               st == run.status
               sg == run.stage
    <3> HIDE DEF r, d, n, id, st, sg
    <3>6. Loop(c, id, n + 1, r, req) /\ exec' = id /\ st \in {"RUNNING", "PAUSED"}
      BY <1>2, <1>5, <2>2, <3>5 DEF n, id, st
    <3>10. /\ n \in 0..NumStages /\ r = [status |-> st, stage |-> sg, completed |-> Upto(n)]
           /\ input' = At(g, 0) /\ output' = At(g, n) /\ snapshots' = Outs(g, n)
      BY <1>7, <3>1, <3>4, <3>5 DEF n, st, sg
    <3>7. /\ InStep(run', snapshots', output', input', g, n)
          /\ ReqShape(req') /\ Placed(c)' /\ \A e \in Clients : e # c => req'[e] = req[e]
          /\ req'[c].pc \in {"saving", "delay"}
          /\ run'.status = "PAUSED" => st = "PAUSED"
      BY <1>2, <3>6, <3>10, LoopPlaced
    <3>. QED
      BY <3>7, <3>10 DEF st
  <2>. QED
    BY <1>1, <1>6, <2>1, <2>2
<1>9. Kept(run', snapshots', output', input') /\ input' # NoData
  BY <1>8, InStepKept
<1>10. ready' = TRUE
  BY <1>1, <1>3, InStepKept DEF Stepwise
<1>11. Turns'
  <2>1. Others(c, req', {"idle", "saving", "sent"})
    BY <1>2, <1>8 DEF Others
  <2>. QED
    BY <1>8, <2>1, PlacedTurns
<1>12. RowsOk'
  <2>1. CASE budget.crashes > 0
    <3>1. Others(c, req, {"idle"})
      BY <1>1, <2>1 DEF Others, Stepwise, RowsOk
    <3>2. Others(c, req', {"idle"})
      BY <1>8, <3>1 DEF Others
    <3>. QED
      BY <1>1, <1>8, <3>2, PlacedRows DEF Stepwise
  <2>2. CASE ~(budget.crashes > 0)
    BY <1>1, <2>2 DEF RowsOk
  <2>. QED
    BY <2>1, <2>2
<1>. QED
  BY <1>1, <1>8, <1>9, <1>10, <1>11, <1>12 DEF Stepwise

\* A pause is sent beside a delay; the backend is not restarted any more.
LEMMA PauseSteps ==
    ASSUME NEW c \in Clients, budget.careful, budget \in Budget, Stepwise, Pause(c)
    PROVE  Stepwise'
<1>1. /\ Sent(c, "pause") /\ run.status = "RUNNING" /\ run' = [run EXCEPT !.status = "PAUSED"]
      /\ req' = Saving(req, c)
      /\ UNCHANGED <<snapshots, output, input, exec, ready, graph, saved>>
  BY DEF Pause
<1>2. /\ req[c].pc = "idle" /\ budget.crashes = 0
      /\ \A d \in Clients : req[d].pc \in {"idle", "delay"}
  BY <1>1 DEF Sent, CarefulClient
<1>3. budget'.crashes = 0
  BY <1>1, <1>2, SentLeaves
<1>4. PICK g \in Graphs, k \in 0..NumStages : InStep(run, snapshots, output, input, g, k)
  BY <1>1, HasData DEF FreshRun
<1>5. run = [status |-> run.status, stage |-> run.stage, completed |-> Upto(k)]
  BY <1>4 DEF InStep
<1>6. run' = [status |-> "PAUSED", stage |-> run.stage, completed |-> Upto(k)]
  BY <1>1, <1>5
<1>7. InStep(run', snapshots', output', input', g, k)
  BY <1>1, <1>4, <1>6 DEF InStep, Status
<1>8. Kept(run', snapshots', output', input') /\ ready' = (input' # NoData) /\ graph' \in Graphs
  BY <1>1, <1>7, InStepKept DEF Stepwise
<1>9. /\ ReqShape(req') /\ req'[c].pc = "saving"
      /\ \A d \in Clients : d # c => req'[d] = req[d]
  BY <1>1, IdleShape DEF Saving, ReqShape, Stepwise
<1>10. Turns'
  <2>1. \A d \in Clients : d # c => req'[d].pc \in {"idle", "delay"} /\ req'[d] = req[d]
    BY <1>2, <1>9
  <2>2. run'.status = "PAUSED" /\ run'.stage = run.stage /\ exec' = exec
    BY <1>1, <1>6
  <2>3. \A d, e \in Clients : d # e /\ req'[d].pc = "delay" => req'[e].pc \in {"idle", "saving", "sent"}
    BY <1>9, <2>1 DEF Stepwise, Turns
  <2>4. \A d \in Clients : req'[d].pc = "delay" => req'[d].exec = exec' /\ req'[d].stage = run'.stage
    BY <1>9, <2>1, <2>2 DEF Stepwise, Turns
  <2>5. \A d \in Clients : req'[d].pc \in {"idle", "delay", "saving"}
    BY <1>9, <2>1
  <2>. QED
    BY <2>2, <2>3, <2>4, <2>5 DEF Turns
<1>11. RowsOk'
  BY <1>3 DEF RowsOk
<1>. QED
  BY <1>8, <1>9, <1>10, <1>11 DEF Stepwise

\* The steps that only save the row.
LEMMA SavingSteps ==
    ASSUME NEW c \in Clients, budget \in Budget, Stepwise, SaveSent(c) \/ Saves(c) \/ SaveFails(c)
    PROVE  Stepwise'
<1>1. /\ UNCHANGED <<run, snapshots, output, input, exec, ready, graph>>
      /\ req[c].pc \in {"saving", "sent"} /\ budget'.crashes = budget.crashes
  BY DEF SaveSent, Saves, SaveFails, engine, Budget
<1>2. ReqShape(req)
  BY DEF Stepwise
<1>3. /\ ReqShape(req') /\ \A d \in Clients : d # c => req'[d] = req[d]
      /\ \/ SaveSent(c) /\ req'[c].pc = "sent" /\ req'[c].row = Copied(req[c].row, {"run", "snapshots"})
         \/ (Saves(c) \/ SaveFails(c)) /\ req'[c].pc = "idle"
  <2>1. CASE SaveSent(c)
    <3> DEFINE w == Copied(req[c].row, {"run", "snapshots"})
    <3>1. req' = [req EXCEPT ![c].pc = "sent", ![c].row = w]
      BY <2>1 DEF SaveSent
    <3> HIDE DEF w
    <3>2. /\ ReqShape(req') /\ \A d \in Clients : d # c => req'[d] = req[d]
          /\ req'[c].pc = "sent" /\ req'[c].row = w
      BY <1>2, <3>1 DEF ReqShape
    <3>. QED
      BY <2>1, <3>2 DEF w
  <2>2. CASE Saves(c) \/ SaveFails(c)
    BY <1>2, <2>2, IdleShape DEF Saves, SaveFails, ReqShape
  <2>. QED
    BY <2>1, <2>2
<1>4. Turns'
  <2>1. \A d \in Clients : req[d].pc \notin {"starting", "seeding"}
    BY <1>1 DEF Stepwise, Turns
  <2>2. \A d \in Clients : req'[d].pc = "delay" => d # c /\ req'[d] = req[d]
    BY <1>3
  <2>3. \A d \in Clients : req'[d].pc \in {"idle", "delay", "saving", "sent"}
    BY <1>3, <2>1 DEF Stepwise, Turns
  <2>4. ASSUME NEW d \in Clients, NEW e \in Clients, d # e, req'[d].pc = "delay"
        PROVE  req'[e].pc \in {"idle", "saving", "sent"}
    <3>1. d # c /\ req[d].pc = "delay"
      BY <2>2, <2>4
    <3>2. req[e].pc \in {"idle", "saving", "sent"}
      BY <2>4, <3>1 DEF Stepwise, Turns
    <3>. QED
      BY <1>3, <3>2
  <2>5. \A d \in Clients : req'[d].pc = "delay" =>
            run'.status \in {"RUNNING", "PAUSED"} /\ req'[d].exec = exec' /\ req'[d].stage = run'.stage
    BY <1>1, <2>2 DEF Stepwise, Turns
  <2>6. run'.status = "RUNNING" => \E d \in Clients : req'[d].pc = "delay"
    <3>1. ASSUME run'.status = "RUNNING" PROVE \E d \in Clients : req'[d].pc = "delay"
      <4>1. PICK d \in Clients : req[d].pc = "delay"
        BY <1>1, <3>1 DEF Stepwise, Turns
      <4>. QED
        BY <1>1, <1>3, <4>1
    <3>. QED
      BY <3>1
  <2>. QED
    BY <2>3, <2>4, <2>5, <2>6 DEF Turns
<1>5. ASSUME budget.crashes > 0
      PROVE  /\ run.status \notin {"RUNNING", "PAUSED"} /\ \A d \in Clients : d # c => req[d].pc = "idle"
             /\ Kept(run, snapshots, output, input) /\ RowOk(saved)
             /\ req[c].pc = "saving" => req[c].row = Payload(output, input)
             /\ req[c].pc = "sent" => RowOk(req[c].row)
  <2>1. \A d \in Clients : d # c => req[d].pc = "idle"
    BY <1>1, <1>5 DEF Stepwise, RowsOk
  <2>. QED
    BY <1>1, <1>5, <2>1 DEF Stepwise, RowsOk, Turns
<1>6. RowsOk'
  <2>. SUFFICES ASSUME budget'.crashes > 0
                PROVE  /\ run'.status # "PAUSED"
                       /\ \A d, e \in Clients : d = e \/ req'[d].pc = "idle" \/ req'[e].pc = "idle"
                       /\ \A d \in Clients : /\ req'[d].pc = "saving" => req'[d].row = Payload(output', input')
                                             /\ req'[d].pc = "sent" => RowOk(req'[d].row)
                       /\ RowOk(saved')
    BY DEF RowsOk
  <2>1. /\ run.status \notin {"RUNNING", "PAUSED"} /\ \A d \in Clients : d # c => req[d].pc = "idle"
        /\ Kept(run, snapshots, output, input) /\ RowOk(saved)
        /\ req[c].pc = "saving" => req[c].row = Payload(output, input)
        /\ req[c].pc = "sent" => RowOk(req[c].row)
    BY <1>1, <1>5
  <2>2. CASE SaveSent(c)
    <3>1. req[c].pc = "saving" /\ saved' = saved
      BY <2>2 DEF SaveSent
    <3>2. req'[c].pc = "sent" /\ req'[c].row = Copied(req[c].row, {"run", "snapshots"})
      BY <1>3, <2>2, <3>1 DEF Saves, SaveFails
    <3> DEFINE p == req[c].row
               w == Copied(p, {"run", "snapshots"})
    <3>3. p = [run |-> FreshRun, snapshots |-> <<>>, output |-> output, input |-> input,
               shared |-> {"run", "snapshots"}]
      BY <2>1, <3>1 DEF Payload
    <3> HIDE DEF p
    <3>4. w.run = run /\ w.snapshots = snapshots /\ w.output = output /\ w.input = input
      BY <3>3 DEF Copied
    <3> HIDE DEF w
    <3>5. RowOk(w)
      BY <2>1, <3>4 DEF RowOk
    <3>6. RowOk(req'[c].row)
      BY <3>2, <3>5 DEF p, w
    <3>. QED
      BY <1>1, <1>3, <2>1, <3>1, <3>2, <3>6
  <2>3. CASE Saves(c) \/ SaveFails(c)
    <3>1. saved' = saved \/ saved' = req[c].row
      BY <2>3 DEF Saves, SaveFails
    <3>2. req[c].pc = "sent" /\ req'[c].pc = "idle"
      BY <1>3, <2>3 DEF SaveSent, Saves, SaveFails
    <3>3. RowOk(saved')
      BY <2>1, <3>1, <3>2
    <3>. QED
      BY <1>1, <1>3, <2>1, <3>2, <3>3
  <2>. QED
    BY <2>2, <2>3
<1>7. Kept(run', snapshots', output', input') /\ ready' = (input' # NoData) /\ graph' \in Graphs
  BY <1>1 DEF Stepwise
<1>. QED
  BY <1>3, <1>4, <1>6, <1>7 DEF Stepwise

\* The row of a careful client restores a run that is in step.
LEMMA RestartSteps ==
    ASSUME budget \in Budget, Stepwise, Restart
    PROVE  Stepwise'
<1>1. /\ budget.crashes > 0 /\ run' = saved.run /\ snapshots' = saved.snapshots
      /\ output' = saved.output /\ input' = saved.input
      /\ ready' = (saved.input # NoData \/ saved.output # NoData)
      /\ req' = [c \in Clients |-> Idle] /\ UNCHANGED <<graph, saved>>
  BY DEF Restart
<1>2. RowOk(saved)
  BY <1>1 DEF Stepwise, RowsOk
<1>3. Kept(run', snapshots', output', input') /\ run'.status \notin {"RUNNING", "PAUSED"}
  BY <1>1, <1>2 DEF RowOk
<1>4. ready' = (input' # NoData)
  BY <1>1, <1>3, InStepKept DEF Kept, Empty
<1>5. ReqShape(req') /\ \A c \in Clients : req'[c].pc = "idle"
  BY <1>1, IdleShape DEF ReqShape
<1>6. Turns'
  BY <1>3, <1>5 DEF Turns
<1>7. RowOk(saved')
  BY <1>1, <1>2 DEF RowOk
<1>8. RowsOk'
  BY <1>3, <1>5, <1>7 DEF RowsOk
<1>9. graph' \in Graphs
  BY <1>1 DEF Stepwise
<1>. QED
  BY <1>3, <1>4, <1>5, <1>6, <1>8, <1>9 DEF Stepwise

LEMMA SameStep ==
    ASSUME Stepwise, UNCHANGED <<run, snapshots, output, input, exec, ready, req, saved, budget>>,
           graph' \in Graphs
    PROVE  Stepwise'
BY DEF Stepwise, ReqShape, Turns, RowsOk, RowOk

LEMMA CarefulStep == ASSUME QInv, [NextStep]_vars PROVE QInv'
<1>1. CASE UNCHANGED vars
  <2>1. UNCHANGED <<run, snapshots, output, input, exec, ready, req, saved, budget, graph>>
    BY <1>1 DEF vars
  <2>. QED
    BY <2>1, SameStep DEF QInv, Stepwise
<1>2. CASE NextStep
  <2>1. budget' \in Budget /\ budget'.careful = budget.careful
    BY <1>2, BudgetKept DEF QInv
  <2>2. SUFFICES ASSUME budget \in Budget, budget.careful, Stepwise PROVE Stepwise'
    BY <2>1 DEF QInv
  <2>3. ASSUME NEW c \in Clients, Request(c) PROVE Stepwise'
    BY <2>2, <2>3, StartSteps, PauseSteps, ResumeSteps, NextSteps, PreviousSteps, ResetSteps,
       ReplaySteps DEF Request
  <2>4. ASSUME NEW c \in Clients, Proceed(c) PROVE Stepwise'
    BY <2>2, <2>4, DelayEnds, RefusedSteps, StartedSteps, SeededSteps, SavingSteps DEF Proceed
  <2>5. CASE GraphChanges
    BY <2>2, <2>5, SameStep DEF GraphChanges, engine
  <2>6. CASE Restart
    BY <2>2, <2>6, RestartSteps
  <2>. QED
    BY <1>2, <2>2, <2>3, <2>4, <2>5, <2>6, LoadFailsSteps, SavingSteps DEF NextStep
<1>. QED
  BY <1>1, <1>2

LEMMA CarefulStart == ASSUME Init PROVE QInv
<1>1. budget \in Budget /\ graph \in Graphs
  BY PipelineAssumption DEF Init, Budget
<1>2. Kept(run, snapshots, output, input) /\ ready = (input # NoData)
  BY DEF Init, Kept, Empty
<1>3. ReqShape(req) /\ \A c \in Clients : req[c].pc = "idle"
  BY IdleShape DEF Init, ReqShape
<1>4. run.status = "IDLE"
  BY DEF Init, FreshRun
<1>5. RowOk(saved)
  <2> DEFINE p == Payload(NoData, NoData)
             w == Copied(p, {"run", "snapshots"})
  <2>1. p = [run |-> FreshRun, snapshots |-> <<>>, output |-> NoData, input |-> NoData,
             shared |-> {"run", "snapshots"}]
    BY DEF Payload
  <2> HIDE DEF p
  <2>2. w.run = run /\ w.snapshots = snapshots /\ w.output = NoData /\ w.input = NoData
    BY <2>1 DEF Copied
  <2> HIDE DEF w
  <2>3. saved = w /\ output = NoData /\ input = NoData
    BY DEF Init, p, w
  <2>. QED
    BY <1>2, <1>4, <2>2, <2>3 DEF RowOk
<1>6. Turns
  BY <1>3, <1>4 DEF Turns
<1>7. RowsOk
  BY <1>3, <1>4, <1>5 DEF RowsOk
<1>. QED
  BY <1>1, <1>2, <1>3, <1>6, <1>7 DEF QInv, Stepwise

------------------------------------------------------------------------------
(* Theorems                                                                *)

\* Without a restart, a run that reports RUNNING has a current loop under way,
\* however many requests of whatever kind overlap (PipelineEngine's executionId).
THEOREM RunsAreDriven ==
    ASSUME \A b \in Budgets : b.careful \/ b.crashes = 0
    PROVE  Spec => []RunningIsDriven
<1>1. PInv => RunningIsDriven
  BY DEF PInv, Unbroken, Driven, Current, RunningIsDriven
<1> QED BY <1>1, InitHolds, StepKeeps, PTL DEF Spec

\* Without a restart, the service's inputReady implies that the engine has data.
THEOREM ReadyMeansData ==
    ASSUME \A b \in Budgets : b.careful \/ b.crashes = 0
    PROVE  Spec => []ReadyHasData
<1>1. PInv => ReadyHasData
  BY WholeIsData DEF PInv, Unbroken, Held, ReadyHasData
<1> QED BY <1>1, InitHolds, StepKeeps, PTL DEF Spec

\* For a careful client the data in hand is that of the stages listed as completed, in
\* order, across pauses, steps back, replays, failures, saves and restarts
\* (PipelineEngine's currentOutput, completedStages and snapshots, and onModuleInit).
THEOREM OutputsMatch == Spec => []OutputMatches
<1>1. QInv => OutputMatches
  <2>. SUFFICES ASSUME Stepwise, output # NoData
                PROVE  output = [input EXCEPT !.stages = run.completed]
    BY DEF QInv, OutputMatches
  <2>1. PICK g \in Graphs, k \in 0..NumStages : InStep(run, snapshots, output, input, g, k)
    BY DEF Stepwise, Kept, Empty
  <2>2. output = At(g, k) /\ input = At(g, 0) /\ run.completed = Upto(k) /\ k \in Nat
    BY <2>1, PipelineAssumption DEF InStep
  <2>. QED
    BY <2>2, AtIs
<1>. QED
  BY <1>1, CarefulStart, CarefulStep, PTL DEF Spec

\* For a careful client a run that reports COMPLETED has put its input through every
\* stage, in order.
THEOREM CompletedRunsAreWhole == Spec => []CompletedIsWhole
<1>1. QInv => CompletedIsWhole
  <2>. SUFFICES ASSUME Stepwise, run.status = "COMPLETED"
                PROVE  output = [graph |-> input.graph, stages |-> AllStages]
    BY DEF QInv, CompletedIsWhole
  <2>1. PICK g \in Graphs, k \in 0..NumStages : InStep(run, snapshots, output, input, g, k)
    BY HasData DEF FreshRun
  <2>2. output = At(g, NumStages) /\ input = At(g, 0) /\ NumStages \in Nat
    BY <2>1, PipelineAssumption DEF InStep
  <2>3. input.graph = g
    BY <2>2, AtIs
  <2>4. AllStages = Upto(NumStages)
    BY DEF AllStages, Upto, Stages
  <2>. QED
    BY <2>2, <2>3, <2>4 DEF At
<1>. QED
  BY <1>1, CarefulStart, CarefulStep, PTL DEF Spec
==============================================================================
