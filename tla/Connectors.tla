------------------------------ MODULE Connectors ------------------------------
(***************************************************************************)
(* A connector and its synchronisations: ConnectorsService over            *)
(* ConnectorRepository, and the run of the four sync services, which read  *)
(* a directory that changes meanwhile, collection by collection, map what  *)
(* they read and apply it to Neo4j.                                        *)
(*                                                                         *)
(* The connector is one of many: they share the list of failed writes.     *)
(* Node runs a handler without interruption up to its next await, so an    *)
(* action is a handler's run between two awaits.  A connector is one       *)
(* object, which the repository lists and every request that looked it up  *)
(* holds; a write of it carries the object as it is when the statement is  *)
(* sent.                                                                   *)
(*                                                                         *)
(* The directory has three collections of at most one object each: users,  *)
(* groups, and the hosts or devices.                                       *)
(*                                                                         *)
(* Left out: the runs that are recorded beside the connector.  saveRun     *)
(* writes each of them on its own, and only the display reads them; that   *)
(* such a write fails is OtherFails.                                       *)
(***************************************************************************)
EXTENDS DirectoryGraphs

CONSTANTS
    Requests,       \* the requests that are made, each at most once
    Instances       \* where the system may start, with the bounds of what happens then:
                    \*   kind, plain, there  the directory and the objects it begins with
                    \*   time, changes       of the directory
                    \*   bodies              of the sync requests that are made
                    \*   administered        there are other requests than those
                    \*   late                writes that may be under way at any other step
                    \*   errors              failed writes that are on the list at once
                    \*   restarts            of the process

VARIABLES
    bounds,     \* one of Instances
    clock,
    dir,        \* the directory
    connector,  \* the Connector object
    listed,     \* ConnectorRepository.connectors has it
    active,     \* the sync service is running it
    calls,      \* the requests
    pending,    \* writes under way
    errors,     \* ConnectorRepository.writeErrors, how many
    row,        \* its row in PostgreSQL
    graph,      \* Neo4j
    restarts,
    decided     \* history: what the last administrator's request made of the connector,
                \* and whether no write that says otherwise is under way or has failed (firm)

memory  == <<connector, listed, active>>
store   == <<pending, errors, row>>
vars    == <<bounds, clock, dir, memory, calls, store, graph, restarts, decided>>

kind  == bounds.kind        \* connectorType
plain == bounds.plain       \* objects have a unique id (FreeIPA), the user is no system account (Linux)

Kinds   == {"ACTIVE_DIRECTORY", "FREEIPA", "ENTRA_ID", "LINUX_SSH"}
Statuses == {"DISABLED", "CONFIGURED", "TESTING", "CONNECTED", "FAILED", "SYNCING"}
Modes   == {"FULL", "INCREMENTAL", "PREVIEW"}
User    == 1
Group   == 2
Device  == 3
Objects == {User, Group, Device}

ASSUME ConnectorsAssumption ==
    /\ None # "COMPLETED" /\ None \notin [status : Statuses, enabled : BOOLEAN, synced : Nat]
    /\ \A b \in Instances : /\ b.kind \in Kinds /\ b.there \subseteq Objects
                            /\ b.time \in Nat \ {0} /\ b.errors \in Nat
                            /\ b.bodies \subseteq [mode : Modes, limit : Nat, persist : BOOLEAN, scan : BOOLEAN]

Idle     == [pc |-> "idle"]
Ended(a, status) == [pc |-> a, status |-> status]
Made == {r \in Requests : calls[r] # Idle}
Running(r) == calls[r].pc \in {"extract", "apply", "scan", "complete", "throws"}
UnderWay(r) == Running(r) \/ calls[r].pc = "test"

\* No run and no test holds the connector, and nothing writes it.
Free  == \A q \in Requests : ~UnderWay(q)
Quiet == pending = {} /\ Free

-----------------------------------------------------------------------------
(* ConnectorRepository *)

Unsent == [sent |-> FALSE]
Sent(v) == [sent |-> TRUE, of |-> v]

SaveWrite(r, step) == [deletes |-> FALSE, by |-> r, step |-> step, value |-> Unsent]
DeleteWrite(r) == [deletes |-> TRUE, by |-> r, step |-> "only", value |-> Unsent]
Key(w) == <<w.by, w.step>>

Track(writes) == pending' = pending \cup writes

\* The row and the payload of a statement when it is sent.
Payload(w) == IF w.deletes THEN None ELSE connector

\* Slip: flush does not wait for what is pending.
NothingWaited == {}

\* flush: Promise.all of what is pending by now.
Waited == {Key(w) : w \in pending'}

\* A statement is sent some time after it was asked for, on a connection of its own.
Send(w) ==
    /\ ~w.value.sent
    /\ pending' = (pending \ {w}) \cup {[w EXCEPT !.value = Sent(Payload(w))]}
    /\ UNCHANGED <<bounds, clock, dir, memory, calls, errors, row, graph, restarts, decided>>

Land(w) ==
    /\ w.value.sent
    /\ pending' = pending \ {w}
    /\ row' = w.value.of
    /\ UNCHANGED <<bounds, clock, dir, memory, calls, errors, graph, restarts, decided>>

\* track: the error is put on the list, and rejects the flushes that wait for the write.
Fail(w) ==
    /\ errors < bounds.errors
    /\ pending' = pending \ {w}
    /\ errors' = errors + 1
    /\ calls' = [r \in Requests |->
                    IF calls[r].pc = "flush" /\ Key(w) \in calls[r].waits THEN Ended("error", calls[r].status) ELSE calls[r]]
    /\ decided' = [decided EXCEPT !.firm = FALSE]
    /\ UNCHANGED <<bounds, clock, dir, memory, row, graph, restarts>>

\* A write of another connector fails.
OtherFails ==
    /\ errors < bounds.errors
    /\ errors' = errors + 1
    /\ UNCHANGED <<bounds, clock, dir, memory, calls, pending, row, graph, restarts, decided>>

\* A run of another connector ends, and takes the first error of the list.
OtherFlushes ==
    /\ errors > 0
    /\ errors' = errors - 1
    /\ UNCHANGED <<bounds, clock, dir, memory, calls, pending, row, graph, restarts, decided>>

\* The rest of flush, and the answer: of a run that failed its error.
FlushEnds(r) ==
    /\ calls[r].pc = "flush" /\ \A w \in pending : Key(w) \notin calls[r].waits
    /\ errors' = IF errors > 0 THEN errors - 1 ELSE 0
    /\ calls' = [calls EXCEPT ![r] =
                    Ended(IF errors > 0 \/ calls[r].status = "FAILED" THEN "error" ELSE "ok", calls[r].status)]
    /\ UNCHANGED <<bounds, clock, dir, memory, pending, row, graph, restarts, decided>>

-----------------------------------------------------------------------------
(* The directory, which knows nothing of the connector *)

Exists(i) == dir.ver[i] > 0

\* An object is created or changed.
Changes(i) ==
    /\ dir.changes < bounds.changes
    /\ dir' = [dir EXCEPT !.ver[i] = dir.ver[i] + 1, !.changes = dir.changes + 1,
                          !.born[i] = IF Exists(i) THEN dir.born[i] ELSE clock]
    /\ UNCHANGED <<bounds, clock, memory, calls, store, graph, restarts, decided>>

\* The user joins the group: the group changes.
Joins ==
    /\ dir.changes < bounds.changes /\ Exists(User) /\ Exists(Group) /\ ~dir.member
    /\ dir' = [dir EXCEPT !.member = TRUE, !.ver[Group] = dir.ver[Group] + 1, !.changes = dir.changes + 1]
    /\ UNCHANGED <<bounds, clock, memory, calls, store, graph, restarts, decided>>

Tick ==
    /\ clock < bounds.time /\ clock' = clock + 1
    /\ UNCHANGED <<bounds, dir, memory, calls, store, graph, restarts, decided>>

-----------------------------------------------------------------------------
(* Extraction *)

\* changedSinceFilter keeps the T of an ISO time, which no time of LDAP has: a comparison
\* with it is undefined, and holds of nothing.
ChangedSince(i, mark) == FALSE

\* What a search with a watermark finds; 0 stands for no watermark.  Entra filters users
\* and groups, by the time of their creation.
Matches(i, mark) ==
    \/ mark = 0
    \/ kind \in {"ACTIVE_DIRECTORY", "FREEIPA"} /\ ChangedSince(i, mark)
    \/ kind = "ENTRA_ID" /\ (i = Device \/ dir.born[i] >= mark)

\* Entra is asked for "members@odata.bind", which is no property of what it answers.
Refs(i, member) ==
    CASE i = User -> (IF member /\ kind # "ENTRA_ID" THEN {<<"memberOf", "g">>} ELSE {})
                         \cup (IF kind = "ACTIVE_DIRECTORY" THEN {<<"primaryGroupID", "S-g">>} ELSE {})
      [] i = Group -> IF member /\ kind # "ENTRA_ID" THEN {<<"member", "u">>} ELSE {}
      [] i = Device -> IF kind \in {"ACTIVE_DIRECTORY", "FREEIPA"} THEN {<<"managedBy", "u">>} ELSE {}

Names == <<"u", "g", "h">>
Types == <<"USER", "GROUP", "COMPUTER">>

Entry(i, ver, member) ==
    [pos |-> i, ver |-> ver, name |-> Names[i], type |-> Types[i], refs |-> Refs(i, member),
     guid |-> IF ~plain /\ kind \in {"ACTIVE_DIRECTORY", "FREEIPA"} THEN None ELSE Names[i],
     sid |-> IF i = Group THEN "S-g" ELSE None]

\* parsePasswd, parseGroup, parseHostIdentity, of what the commands print.  A host that
\* says nothing of itself has an empty name and no operating system; its sudo rules
\* are read with what else there is of the host.
Passwd(entries) == {[pos |-> e.pos, ver |-> e.ver, name |-> e.name, uid |-> IF plain THEN HumanUid ELSE 500]
                       : e \in {x \in entries : x.pos = User}}
Groups(entries) == {[pos |-> e.pos, ver |-> e.ver, name |-> e.name, members |-> {ref[2] : ref \in e.refs}]
                       : e \in {x \in entries : x.pos = Group}}
HostIdentity(entries) ==
    LET found == {x \in entries : x.pos = Device}
    IN  IF found = {} THEN [pos |-> Device, ver |-> 0, name |-> "", os |-> None]
        ELSE CHOOSE h \in {[pos |-> e.pos, ver |-> e.ver, name |-> e.name, os |-> "os"] : e \in found} : TRUE

\* The Active Directory connector puts a node for the forest first, before it cuts
\* the objects at the limit.
Forest == [pos |-> 0, ver |-> 0, name |-> "forest", type |-> "FOREST", refs |-> {}, guid |-> None, sid |-> None]
Cut(entries, limit) ==
    IF limit = 0 THEN entries ELSE {e \in entries : Cardinality({x \in entries : x.pos < e.pos}) < limit}

Extracted(call) ==
    IF kind = "ACTIVE_DIRECTORY" THEN Cut(call.found \cup {Forest}, call.limit) ELSE call.found

\* linux-command-runner.ts refuses a command that is not on its list; the script that
\* prints the authorized keys is not.
AllowedCommands == {"cat /etc/passwd", "cat /etc/group", "cat /etc/sudoers", "hostname", "cat /etc/os-release"}
Allowed(command) == command \in AllowedCommands

\* The command that reads each collection; one stands for all that tell of the host.
Commands == <<"cat /etc/passwd", "cat /etc/group", "hostname">>

\* What exec may settle with: what is printed, or a rejection, of a command that is not
\* allowed, that the session refuses, or whose time runs out before its channel closes.
Exec(command, printed) == {None} \cup IF Allowed(command) THEN {printed} ELSE {}

Rules(entries) == {[pos |-> e.pos, ver |-> e.ver, name |-> "rule"] : e \in {x \in entries : x.pos = Device}}
Keys(entries) ==
    LET printed == {[pos |-> e.pos, ver |-> e.ver, name |-> "key", user |-> e.name] : e \in {x \in entries : x.pos = User}}
    IN  UNION (Exec("for u in $(getent passwd)", printed) \ {None})

\* What extract returns; a command that was not answered has printed nothing.
LinuxExtract(entries) ==
    [passwd |-> Passwd(entries), groups |-> Groups(entries), sudoRules |-> Rules(entries),
     authorizedKeys |-> Keys(entries), hostIdentity |-> HostIdentity(entries)]

LinuxGraph(x) == BuildLinuxGraph(x.passwd, x.groups, x.sudoRules, x.authorizedKeys, x.hostIdentity)

Mapped(call) ==
    CASE kind = "ACTIVE_DIRECTORY" -> MapAd(Extracted(call))
      [] kind = "FREEIPA" -> MapFreeipa(Extracted(call))
      [] kind = "ENTRA_ID" -> MapEntra(Extracted(call))
      [] kind = "LINUX_SSH" -> LinuxGraph(LinuxExtract(Extracted(call)))

More(call) == call.next \in Objects /\ (call.limit = 0 \/ kind = "LINUX_SSH" \/ Cardinality(call.found) < call.limit)

\* Where the run is once it has read a collection.
Reached(call) ==
    [call EXCEPT !.pc = IF More(call) THEN "extract" ELSE IF call.persist THEN "apply"
                        ELSE IF call.scan THEN "scan" ELSE "complete"]

\* One search: what it finds, and the version that the search saw.
Search(r) ==
    /\ calls[r].pc = "extract" /\ kind # "LINUX_SSH"
    /\ LET i == calls[r].next
           entry == IF Exists(i) /\ Matches(i, calls[r].mark) THEN {Entry(i, dir.ver[i], dir.member)} ELSE {}
       IN  calls' = [calls EXCEPT ![r] = Reached(
              [calls[r] EXCEPT !.next = i + 1, !.seen[i] = dir.ver[i], !.found = calls[r].found \cup entry])]
    /\ UNCHANGED <<bounds, clock, dir, memory, store, graph, restarts, decided>>

\* Entra goes on to the next collection when it may not read one.
Skip(r) ==
    /\ calls[r].pc = "extract" /\ kind = "ENTRA_ID"
    /\ calls' = [calls EXCEPT ![r] = Reached([calls[r] EXCEPT !.next = calls[r].next + 1])]
    /\ UNCHANGED <<bounds, clock, dir, memory, store, graph, restarts, decided>>

\* The next command on a host; one that fails is a warning, and the next one follows.
Command(r) ==
    /\ calls[r].pc = "extract" /\ kind = "LINUX_SSH"
    /\ LET i == calls[r].next
           printed == IF Exists(i) THEN {Entry(i, dir.ver[i], dir.member)} ELSE {}
       IN  \E result \in Exec(Commands[i], printed) :
              calls' = [calls EXCEPT ![r] = Reached(
                 IF result = None THEN [calls[r] EXCEPT !.next = i + 1]
                 ELSE [calls[r] EXCEPT !.next = i + 1, !.seen[i] = dir.ver[i], !.found = calls[r].found \cup result])]
    /\ UNCHANGED <<bounds, clock, dir, memory, store, graph, restarts, decided>>

-----------------------------------------------------------------------------
(* The run of a sync service *)

\* Slip: a run does not ask whether there is another.
MayAlways == TRUE

\* The set of active connectors of the sync service does not have this one.
MayRun == ~active

\* ConnectorsService.sync and the run up to its first await; both refuse without a
\* trace.  An incremental run reads on from the last run that succeeded.
Sync(r, o) ==
    /\ calls[r] = Idle /\ listed /\ connector.enabled /\ MayRun
    /\ active' = TRUE
    /\ calls' = [calls EXCEPT ![r] =
           [pc |-> "extract", status |-> "RUNNING", mode |-> o.mode, persist |-> o.persist, scan |-> o.scan,
            limit |-> IF o.mode = "PREVIEW" THEN o.limit ELSE 0,
            mark |-> IF o.mode = "INCREMENTAL" /\ kind # "LINUX_SSH" THEN connector.synced ELSE 0,
            next |-> User, seen |-> [i \in Objects |-> 0], found |-> {},
            \* history: the directory when the run began, whether anything was under way then,
            \* and which requests had been made
            began |-> dir.ver, quiet |-> Quiet, made |-> Made]]
    /\ connector' = [connector EXCEPT !.status = "SYNCING"]
    /\ Track(pending \cup {SaveWrite(r, "first")})
    /\ UNCHANGED <<bounds, clock, dir, listed, errors, row, graph, restarts, decided>>

\* graph.applyVersioned: its transaction commits; the row of the version may fail after.
Applies(r) ==
    /\ calls[r].pc = "apply"
    /\ graph' = Merge(graph, Mapped(calls[r]))
    /\ \E next \in {IF calls[r].scan THEN "scan" ELSE "complete", "throws"} :
          calls' = [calls EXCEPT ![r].pc = next]
    /\ UNCHANGED <<bounds, clock, dir, memory, store, restarts, decided>>

\* The finally: the connector that the run holds is saved and so listed, then flush.
Finally(r, status, changed) ==
    /\ connector' = changed
    /\ listed' = TRUE /\ active' = FALSE
    /\ Track(pending \cup {SaveWrite(r, "last")})
    /\ calls' = [calls EXCEPT ![r] = [pc |-> "flush", status |-> status, waits |-> Waited,
                                         quiet |-> calls[r].quiet, made |-> calls[r].made]]
    /\ UNCHANGED <<bounds, clock, dir, errors, row, graph, restarts, decided>>

\* The run completes, with the risk scan when it was asked for: also a preview, and one
\* that does not persist, sets the time of the last success.
Completes(r) ==
    /\ calls[r].pc \in {"scan", "complete"}
    /\ Finally(r, "COMPLETED", [connector EXCEPT !.status = "CONNECTED", !.synced = clock])

\* The catch: the directory, Neo4j or the risk scan has thrown.
Throws(r) ==
    /\ calls[r].pc \in {"extract", "apply", "scan", "throws"}
    /\ Finally(r, "FAILED", [connector EXCEPT !.status = "FAILED"])

-----------------------------------------------------------------------------
(* ConnectorsService: the other requests *)

\* No write is under way that says otherwise than an update: one that has been sent, or
\* deletes the row.
Uncontested == \A w \in pending : ~w.deletes /\ ~w.value.sent
Decision(enabled) == IF enabled THEN "enabled" ELSE "disabled"

Create(r, enabled) ==
    /\ calls[r] = Idle /\ connector = None
    /\ connector' = [status |-> IF enabled THEN "CONFIGURED" ELSE "DISABLED", enabled |-> enabled, synced |-> 0]
    /\ listed' = TRUE
    /\ Track(pending \cup {SaveWrite(r, "only")})
    /\ calls' = [calls EXCEPT ![r] = Ended("ok", None)]
    /\ decided' = [what |-> Decision(enabled), firm |-> Uncontested]
    /\ UNCHANGED <<bounds, clock, dir, active, errors, row, graph, restarts>>

\* update works on the object that a run may hold, and sets its status anew.
Update(r, enabled) ==
    /\ calls[r] = Idle /\ listed
    /\ connector' = [connector EXCEPT !.enabled = enabled, !.status = IF enabled THEN "CONFIGURED" ELSE "DISABLED"]
    /\ Track(pending \cup {SaveWrite(r, "only")})
    /\ calls' = [calls EXCEPT ![r] = Ended("ok", None)]
    /\ decided' = [what |-> Decision(enabled), firm |-> Uncontested]
    /\ UNCHANGED <<bounds, clock, dir, listed, active, errors, row, graph, restarts>>

\* Slip: the connector is taken off the list, its row stays.
DeleteListed(r) == Track(pending)
DeleteRow(r) == Track(pending \cup {DeleteWrite(r)})

\* delete does not ask whether a run or a test holds the object.
Delete(r) ==
    /\ calls[r] = Idle /\ listed
    /\ listed' = FALSE
    /\ DeleteRow(r)
    /\ calls' = [calls EXCEPT ![r] = Ended("ok", None)]
    /\ decided' = [what |-> IF Free THEN "deleted" ELSE "any", firm |-> pending = {}]
    /\ UNCHANGED <<bounds, clock, dir, connector, active, errors, row, graph, restarts>>

Test(r) ==
    /\ calls[r] = Idle /\ listed
    /\ connector' = [connector EXCEPT !.status = "TESTING"]
    /\ Track(pending \cup {SaveWrite(r, "first")})
    /\ calls' = [calls EXCEPT ![r] = [pc |-> "test", status |-> None]]
    /\ UNCHANGED <<bounds, clock, dir, listed, active, errors, row, graph, restarts, decided>>

Tested(r, status) ==
    /\ calls[r].pc = "test"
    /\ connector' = [connector EXCEPT !.status = status]
    /\ listed' = TRUE
    /\ Track(pending \cup {SaveWrite(r, "last")})
    /\ calls' = [calls EXCEPT ![r] = Ended(IF status = "CONNECTED" THEN "ok" ELSE "error", None)]
    /\ UNCHANGED <<bounds, clock, dir, active, errors, row, graph, restarts, decided>>

\* The process ends, and the next one loads the rows.
Restart ==
    /\ restarts < bounds.restarts /\ restarts' = restarts + 1
    /\ listed' = (row # None)
    /\ connector' = row
    /\ active' = FALSE
    /\ calls' = [r \in Requests |->
                    IF calls[r] = Idle \/ calls[r].pc \in {"ok", "error"} THEN calls[r] ELSE Ended("gone", calls[r].status)]
    /\ pending' = {} /\ errors' = 0
    /\ decided' = [decided EXCEPT !.what = IF decided.firm /\ pending = {} THEN decided.what ELSE "any"]
    /\ UNCHANGED <<bounds, clock, dir, row, graph>>

-----------------------------------------------------------------------------

Init ==
    /\ bounds \in Instances
    /\ clock = 1
    /\ dir = [ver |-> [i \in Objects |-> IF i \in bounds.there THEN 1 ELSE 0], born |-> [i \in Objects |-> 0],
              member |-> FALSE, changes |-> 0]
    /\ connector \in {None, [status |-> "CONFIGURED", enabled |-> TRUE, synced |-> 0]}
    /\ listed = (connector # None) /\ active = FALSE
    /\ calls = [r \in Requests |-> Idle]
    /\ pending = {} /\ errors = 0
    /\ row = connector
    /\ graph = [nodes |-> {}, links |-> {}]
    /\ restarts = 0
    /\ decided = [what |-> "any", firm |-> FALSE]

DirectoryNext == Joins \/ Tick \/ \E i \in Objects : Changes(i)

RunNext(r) ==
    \/ \E o \in bounds.bodies : Sync(r, o)
    \/ Search(r) \/ Skip(r) \/ Command(r) \/ Applies(r)
    \/ Completes(r) \/ Throws(r) \/ FlushEnds(r)

AdministrationNext(r) ==
    \/ bounds.administered /\ \E enabled \in BOOLEAN : Create(r, enabled) \/ Update(r, enabled)
    \/ bounds.administered /\ (Delete(r) \/ Test(r))
    \/ \E status \in {"CONNECTED", "FAILED"} : Tested(r, status)

WriteNext == OtherFails \/ OtherFlushes \/ \E w \in pending : Send(w) \/ Land(w) \/ Fail(w)

Next ==
    \/ WriteNext
    \/ /\ Cardinality(pending) <= bounds.late
       /\ \/ DirectoryNext \/ Restart
          \/ \E r \in Requests : RunNext(r) \/ AdministrationNext(r)

Spec == Init /\ [][Next]_vars

-----------------------------------------------------------------------------

ConnectorObjects == [status : Statuses, enabled : BOOLEAN, synced : 0 .. bounds.time] \cup {None}

\* The object and the row are what the code can hold; what is listed is there, and the
\* service runs the connector at most once, while its set of active ones says so.
TypeOK ==
    /\ kind \in Kinds /\ clock \in 1 .. bounds.time
    /\ connector \in ConnectorObjects /\ (listed => connector # None)
    /\ \A r, q \in Requests : Running(r) /\ Running(q) => r = q
    /\ active <=> \E r \in Requests : Running(r)
    /\ row \in ConnectorObjects
    /\ errors \in 0 .. bounds.errors

\* A node of Neo4j never goes back to an older version of its object: what a run applies
\* was read while the connector had no other run, so it is no older than what the runs
\* before it have left, however long it was on its way and wherever they have failed.
NothingGoesBack ==
    [][\A n \in graph.nodes, m \in graph'.nodes \ graph.nodes :
          m.id = n.id /\ m.of.name = n.of.name => n.of.ver <= m.of.ver]_vars

NodeShown(i) == \E n \in graph.nodes : n.of.name = Names[i] /\ n.of.ver = dir.ver[i]

\* Where the mappers do not tell objects apart, or leave one out on purpose.
Mappable(i) ==
    /\ kind = "FREEIPA" => plain
    /\ kind = "LINUX_SSH" /\ i = User => plain

NodeOf(i) == {n.id : n \in {m \in graph.nodes : m.of.name = Names[i]}}

\* A full run that persists and completes, of a directory that did not change and was
\* read to the end, leaves every object in the graph as it is, with the membership of
\* the user in the group and no other: whichever side lists it, and through every
\* mapper, Entra's excepted, which is never given the members.
FullSyncIsWhole ==
    [][\A r \in Requests :
          /\ Running(r) /\ calls'[r].pc = "flush" /\ calls'[r].status = "COMPLETED"
          /\ calls[r].mode = "FULL" /\ calls[r].persist
          /\ calls[r].began = dir.ver /\ calls[r].seen = dir.ver
          => /\ \A i \in Objects : Exists(i) /\ Mappable(i) => NodeShown(i)
             /\ (\A i \in {User, Group} : Mappable(i)) /\ kind # "ENTRA_ID" =>
                   {<<l.source, l.target>> : l \in {k \in graph.links : k.type = "MEMBER_OF"}}
                       = IF dir.member THEN NodeOf(User) \X NodeOf(Group) ELSE {}]_vars

\* What an administrator decided is kept.  While the process lives, a run or a test that
\* holds the connector does not undo an update when it saves it at its end, and one that
\* was deleted while no run and no test held it does not come back; one that was deleted
\* while it was held does, and nothing is said of it.  The next process finds what was
\* decided if all writes have landed, none has failed, and none that said otherwise was
\* under way at the decision; else nothing is said of it either.
AdministrationIsKept ==
    CASE decided.what = "enabled"  -> listed => connector.enabled
      [] decided.what = "disabled" -> listed => ~connector.enabled
      [] decided.what = "deleted"  -> ~listed
      [] OTHER -> TRUE

\* Nothing was under way when the run of the request began, and no other request was made.
Alone(r) == calls[r].quiet /\ Made \ {r} = calls[r].made

\* A sync request that had the connector to itself and is answered with a completed run
\* has left it in PostgreSQL as the answer shows it, or, when the first write of the run
\* landed after its last, as one that is still synchronised.  That holds though a run of
\* another connector may take the error of the first write from the list, and though
\* save awaits neither of the two: the flush of the run rejects when the last one fails.
AnsweredIsStored ==
    [][\A r \in Requests :
          calls[r].pc = "flush" /\ calls'[r].pc = "ok" /\ calls[r].status = "COMPLETED" /\ Alone(r)
          => /\ row.enabled = connector.enabled
             /\ row = connector \/ row.status = "SYNCING"]_vars
=============================================================================
