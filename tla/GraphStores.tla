------------------------------ MODULE GraphStores ------------------------------
(***************************************************************************)
(* Where the graph of an import is kept: the chunks of the last conversion *)
(* in PostgreSQL, the memories of RiskGraphSourceService and of            *)
(* GraphContextService over the row "imported", and, when Neo4j is in use, *)
(* the versions that EnterpriseGraphService applies to it.                 *)
(*                                                                         *)
(* A graph is named by the conversions that its nodes and its links come   *)
(* from, which differ when it is read while another conversion replaces    *)
(* the chunks.                                                             *)
(***************************************************************************)
EXTENDS OperationalStore, SequencesExt

VARIABLES
    chunks,     \* ImportGraphChunkService: the conversion in its rows
    risk,       \* RiskGraphSourceService.memory
    context,    \* GraphContextService.memorySnapshot
    versions,   \* the rows of graph_versions, by their sequence
    applied     \* Neo4j: the versions whose transaction has committed, in that order

graphVars == <<chunks, risk, context, versions, applied>>
memories  == <<risk, context>>
neo       == <<versions, applied>>

NoGraph == [nodes |-> 0, links |-> 0]
Whole(n) == [nodes |-> n, links |-> n]

GraphInit ==
    /\ chunks = 0 /\ risk = NoGraph /\ context = NoGraph
    /\ versions = <<>> /\ applied = <<>>

Save(owner, row, value) ==
    pending' = pending \cup {[owner |-> owner, row |-> row, value |-> value]}

\* Slip: the graph is saved for the next start, but not shown to the risk engine.
SetMemoryGraphLater(c, g) == risk' = risk /\ Save(<<c, "risk">>, "imported", g)

\* RiskGraphSourceService.setMemoryGraph, up to its flush.
SetMemoryGraph(c, g) == risk' = g /\ Save(<<c, "risk">>, "imported", g)

\* GraphContextService.setImportedGraph, up to the row "active_import": saveGraph
\* returns nothing, so its write is not awaited.
SetImportedGraph(c, g) == context' = g /\ Save(<<c, "context">>, "imported", g)

\* GraphContextService.loadImported: what the row holds by now.
LoadImported == context' = IF rows["imported"] = NoGraph THEN context ELSE rows["imported"]

\* EnterpriseGraphService.applySources: the row first, then one transaction that
\* upserts the chunks as it reads them, then the row again.
VersionSaved(version) == versions' = Append(versions, version)
VersionEnds(v, status) == versions' = [versions EXCEPT ![v].status = status]
Commits(v, g) == applied' = Append(applied, [version |-> v, graph |-> g])

\* latestVersion: the completed version of the highest sequence, 0 when there is none.
LatestVersion ==
    LET completed == {v \in DOMAIN versions : versions[v].status = "COMPLETED"}
    IN  IF completed = {} THEN 0 ELSE CHOOSE v \in completed : \A u \in completed : u <= v
===============================================================================
