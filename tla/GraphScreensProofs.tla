------------------------- MODULE GraphScreensProofs -------------------------
(***************************************************************************)
(* Proofs about GraphScreens: which load decides what a page holds, that   *)
(* what a view shows was computed from what the page holds, and what the   *)
(* cache of traversals needs to be right, for all graphs, filters and      *)
(* questions and for any number of visits, requests and changes.           *)
(***************************************************************************)
EXTENDS GraphScreens, TLAPS

\* The constant that stands for "no graph" is not a graph.
GraphsAreRecords == \A nodes, links : [nodes |-> nodes, links |-> links] # NoGraph

(***************************************************************************)
(* The shape of what a page holds and of what it has asked for.            *)
(***************************************************************************)
HeldFormed(h) ==
    /\ h = [graph |-> h.graph, of |-> h.of, loading |-> h.loading, failed |-> h.failed]
    /\ h.loading \in BOOLEAN /\ h.failed \in BOOLEAN

RequestFormed(r) ==
    /\ r = [kind |-> r.kind, source |-> r.source, filter |-> r.filter, node |-> r.node,
            current |-> r.current, reply |-> r.reply]
    /\ r.source \in Sources
    /\ r.reply = NoGraph => r.reply \in {Pending, Failed}

Shape ==
    /\ source \in Sources
    /\ held = [s \in Sources |-> held[s]] /\ \A s \in Sources : HeldFormed(held[s])
    /\ \A r \in requests : RequestFormed(r)

\* Of the loads under way one is wanted, and the page waits for it; where it does not
\* wait, it holds what it asked for.
Deciding(r) == r.kind = "load" /\ r.current

OneDecides ==
    \A r \in requests : Deciding(r) =>
        /\ r.source = source /\ r.filter = filter /\ held[source].loading
        /\ \A q \in requests : Deciding(q) => q = r

Loaded ==
    held[source].loading \/ held[source].failed
        \/ (held[source].graph # NoGraph /\ held[source].of = filter)

LoadInv == Shape /\ (page # "none" => OneDecides /\ Loaded)

------------------------------------------------------------------------------
(* Facts about requests and what is held                                   *)

LEMMA LoadingFormed ==
    ASSUME NEW h, HeldFormed(h)
    PROVE  /\ HeldFormed(Loading(h)) /\ Loading(h).loading /\ ~Loading(h).failed
           /\ Loading(h).graph = h.graph /\ Loading(h).of = h.of
<1>. DEFINE g == h.graph
            o == h.of
            l == h.loading
            f == h.failed
<1>1. h = [graph |-> g, of |-> o, loading |-> l, failed |-> f]
  BY DEF HeldFormed
<1>. HIDE DEF g, o, l, f
<1>2. ASSUME NEW t, t = [h EXCEPT !.loading = TRUE, !.failed = FALSE]
      PROVE  t = [graph |-> g, of |-> o, loading |-> TRUE, failed |-> FALSE]
  BY <1>1, <1>2
<1>3. Loading(h) = [graph |-> g, of |-> o, loading |-> TRUE, failed |-> FALSE]
  BY <1>2 DEF Loading
<1>. QED
  BY <1>3 DEF HeldFormed, g, o

LEMMA ObsoleteFormed ==
    ASSUME NEW r, RequestFormed(r)
    PROVE  RequestFormed(Obsolete(r)) /\ ~Deciding(Obsolete(r))
<1>. DEFINE k == r.kind
            s == r.source
            f == r.filter
            n == r.node
            c == r.current
            a == r.reply
<1>1. r = [kind |-> k, source |-> s, filter |-> f, node |-> n, current |-> c, reply |-> a]
      /\ s \in Sources /\ (a = NoGraph => a \in {Pending, Failed})
  BY DEF RequestFormed
<1>. HIDE DEF k, s, f, n, c, a
<1>2. ASSUME NEW t, t = [r EXCEPT !.current = FALSE]
      PROVE  t = [kind |-> k, source |-> s, filter |-> f, node |-> n, current |-> FALSE, reply |-> a]
  BY <1>1, <1>2
<1>3. Obsolete(r) = [kind |-> k, source |-> s, filter |-> f, node |-> n, current |-> FALSE, reply |-> a]
  BY <1>2 DEF Obsolete
<1>. QED
  BY <1>1, <1>3 DEF RequestFormed, Deciding

LEMMA ReplyFormed ==
    ASSUME NEW r, RequestFormed(r), NEW reply, reply = NoGraph => reply \in {Pending, Failed}
    PROVE  /\ RequestFormed([r EXCEPT !.reply = reply])
           /\ Deciding([r EXCEPT !.reply = reply]) <=> Deciding(r)
           /\ [r EXCEPT !.reply = reply].source = r.source
           /\ [r EXCEPT !.reply = reply].filter = r.filter
<1>. DEFINE k == r.kind
            s == r.source
            f == r.filter
            n == r.node
            c == r.current
            a == r.reply
<1>1. r = [kind |-> k, source |-> s, filter |-> f, node |-> n, current |-> c, reply |-> a]
      /\ s \in Sources
  BY DEF RequestFormed
<1>. HIDE DEF k, s, f, n, c, a
<1>2. [r EXCEPT !.reply = reply] =
          [kind |-> k, source |-> s, filter |-> f, node |-> n, current |-> c, reply |-> reply]
  BY <1>1
<1>. QED
  BY <1>1, <1>2 DEF RequestFormed, Deciding

LEMMA NewLoad ==
    ASSUME NEW s \in Sources, NEW f
    PROVE  /\ RequestFormed(Load(s, f)) /\ Deciding(Load(s, f))
           /\ Load(s, f).source = s /\ Load(s, f).filter = f
BY DEF Load, RequestFormed, Deciding

LEMMA NewRequest ==
    ASSUME NEW k, NEW s \in Sources, NEW f, NEW n
    PROVE  LET r == [kind |-> k, source |-> s, filter |-> f, node |-> n, current |-> TRUE, reply |-> Pending]
           IN  RequestFormed(r) /\ (k # "load" => ~Deciding(r))
BY DEF RequestFormed, Deciding

LEMMA NewExpansion ==
    ASSUME NEW s \in Sources, NEW n, NEW r, r = [Load(s, NoFilter) EXCEPT !.kind = "expand", !.node = n]
    PROVE  RequestFormed(r) /\ ~Deciding(r)
<1>. DEFINE e == [kind |-> "expand", source |-> s, filter |-> NoFilter, node |-> n, current |-> TRUE,
                  reply |-> Pending]
<1>1. r = e
  BY DEF Load
<1>2. RequestFormed(e) /\ ~Deciding(e)
  BY NewRequest, "expand" # "load"
<1>. HIDE DEF e
<1>. QED
  BY <1>1, <1>2

\* The backend answers with a graph.
LEMMA AnswersAreGraphs == ASSUME GraphsAreRecords, NEW r PROVE Answer(r) # NoGraph
<1>1. \A g, nodes, links : PartOf(g, nodes, links) # NoGraph
  BY DEF PartOf, GraphsAreRecords
<1>2. \A s, n, d, l : NeighborsServed(s, n, d, l) # NoGraph
  BY <1>1 DEF NeighborsServed
<1>3. \A s, p, l, k : GraphServed(s, p, l, k).graph # NoGraph
  BY <1>1 DEF GraphServed
<1>. QED
  BY <1>2, <1>3 DEF Answer

LEMMA MergedIsGraph == ASSUME GraphsAreRecords, NEW a, NEW b PROVE MergeGraphs(a, b) # NoGraph
  BY DEF MergeGraphs, GraphsAreRecords

------------------------------------------------------------------------------
(***************************************************************************)
(* The last load decides. Every step that starts one makes the loads       *)
(* before it obsolete; every step that ends one is the end of an obsolete  *)
(* one, or of the one the page waits for.                                  *)
(***************************************************************************)
LEMMA LoadStarted ==
    ASSUME Shape, NEW s \in Sources, NEW f, StartLoad(s, f),
           held' = [held EXCEPT ![s] = Loading(@)], source' = s, filter' = f
    PROVE  LoadInv'
<1>1. /\ requests' = {Obsolete(r) : r \in requests} \cup {Load(s, f)}
  BY DEF StartLoad, Request
<1>2. /\ held' = [x \in Sources |-> held'[x]] /\ \A x \in Sources : HeldFormed(held'[x])
      /\ held'[s].loading
  BY LoadingFormed DEF Shape
<1>3. \A r \in requests' : RequestFormed(r)
  BY <1>1, ObsoleteFormed, NewLoad DEF Shape
<1>4. \A r \in requests' : Deciding(r) => r = Load(s, f)
  BY <1>1, ObsoleteFormed DEF Shape
<1>5. OneDecides'
  BY <1>2, <1>4, NewLoad DEF OneDecides
<1>. QED
  BY <1>2, <1>3, <1>5 DEF LoadInv, Shape, Loaded

LEMMA LoadUntouched ==
    ASSUME LoadInv, UNCHANGED <<page, source, filter, held, requests>>
    PROVE  LoadInv'
BY DEF LoadInv, Shape, OneDecides, Loaded

\* What is held of one source changes, and with it which graph that is.
LEMMA HeldReplaced ==
    ASSUME Shape, NEW s \in Sources, NEW new, HeldFormed(new), held' = [held EXCEPT ![s] = new]
    PROVE  /\ held' = [x \in Sources |-> held'[x]] /\ \A x \in Sources : HeldFormed(held'[x])
           /\ held'[s] = new /\ \A x \in Sources \ {s} : held'[x] = held[x]
BY DEF Shape

LEMMA OpenDecides ==
    ASSUME NEW p \in Pages, NEW s \in Sources, NEW f, NEW ask, NEW import, Open(p, s, f, ask, import)
    PROVE  LoadInv'
<1>1. /\ source' = s /\ filter' = f /\ requests' = {Load(s, f)}
      /\ held' = [x \in Sources |-> IF x = s THEN Loading(Unloaded) ELSE Unloaded]
  BY DEF Open
<1>2. HeldFormed(Unloaded)
  BY DEF HeldFormed, Unloaded
<1>3. HeldFormed(Loading(Unloaded)) /\ Loading(Unloaded).loading
  BY <1>2, LoadingFormed
<1>4. Shape' /\ held'[s].loading
  BY <1>1, <1>2, <1>3, NewLoad DEF Shape
<1>. QED
  BY <1>1, <1>4, NewLoad DEF LoadInv, OneDecides, Loaded

LEMMA CloseDecides == ASSUME LoadInv, ClosePage PROVE LoadInv'
<1>1. HeldFormed(Unloaded)
  BY DEF HeldFormed, Unloaded
<1>. QED
  BY <1>1 DEF LoadInv, Shape, ClosePage

LEMMA RepliesDecide ==
    ASSUME GraphsAreRecords, LoadInv, NEW r \in requests, ServerReplies(r)
    PROVE  LoadInv'
<1>1. PICK reply \in {Answer(r), Failed} : requests' = (requests \ {r}) \cup {[r EXCEPT !.reply = reply]}
  BY DEF ServerReplies
<1>2. reply = NoGraph => reply \in {Pending, Failed}
  BY AnswersAreGraphs
<1>. DEFINE t == [r EXCEPT !.reply = reply]
<1>3. /\ RequestFormed(t) /\ (Deciding(t) <=> Deciding(r))
      /\ t.source = r.source /\ t.filter = r.filter
  BY <1>2, ReplyFormed DEF LoadInv, Shape
<1>4. requests' = (requests \ {r}) \cup {t}
  BY <1>1
<1>. HIDE DEF t
<1>5. UNCHANGED <<page, source, filter, held>>
  BY DEF ServerReplies
<1>6. Shape'
  BY <1>3, <1>4, <1>5 DEF LoadInv, Shape
<1>7. ASSUME page # "none" PROVE OneDecides'
  BY <1>3, <1>4, <1>5, <1>7 DEF LoadInv, OneDecides
<1>. QED
  BY <1>5, <1>6, <1>7 DEF LoadInv, Loaded

LEMMA LoadEndDecides == ASSUME LoadInv, page # "none", NEW r \in requests, LoadEnds(r) PROVE LoadInv'
<1>1. /\ UNCHANGED <<page, source, filter>> /\ requests' = requests \ {r}
      /\ r.kind = "load" /\ r.reply # Pending /\ RequestFormed(r)
  BY DEF LoadEnds, LoadInv, Shape
<1>2. CASE ~Wanted(r)
  <2>1. UNCHANGED held
    BY <1>2 DEF LoadEnds
  <2>. QED
    BY <1>1, <2>1 DEF LoadInv, Shape, OneDecides, Loaded
<1>3. CASE Wanted(r)
  <2>. DEFINE failed == r.reply = Failed
              g == IF ~failed THEN r.reply
                   ELSE IF r.source = "imported" THEN NoGraph ELSE held[r.source].graph
              o == IF failed THEN held[r.source].of ELSE r.filter
              new == [graph |-> g, of |-> o, loading |-> FALSE, failed |-> failed]
  <2>1. held' = [held EXCEPT ![r.source] = new]
    BY <1>3 DEF LoadEnds
  <2>2. /\ Deciding(r) /\ r.source = source /\ r.filter = filter
        /\ \A q \in requests' : ~Deciding(q)
    BY <1>1, <1>3 DEF Wanted, Deciding, LoadInv, OneDecides
  <2>3. r.reply # NoGraph \/ failed
    BY <1>1 DEF RequestFormed
  <2>4. failed \/ (g # NoGraph /\ o = filter)
    <3>1. CASE r.reply = Failed
      BY <3>1
    <3>2. CASE r.reply # Failed
      <4>1. g = r.reply /\ o = r.filter
        BY <3>2
      <4>. HIDE DEF g, o, new
      <4>. QED
        BY <2>2, <2>3, <3>2, <4>1
    <3>. QED
      BY <3>1, <3>2
  <2>. HIDE DEF g, o
  <2>5. HeldFormed(new) /\ new.graph = g /\ new.of = o /\ new.failed = failed
    BY DEF HeldFormed
  <2>. HIDE DEF new, failed
  <2>6. /\ held' = [x \in Sources |-> held'[x]] /\ \A x \in Sources : HeldFormed(held'[x])
        /\ held'[source] = new
    BY <2>1, <2>2, <2>5, HeldReplaced DEF LoadInv, Shape
  <2>7. Shape'
    BY <1>1, <2>6 DEF LoadInv, Shape
  <2>. QED
    BY <1>1, <2>2, <2>4, <2>5, <2>6, <2>7 DEF LoadInv, OneDecides, Loaded
<1>. QED
  BY <1>2, <1>3

LEMMA ExpandEndDecides ==
    ASSUME GraphsAreRecords, LoadInv, page # "none", NEW r \in requests, ExpandEnds(r)
    PROVE  LoadInv'
<1>1. /\ UNCHANGED <<page, source, filter>> /\ requests' = requests \ {r}
      /\ r.reply # Pending /\ RequestFormed(r)
  BY DEF ExpandEnds, LoadInv, Shape
<1>. DEFINE old == held["neo4j"]
           lost == [old EXCEPT !.failed = TRUE]
           found == [old EXCEPT !.graph = r.reply]
           grown == [old EXCEPT !.graph = MergeGraphs(@, r.reply)]
<1>. DEFINE new == IF r.reply = Failed THEN lost ELSE IF old.graph = NoGraph THEN found ELSE grown
<1>2. held' = [held EXCEPT !["neo4j"] = new]
  BY DEF ExpandEnds
<1>. HIDE DEF lost, found, grown
<1>3. HeldFormed(old) /\ "neo4j" \in Sources
  BY DEF LoadInv, Shape, Sources
<1>4. r.reply # Failed => r.reply # NoGraph
  BY <1>1 DEF RequestFormed
<1>5. /\ HeldFormed(new) /\ new.loading = old.loading /\ new.of = old.of
      /\ new.failed \/ (new.graph # NoGraph /\ new.failed = old.failed)
  <2>. DEFINE g == old.graph
              o == old.of
              l == old.loading
              f == old.failed
              merged == MergeGraphs(g, r.reply)
  <2>1. old = [graph |-> g, of |-> o, loading |-> l, failed |-> f] /\ l \in BOOLEAN /\ f \in BOOLEAN
    BY <1>3 DEF HeldFormed
  <2>2. merged # NoGraph
    BY MergedIsGraph
  <2>3. CASE r.reply = Failed
    <3>1. new = lost
      BY <2>3
    <3>. HIDE DEF g, o, l, f, merged, new
    <3>2. new = [graph |-> g, of |-> o, loading |-> l, failed |-> TRUE]
      <4>. HIDE DEF old
      <4>. QED
        BY <2>1, <3>1 DEF lost
    <3>. QED
      BY <2>1, <3>2 DEF HeldFormed, o, l, f
  <2>4. CASE r.reply # Failed /\ g = NoGraph
    <3>1. new = found
      BY <2>4
    <3>. HIDE DEF g, o, l, f, merged, new
    <3>2. new = [graph |-> r.reply, of |-> o, loading |-> l, failed |-> f]
      <4>. HIDE DEF old
      <4>. QED
        BY <2>1, <3>1 DEF found
    <3>. QED
      BY <1>4, <2>1, <2>4, <3>2 DEF HeldFormed, o, l, f
  <2>5. CASE r.reply # Failed /\ g # NoGraph
    <3>1. new = grown
      BY <2>5
    <3>0. merged = MergeGraphs(old.graph, r.reply)
      OBVIOUS
    <3>. HIDE DEF g, o, l, f, merged, new
    <3>2. new = [graph |-> merged, of |-> o, loading |-> l, failed |-> f]
      <4>. HIDE DEF old
      <4>. QED
        BY <2>1, <3>0, <3>1 DEF grown
    <3>. QED
      BY <2>1, <2>2, <3>2 DEF HeldFormed, o, l, f
  <2>. QED
    BY <2>3, <2>4, <2>5
<1>. HIDE DEF new
<1>6. /\ held' = [x \in Sources |-> held'[x]] /\ \A x \in Sources : HeldFormed(held'[x])
      /\ held'["neo4j"] = new /\ \A x \in Sources \ {"neo4j"} : held'[x] = held[x]
  BY <1>2, <1>3, <1>5, HeldReplaced DEF LoadInv
<1>7. Shape'
  BY <1>1, <1>6 DEF LoadInv, Shape
<1>8. /\ held'[source].loading = held[source].loading /\ held'[source].of = held[source].of
      /\ \/ held'[source].failed
         \/ held'[source].graph = held[source].graph /\ held'[source].failed = held[source].failed
         \/ held'[source].graph # NoGraph /\ held'[source].failed = held[source].failed
  BY <1>5, <1>6 DEF LoadInv, Shape
<1>9. OneDecides'
  BY <1>1, <1>8 DEF LoadInv, OneDecides
<1>. QED
  BY <1>1, <1>7, <1>8, <1>9 DEF LoadInv, Loaded

LEMMA FilterDecides == ASSUME LoadInv, FilterTypes PROVE LoadInv'
<1>1. PICK f : \E w :
         LET reload == source = "neo4j" /\ f # filter
         IN  /\ filter' = IF source = "neo4j" THEN f ELSE filter
             /\ IF reload THEN StartLoad(source, f) ELSE UNCHANGED <<requests, spent>>
             /\ held' = IF reload THEN [held EXCEPT ![source] = Loading(@)] ELSE held
  BY DEF FilterTypes
<1>2. UNCHANGED <<page, source>>
  BY DEF FilterTypes
<1>3. CASE source = "neo4j" /\ f # filter
  BY <1>1, <1>2, <1>3, LoadStarted DEF LoadInv, Shape
<1>4. CASE ~(source = "neo4j" /\ f # filter)
  BY <1>1, <1>2, <1>4, LoadUntouched
<1>. QED
  BY <1>3, <1>4

LEMMA ExpandDecides == ASSUME LoadInv, NEW n, Expand(n) PROVE LoadInv'
<1>1. UNCHANGED <<page, source, filter, held>> /\ source \in Sources
  BY DEF Expand, LoadInv, Shape
<1>2. CASE source = "neo4j"
  <2>1. PICK r : r = [Load(source, NoFilter) EXCEPT !.kind = "expand", !.node = n]
                 /\ requests' = requests \cup {r}
    BY <1>2 DEF Expand, Request
  <2>2. RequestFormed(r) /\ ~Deciding(r)
    BY <1>1, <2>1, NewExpansion
  <2>. QED
    BY <1>1, <2>1, <2>2 DEF LoadInv, Shape, OneDecides, Loaded
<1>3. CASE source # "neo4j"
  BY <1>1, <1>3, LoadUntouched DEF Expand
<1>. QED
  BY <1>2, <1>3

LEMMA LoadInit == Init => LoadInv
<1>1. HeldFormed(Unloaded)
  BY DEF HeldFormed, Unloaded
<1>. QED
  BY <1>1 DEF Init, LoadInv, Shape

\* A request is under way only while a page is open.
Quiet == page = "none" => requests = {}

LEMMA QuietKept == ASSUME Quiet, Next PROVE Quiet'
<1>1. CASE OpenPage
  BY <1>1 DEF OpenPage, Open, Pages, Quiet
<1>2. CASE ClosePage
  BY <1>2 DEF ClosePage, Quiet
<1>3. CASE Retry \/ \E s \in Sources : SwitchSource(s)
  BY <1>3 DEF Retry, SwitchSource, Quiet
<1>4. CASE \E r \in requests : ServerReplies(r) \/ LoadEnds(r) \/ ExpandEnds(r)
  BY <1>4 DEF ServerReplies, LoadEnds, ExpandEnds, Quiet
<1>5. CASE ServerChanges \/ SessionEnds \/ SelectQuestion \/ ExecuteQuestion \/ SelectHost \/ OpenUser
  BY <1>5 DEF ServerChanges, SessionEnds, SelectQuestion, ExecuteQuestion, SelectHost, OpenUser, Quiet
<1>6. CASE FilterTypes \/ \E n \in Ends : Expand(n)
  BY <1>6 DEF FilterTypes, Expand, InWorkspace, WorkspaceReady, Ready, Quiet
<1>7. CASE ChangeView \/ MoveFocus \/ \E n \in Ends : Collapse(n) \/ Hide(n)
  BY <1>7 DEF ChangeView, MoveFocus, Collapse, Hide, UnchangedButWorkspace, Quiet
<1>8. CASE \E kind \in {"path", "attack", "blast", "focus"}, a \in Ends, b \in Ends : Investigate(kind, a, b)
  BY <1>8 DEF Investigate, UnchangedButWorkspace, Quiet
<1>. QED
  BY <1>1, <1>2, <1>3, <1>4, <1>5, <1>6, <1>7, <1>8 DEF Next

LEMMA SwitchDecides == ASSUME LoadInv, NEW s \in Sources, SwitchSource(s) \/ (Retry /\ s = source) PROVE LoadInv'
<1>1. /\ StartLoad(s, filter) /\ held' = [held EXCEPT ![s] = Loading(@)]
      /\ source' = s /\ filter' = filter
  BY DEF SwitchSource, Retry
<1>. QED
  BY <1>1, LoadStarted DEF LoadInv

\* Every step keeps what decides the load.
LEMMA LoadStep == ASSUME GraphsAreRecords, LoadInv, Quiet, Next PROVE LoadInv'
<1>1. CASE OpenPage
  BY <1>1, OpenDecides DEF OpenPage
<1>2. CASE ClosePage
  BY <1>2, CloseDecides
<1>3. CASE Retry \/ \E s \in Sources : SwitchSource(s)
  BY <1>3, SwitchDecides DEF LoadInv, Shape
<1>4. CASE \E r \in requests : ServerReplies(r) \/ LoadEnds(r) \/ ExpandEnds(r)
  BY <1>4, RepliesDecide, LoadEndDecides, ExpandEndDecides DEF Quiet
<1>5. CASE ServerChanges \/ SessionEnds \/ SelectQuestion \/ ExecuteQuestion \/ SelectHost \/ OpenUser
  BY <1>5, LoadUntouched
     DEF ServerChanges, SessionEnds, SelectQuestion, ExecuteQuestion, SelectHost, OpenUser
<1>6. CASE FilterTypes \/ \E n \in Ends : Expand(n)
  BY <1>6, FilterDecides, ExpandDecides
<1>7. CASE ChangeView \/ MoveFocus \/ \E n \in Ends : Collapse(n) \/ Hide(n)
  BY <1>7, LoadUntouched DEF ChangeView, MoveFocus, Collapse, Hide, UnchangedButWorkspace
<1>8. CASE \E kind \in {"path", "attack", "blast", "focus"}, a \in Ends, b \in Ends : Investigate(kind, a, b)
  BY <1>8, LoadUntouched DEF Investigate, UnchangedButWorkspace
<1>. QED
  BY <1>1, <1>2, <1>3, <1>4, <1>5, <1>6, <1>7, <1>8 DEF Next

\* Whatever answers come late or fail and however often the source, the filter or the
\* graph of the backend changes meanwhile, a page that neither loads nor has failed holds
\* the graph it asked for last, with the filter chosen now, and nothing under way will
\* replace it (the generation counter of useGraphData, the flag of
\* the effect that loads an imported graph).
THEOREM TheLatestLoadDecides == ASSUME GraphsAreRecords PROVE Spec => []LatestLoadWins
<1>1. Init => LoadInv /\ Quiet
  BY LoadInit DEF Init, Quiet
<1>2. LoadInv /\ Quiet /\ [Next]_vars => (LoadInv /\ Quiet)'
  <2>1. ASSUME LoadInv, Quiet, Next PROVE (LoadInv /\ Quiet)'
    BY <2>1, LoadStep, QuietKept
  <2>2. ASSUME LoadInv, Quiet, UNCHANGED vars PROVE (LoadInv /\ Quiet)'
    BY <2>2, LoadUntouched DEF vars, Quiet
  <2>. QED
    BY <2>1, <2>2
<1>3. LoadInv => LatestLoadWins
  BY DEF LoadInv, OneDecides, Loaded, Deciding, LatestLoadWins, Ready
<1>. QED
  BY <1>1, <1>2, <1>3, PTL DEF Spec

------------------------------------------------------------------------------
(***************************************************************************)
(* What the views show. A cache is right when it holds, of each question   *)
(* in it, what is computed from the graph its module has; then what is     *)
(* shown was computed from that graph, which is the one the page holds.    *)
(***************************************************************************)
Right(p, e) ==
    /\ e = [graph |-> e.graph, cache |-> e.cache]
    /\ p \in Cached /\ e.graph # NoGraph =>
           \A a \in DOMAIN e.cache : e.cache[a] = Compute(p, e.graph, a)

EnginesRight == engine = [p \in Engines |-> engine[p]] /\ \A p \in Engines : Right(p, engine[p])

ShownFormed(v) == v = [ask |-> v.ask, view |-> v.view, missing |-> v.missing]

ViewInv == EnginesRight /\ ShownFormed(shown) /\ AnswersFollowTheGraph

LEMMA FreshRight == ASSUME NEW p, NEW g PROVE Right(p, Fresh(g)) /\ Fresh(g).graph = g
BY DEF Right, Fresh

LEMMA ResultRight ==
    ASSUME NEW p, NEW e, NEW ask, Right(p, e)
    PROVE  Result(e, p, ask) = IF e.graph = NoGraph THEN NoView ELSE Compute(p, e.graph, ask)
BY DEF Right, Result

LEMMA RememberRight ==
    ASSUME NEW p, NEW e, NEW ask, Right(p, e)
    PROVE  Right(p, Remember(e, p, ask)) /\ Remember(e, p, ask).graph = e.graph
<1>. DEFINE g == e.graph
            c == e.cache
            result == Result(e, p, ask)
            more == [a \in DOMAIN c \cup {ask} |-> IF a = ask THEN result ELSE c[a]]
<1>1. CASE p \notin Cached \/ result = NoView
  BY <1>1 DEF Remember
<1>2. CASE p \in Cached /\ result # NoView
  <2>1. g # NoGraph /\ result = Compute(p, g, ask)
    BY <1>2, ResultRight
  <2>2. \A a \in DOMAIN more : more[a] = Compute(p, g, a)
    BY <1>2, <2>1 DEF Right
  <2>3. Remember(e, p, ask) = [e EXCEPT !.cache = more]
    BY <1>2 DEF Remember
  <2>4. e = [graph |-> g, cache |-> c]
    BY DEF Right
  <2>. HIDE DEF g, c, result, more
  <2>5. ASSUME NEW t, t = [e EXCEPT !.cache = more] PROVE t = [graph |-> g, cache |-> more]
    BY <2>4, <2>5
  <2>6. Remember(e, p, ask) = [graph |-> g, cache |-> more]
    BY <2>3, <2>5
  <2>. QED
    BY <2>2, <2>6 DEF Right, g
<1>. QED
  BY <1>1, <1>2

LEMMA ShowFormed ==
    ASSUME NEW old, ShownFormed(old), NEW ask, NEW result
    PROVE  /\ ShownFormed(Show(old, ask, result)) /\ Show(old, ask, result).ask = ask
           /\ result = NoView => Show(old, ask, result).missing /\ Show(old, ask, result).view = old.view
           /\ result # NoView => ~Show(old, ask, result).missing /\ Show(old, ask, result).view = result
<1>. DEFINE k == old.ask
            v == old.view
            m == old.missing
<1>1. old = [ask |-> k, view |-> v, missing |-> m]
  BY DEF ShownFormed
<1>2. CASE result = NoView
  <2>1. Show(old, ask, result) = [old EXCEPT !.ask = ask, !.missing = TRUE]
    BY <1>2 DEF Show
  <2>. HIDE DEF k, v, m
  <2>2. ASSUME NEW t, t = [old EXCEPT !.ask = ask, !.missing = TRUE]
        PROVE  t = [ask |-> ask, view |-> v, missing |-> TRUE]
    BY <1>1, <2>2
  <2>3. Show(old, ask, result) = [ask |-> ask, view |-> v, missing |-> TRUE]
    BY <2>1, <2>2
  <2>. QED
    BY <1>2, <2>3 DEF ShownFormed, v
<1>3. CASE result # NoView
  BY <1>3 DEF Show, ShownFormed
<1>. QED
  BY <1>2, <1>3

\* A page asks its view's module, which may have been given another graph just before.
LEMMA LookUpRight ==
    ASSUME EnginesRight, NEW p \in Engines, NEW e, Right(p, e), NEW old, ShownFormed(old), NEW ask,
           LookUp(p, e, old, ask)
    PROVE  /\ EnginesRight' /\ ShownFormed(shown)' /\ engine'[p].graph = e.graph
           /\ Answered(p)'
           /\ old.view = NoView => shown'.view = NoView \/ shown'.view = FromModule(p)'
<1>1. Right(p, Remember(e, p, ask)) /\ Remember(e, p, ask).graph = e.graph
  BY RememberRight
<1>2. engine' = [engine EXCEPT ![p] = Remember(e, p, ask)]
  BY DEF LookUp
<1>3. EnginesRight' /\ engine'[p].graph = e.graph
  BY <1>1, <1>2 DEF EnginesRight
<1>. DEFINE result == Result(e, p, ask)
            now == Show(old, ask, result)
<1>4. result = IF e.graph = NoGraph THEN NoView ELSE Compute(p, e.graph, ask)
  BY ResultRight
<1>5. shown' = now
  BY DEF LookUp
<1>6. /\ ShownFormed(now) /\ now.ask = ask
      /\ result = NoView => now.missing /\ now.view = old.view
      /\ result # NoView => ~now.missing /\ now.view = result
  BY ShowFormed
<1>. HIDE DEF result, now
<1>7. FromModule(p)' = result
  BY <1>3, <1>4, <1>5, <1>6 DEF FromModule
<1>. QED
  BY <1>3, <1>5, <1>6, <1>7 DEF Answered

LEMMA GraphSet ==
    ASSUME EnginesRight, NEW p \in Engines, NEW g, engine' = [engine EXCEPT ![p] = SetGraph(@, g)]
    PROVE  EnginesRight' /\ engine'[p].graph = g
BY FreshRight DEF EnginesRight, SetGraph

LEMMA ProfileRight ==
    ASSUME EnginesRight, ShownFormed(shown), NEW h, HeldFormed(h), NEW ask, ProfileEffect(h, ask)
    PROVE  /\ EnginesRight' /\ ShownFormed(shown)'
           /\ ~h.loading /\ ~h.failed /\ h.graph # NoGraph =>
                  engine'["profile"].graph = h.graph /\ Answered("profile")'
<1>1. CASE h.loading
  <2>1. shown' = [shown EXCEPT !.ask = ask] /\ UNCHANGED engine
    BY <1>1 DEF ProfileEffect
  <2>. DEFINE k == shown.ask
              v == shown.view
              m == shown.missing
  <2>2. shown = [ask |-> k, view |-> v, missing |-> m]
    BY DEF ShownFormed
  <2>. HIDE DEF k, v, m
  <2>3. shown' = [ask |-> ask, view |-> v, missing |-> m]
    BY <2>1, <2>2
  <2>. QED
    BY <1>1, <2>1, <2>3 DEF EnginesRight, ShownFormed
<1>2. CASE ~h.loading /\ (h.failed \/ h.graph = NoGraph)
  <2>1. shown' = [ask |-> ask, view |-> NoView, missing |-> TRUE] /\ UNCHANGED engine
    BY <1>2 DEF ProfileEffect
  <2>. QED
    BY <1>2, <2>1 DEF EnginesRight, ShownFormed
<1>3. CASE ~h.loading /\ ~h.failed /\ h.graph # NoGraph
  <2>1. LookUp("profile", Fresh(h.graph), shown, ask)
    BY <1>3 DEF ProfileEffect, SetGraph
  <2>2. Right("profile", Fresh(h.graph)) /\ Fresh(h.graph).graph = h.graph /\ "profile" \in Engines
    BY FreshRight DEF Engines, Pages
  <2>. QED
    BY <1>3, <2>1, <2>2, LookUpRight
<1>. QED
  BY <1>1, <1>2, <1>3

\* What the three pages with a view must keep, one by one.
LEMMA ByPage ==
    ASSUME EnginesRight', ShownFormed(shown)',
           page' = "questions" =>
               Follows("questions")' /\ (shown'.view = NoView \/ shown'.view = FromModule("questions")'),
           page' = "linux" => Follows("linux")' /\ (shown'.ask = NoAsk \/ Answered("linux")'),
           page' = "profile" /\ Ready("profile")' /\ Holding' # NoGraph =>
               Follows("profile")' /\ Answered("profile")'
    PROVE  ViewInv'
BY DEF ViewInv, AnswersFollowTheGraph, Current, Engines, Pages

LEMMA OfPage ==
    ASSUME ViewInv
    PROVE  /\ EnginesRight /\ ShownFormed(shown)
           /\ page = "questions" =>
                  Follows("questions") /\ (shown.view = NoView \/ shown.view = FromModule("questions"))
           /\ page = "linux" => Follows("linux") /\ (shown.ask = NoAsk \/ Answered("linux"))
BY DEF ViewInv, AnswersFollowTheGraph, Current, Engines, Pages

\* What a view shows of its module stays right while both stay as they are.
LEMMA SameAnswers ==
    ASSUME UNCHANGED <<engine, shown>>
    PROVE  /\ EnginesRight => EnginesRight'
           /\ ShownFormed(shown) => ShownFormed(shown)'
           /\ \A p : FromModule(p)' = FromModule(p) /\ (Answered(p) => Answered(p)')
BY DEF EnginesRight, ShownFormed, FromModule, Answered

(***************************************************************************)
(* What the effects of a change leave the open page with, h being what it  *)
(* holds after the step.                                                   *)
(***************************************************************************)
LEMMA EffectsRight ==
    ASSUME ViewInv, NEW h, HeldFormed(h), NEW changed \in BOOLEAN, Effects(h, changed),
           changed \/ h.graph = NoGraph \/ h.graph = Holding,
           page' = page, held'[source'] = h
    PROVE  ViewInv'
<1>. DEFINE g == h.graph
<1>0. EnginesRight /\ ShownFormed(shown)
  BY DEF ViewInv
<1>1. Holding' = g
  BY DEF Holding
<1>2. CASE page = "questions"
  <2>1. QuestionsEffect(h, changed)
    BY <1>2 DEF Effects
  <2>2. CASE changed /\ g # NoGraph
    <3>1. engine' = [engine EXCEPT !["questions"] = SetGraph(@, g)] /\ shown' = Nothing
      BY <2>1, <2>2 DEF QuestionsEffect
    <3>2. EnginesRight' /\ engine'["questions"].graph = g
      BY <1>0, <3>1, GraphSet DEF Engines, Pages
    <3>3. ShownFormed(shown)' /\ shown'.view = NoView
      BY <3>1 DEF Nothing, ShownFormed
    <3>. QED
      BY <1>1, <1>2, <3>2, <3>3, ByPage DEF Follows
  <2>3. CASE ~(changed /\ g # NoGraph)
    <3>1. UNCHANGED <<engine, shown>>
      BY <2>1, <2>3 DEF QuestionsEffect
    <3>2. g = NoGraph \/ g = Holding
      BY <2>3
    <3>3. Follows("questions") /\ (shown.view = NoView \/ shown.view = FromModule("questions"))
      BY <1>2, OfPage
    <3>4. Follows("questions")'
      BY <1>1, <3>1, <3>2, <3>3 DEF Follows
    <3>. QED
      BY <1>0, <1>2, <3>1, <3>3, <3>4, SameAnswers, ByPage
  <2>. QED
    BY <2>2, <2>3
<1>3. CASE page = "linux"
  <2>1. LinuxEffect(h, changed)
    BY <1>3 DEF Effects
  <2>2. CASE changed /\ g # NoGraph /\ shown.ask = NoAsk
    <3>1. engine' = [engine EXCEPT !["linux"] = SetGraph(@, g)] /\ shown' = shown
      BY <2>1, <2>2 DEF LinuxEffect
    <3>2. EnginesRight' /\ engine'["linux"].graph = g
      BY <1>0, <3>1, GraphSet DEF Engines, Pages
    <3>3. ShownFormed(shown)'
      BY <1>0, <3>1 DEF ShownFormed
    <3>. QED
      BY <1>1, <1>3, <2>2, <3>1, <3>2, <3>3, ByPage DEF Follows
  <2>3. CASE changed /\ g # NoGraph /\ shown.ask # NoAsk
    <3>1. LookUp("linux", Fresh(g), shown, shown.ask)
      BY <2>1, <2>3 DEF LinuxEffect, SetGraph
    <3>2. Right("linux", Fresh(g)) /\ Fresh(g).graph = g /\ "linux" \in Engines
      BY FreshRight DEF Engines, Pages
    <3>3. EnginesRight' /\ ShownFormed(shown)' /\ engine'["linux"].graph = g /\ Answered("linux")'
      BY <1>0, <3>1, <3>2, LookUpRight
    <3>. QED
      BY <1>1, <1>3, <3>3, ByPage DEF Follows
  <2>4. CASE ~changed \/ g = NoGraph
    <3>1. UNCHANGED <<engine, shown>>
      BY <2>1, <2>4 DEF LinuxEffect
    <3>2. g = NoGraph \/ g = Holding
      BY <2>4
    <3>3. Follows("linux") /\ (shown.ask = NoAsk \/ Answered("linux"))
      BY <1>3, OfPage
    <3>4. Follows("linux")'
      BY <1>1, <3>1, <3>2, <3>3 DEF Follows
    <3>. QED
      BY <1>0, <1>3, <3>1, <3>3, <3>4, SameAnswers, ByPage
  <2>. QED
    BY <2>2, <2>3, <2>4
<1>4. CASE page = "profile"
  <2>1. ProfileEffect(h, shown.ask)
    BY <1>4 DEF Effects
  <2>2. /\ EnginesRight' /\ ShownFormed(shown)'
        /\ ~h.loading /\ ~h.failed /\ g # NoGraph =>
               engine'["profile"].graph = g /\ Answered("profile")'
    BY <1>0, <2>1, ProfileRight
  <2>3. Ready("profile")' => ~h.loading /\ ~h.failed
    BY DEF Ready
  <2>. QED
    BY <1>1, <1>4, <2>2, <2>3, ByPage DEF Follows
<1>5. CASE page \notin Engines
  <2>1. UNCHANGED <<engine, shown>>
    BY <1>5 DEF Effects, Engines, Pages
  <2>2. page' # "questions" /\ page' # "linux" /\ page' # "profile"
    BY <1>5 DEF Engines, Pages
  <2>. QED
    BY <1>0, <2>1, <2>2, SameAnswers, ByPage
<1>. QED
  BY <1>2, <1>3, <1>4, <1>5 DEF Engines, Pages

LEMMA ViewUntouched ==
    ASSUME ViewInv, UNCHANGED <<page, engine, shown>>, held'[source'] = held[source]
    PROVE  ViewInv'
<1>1. \A p : (Follows(p) => Follows(p)') /\ (Ready(p)' => Ready(p)) /\ Holding' = Holding
  BY DEF Follows, Ready, Holding
<1>2. page = "profile" /\ Ready("profile") /\ Holding # NoGraph => Follows("profile") /\ Answered("profile")
  BY DEF ViewInv, AnswersFollowTheGraph, Current, Engines, Pages
<1>. QED
  BY <1>1, <1>2, OfPage, SameAnswers, ByPage

\* The other pages show nothing of a view.
LEMMA NothingToFollow ==
    ASSUME EnginesRight', ShownFormed(shown)', page' \notin Engines
    PROVE  ViewInv'
BY DEF ViewInv, AnswersFollowTheGraph, Current

LEMMA OpenRight ==
    ASSUME ViewInv, NEW p \in Pages, NEW s \in Sources, NEW f, NEW ask, NEW import,
           Open(p, s, f, ask, import)
    PROVE  ViewInv'
<1>1. /\ source' = s
      /\ held' = [x \in Sources |-> IF x = s THEN Loading(Unloaded) ELSE Unloaded]
  BY DEF Open
<1>2. Loading(Unloaded).graph = NoGraph
  <2>1. HeldFormed(Unloaded) /\ Unloaded.graph = NoGraph
    BY DEF HeldFormed, Unloaded
  <2>. QED
    BY <2>1, LoadingFormed
<1>3. Holding' = NoGraph
  BY <1>1, <1>2 DEF Holding
<1>4. ShownFormed(Nothing)
  BY DEF ShownFormed, Nothing
<1>5. page' = p
  BY DEF Open
<1>6. EnginesRight
  BY DEF ViewInv
<1>7. CASE p = "linux" /\ ask # NoAsk
  <2>1. LookUp("linux", engine["linux"], Nothing, ask)
    BY <1>7 DEF Open
  <2>2. "linux" \in Engines /\ Right("linux", engine["linux"])
    BY <1>6 DEF EnginesRight, Engines, Pages
  <2>3. EnginesRight' /\ ShownFormed(shown)' /\ Answered("linux")'
    BY <1>4, <1>6, <2>1, <2>2, LookUpRight
  <2>. QED
    BY <1>3, <1>5, <1>7, <2>3, ByPage DEF Follows
<1>8. CASE ~(p = "linux" /\ ask # NoAsk)
  <2>1. shown' = [Nothing EXCEPT !.ask = ask] /\ UNCHANGED engine
    BY <1>8 DEF Open
  <2>2. shown' = [ask |-> ask, view |-> NoView, missing |-> FALSE]
    BY <2>1 DEF Nothing
  <2>3. ShownFormed(shown)' /\ shown'.view = NoView /\ shown'.ask = ask
    BY <2>2 DEF ShownFormed
  <2>4. EnginesRight'
    BY <1>6, <2>1 DEF EnginesRight
  <2>. QED
    BY <1>3, <1>5, <1>8, <2>3, <2>4, ByPage DEF Follows
<1>. QED
  BY <1>7, <1>8

LEMMA CloseRight == ASSUME ViewInv, ClosePage PROVE ViewInv'
<1>1. page' \notin Engines /\ EnginesRight'
  BY DEF ClosePage, ViewInv, EnginesRight, Engines, Pages
<1>2. ShownFormed(shown)'
  BY DEF ClosePage, ShownFormed, Nothing
<1>. QED
  BY <1>1, <1>2, NothingToFollow

LEMMA SwitchRight == ASSUME ViewInv, Shape, NEW s \in Sources, SwitchSource(s) PROVE ViewInv'
<1>. DEFINE changed == held[s].graph # NoGraph \/ held[source].graph # NoGraph
<1>1. PICK h : h = held'[s]
  OBVIOUS
<1>2. held' = [held EXCEPT ![s] = Loading(@)] /\ source' = s /\ page' = page
  BY DEF SwitchSource
<1>3. Effects(h, changed)
  BY <1>1 DEF SwitchSource
<1>4. HeldFormed(h) /\ h.graph = held[s].graph
  BY <1>1, <1>2, LoadingFormed DEF Shape
<1>5. changed \in BOOLEAN /\ (changed \/ h.graph = NoGraph)
  BY <1>4
<1>. HIDE DEF changed
<1>. QED
  BY <1>1, <1>2, <1>3, <1>4, <1>5, EffectsRight

LEMMA RetryRight == ASSUME ViewInv, Shape, Retry PROVE ViewInv'
<1>1. PICK h : h = held'[source]
  OBVIOUS
<1>2. held' = [held EXCEPT ![source] = Loading(@)] /\ UNCHANGED <<page, source>>
  BY DEF Retry
<1>3. Effects(h, FALSE)
  BY <1>1 DEF Retry
<1>4. HeldFormed(h) /\ h.graph = Holding
  BY <1>1, <1>2, LoadingFormed DEF Shape, Holding
<1>. QED
  BY <1>1, <1>2, <1>3, <1>4, EffectsRight

LEMMA LoadEndRight ==
    ASSUME ViewInv, LoadInv, page # "none", NEW r \in requests, LoadEnds(r)
    PROVE  ViewInv'
<1>1. UNCHANGED <<page, source>>
  BY DEF LoadEnds
<1>2. CASE ~Wanted(r)
  BY <1>1, <1>2, ViewUntouched DEF LoadEnds
<1>3. CASE Wanted(r)
  <2>. DEFINE failed == r.reply = Failed
              g == IF ~failed THEN r.reply
                   ELSE IF r.source = "imported" THEN NoGraph ELSE held[r.source].graph
              o == IF failed THEN held[r.source].of ELSE r.filter
              new == [graph |-> g, of |-> o, loading |-> FALSE, failed |-> failed]
              changed == ~failed \/ g # held[r.source].graph
  <2>1. r.source = source /\ source \in Sources
    BY <1>3 DEF LoadEnds, Wanted, Deciding, LoadInv, OneDecides, Shape
  <2>2. held' = [held EXCEPT ![r.source] = new]
    BY <1>3 DEF LoadEnds
  <2>3. Effects(new, ~failed \/ new.graph # held[r.source].graph)
    BY <1>3, <2>1 DEF LoadEnds
  <2>4. new.graph = g
    OBVIOUS
  <2>5. HeldFormed(new)
    BY DEF HeldFormed
  <2>. HIDE DEF new, g
  <2>6. Effects(new, changed) /\ changed \in BOOLEAN
    BY <2>3, <2>4
  <2>7. changed \/ new.graph = Holding
    BY <2>1, <2>4 DEF Holding
  <2>8. held'[source'] = new
    BY <1>1, <2>1, <2>2 DEF LoadInv, Shape
  <2>. HIDE DEF changed
  <2>. QED
    BY <1>1, <2>5, <2>6, <2>7, <2>8, EffectsRight
<1>. QED
  BY <1>2, <1>3

LEMMA ExpandEndRight ==
    ASSUME GraphsAreRecords, ViewInv, LoadInv, LoadInv', page # "none", NEW r \in requests, ExpandEnds(r)
    PROVE  ViewInv'
<1>1. UNCHANGED <<page, source>> /\ source \in Sources
  BY DEF ExpandEnds, LoadInv, Shape
<1>2. PICK new : /\ held' = [held EXCEPT !["neo4j"] = new]
                 /\ r.reply = Failed => new = [held["neo4j"] EXCEPT !.failed = TRUE]
                 /\ IF source = "neo4j" THEN Effects(new, r.reply # Failed)
                    ELSE UNCHANGED <<engine, shown, workspace>>
  BY DEF ExpandEnds
<1>3. CASE source = "neo4j"
  <2>1. held'[source'] = new
    BY <1>1, <1>2, <1>3 DEF LoadInv, Shape
  <2>2. HeldFormed(new)
    BY <1>1, <1>3, <2>1 DEF LoadInv, Shape
  <2>3. r.reply = Failed => new.graph = Holding
    <3>. DEFINE old == held["neo4j"]
                g == old.graph
                o == old.of
                l == old.loading
                f == old.failed
    <3>1. old = [graph |-> g, of |-> o, loading |-> l, failed |-> f]
      BY <1>1, <1>3 DEF LoadInv, Shape, HeldFormed
    <3>2. r.reply = Failed => new = [old EXCEPT !.failed = TRUE]
      BY <1>2
    <3>3. Holding = g
      BY <1>3 DEF Holding
    <3>. HIDE DEF old, g, o, l, f
    <3>. QED
      BY <3>1, <3>2, <3>3
  <2>. QED
    BY <1>1, <1>2, <1>3, <2>1, <2>2, <2>3, EffectsRight
<1>4. CASE source # "neo4j"
  <2>1. held'[source] = held[source] /\ UNCHANGED <<engine, shown>>
    BY <1>1, <1>2, <1>4 DEF LoadInv, Shape
  <2>. QED
    BY <1>1, <2>1, ViewUntouched
<1>. QED
  BY <1>3, <1>4

LEMMA ExecuteRight == ASSUME ViewInv, ExecuteQuestion PROVE ViewInv'
<1>1. UNCHANGED <<page, source, held>> /\ page = "questions" /\ Holding' = Holding
  BY DEF ExecuteQuestion, Holding
<1>2. ShownFormed(Nothing) /\ Nothing.view = NoView
  BY DEF ShownFormed, Nothing
<1>3. EnginesRight /\ Follows("questions")
  BY <1>1, OfPage
<1>4. CASE Holding = NoGraph
  <2>1. shown' = Nothing /\ UNCHANGED engine
    BY <1>4 DEF ExecuteQuestion
  <2>2. EnginesRight' /\ ShownFormed(shown)'
    BY <1>2, <1>3, <2>1 DEF EnginesRight, ShownFormed
  <2>. QED
    BY <1>1, <1>2, <1>4, <2>1, <2>2, ByPage DEF Follows
<1>5. CASE Holding # NoGraph
  <2>1. PICK ask \in Asks("questions", engine["questions"].graph) :
            LookUp("questions", engine["questions"], Nothing, ask)
    BY <1>5 DEF ExecuteQuestion
  <2>2. "questions" \in Engines /\ Right("questions", engine["questions"])
    BY <1>3 DEF EnginesRight, Engines, Pages
  <2>3. /\ EnginesRight' /\ ShownFormed(shown)'
        /\ engine'["questions"].graph = engine["questions"].graph
        /\ shown'.view = NoView \/ shown'.view = FromModule("questions")'
    BY <1>2, <1>3, <2>1, <2>2, LookUpRight
  <2>. QED
    BY <1>1, <1>3, <2>3, ByPage DEF Follows
<1>. QED
  BY <1>4, <1>5

LEMMA HostRight == ASSUME ViewInv, SelectHost PROVE ViewInv'
<1>1. UNCHANGED <<page, source, held>> /\ page = "linux" /\ Holding' = Holding
  BY DEF SelectHost, Ready, Holding
<1>2. PICK ask : LookUp("linux", engine["linux"], shown, ask)
  BY DEF SelectHost
<1>3. EnginesRight /\ ShownFormed(shown) /\ Follows("linux")
  BY <1>1, OfPage
<1>4. "linux" \in Engines /\ Right("linux", engine["linux"])
  BY <1>3 DEF EnginesRight, Engines, Pages
<1>5. /\ EnginesRight' /\ ShownFormed(shown)' /\ engine'["linux"].graph = engine["linux"].graph
      /\ Answered("linux")'
  BY <1>2, <1>3, <1>4, LookUpRight
<1>. QED
  BY <1>1, <1>3, <1>5, ByPage DEF Follows

LEMMA UserRight == ASSUME ViewInv, Shape, OpenUser PROVE ViewInv'
<1>1. UNCHANGED <<page, source, held>> /\ page = "profile" /\ Holding' = Holding
  BY DEF OpenUser, Holding
<1>2. PICK ask : ProfileEffect(held[source], ask)
  BY DEF OpenUser
<1>3. /\ EnginesRight' /\ ShownFormed(shown)'
      /\ ~held[source].loading /\ ~held[source].failed /\ Holding # NoGraph =>
             engine'["profile"].graph = Holding /\ Answered("profile")'
  BY <1>2, ProfileRight DEF ViewInv, Shape, Holding
<1>4. Ready("profile")' => ~held[source].loading /\ ~held[source].failed
  BY <1>1 DEF Ready
<1>. QED
  BY <1>1, <1>3, <1>4, ByPage DEF Follows

LEMMA QuestionDropped == ASSUME ViewInv, SelectQuestion PROVE ViewInv'
<1>1. /\ UNCHANGED <<page, source, held, engine>> /\ page = "questions" /\ Holding' = Holding
      /\ shown' = Nothing
  BY DEF SelectQuestion, Holding
<1>2. ShownFormed(shown)' /\ shown'.view = NoView
  BY <1>1 DEF ShownFormed, Nothing
<1>3. EnginesRight' /\ Follows("questions")'
  BY <1>1, OfPage DEF EnginesRight, Follows
<1>. QED
  BY <1>1, <1>2, <1>3, ByPage

LEMMA FilterRight == ASSUME ViewInv, FilterTypes PROVE ViewInv'
<1>1. UNCHANGED <<page, engine, shown>> /\ page = "graph"
  BY DEF FilterTypes, WorkspaceReady, Ready
<1>2. page' \notin Engines
  BY <1>1 DEF Engines
<1>3. EnginesRight' /\ ShownFormed(shown)'
  BY <1>1 DEF ViewInv, EnginesRight
<1>. QED
  BY <1>2, <1>3, NothingToFollow

LEMMA ViewStep ==
    ASSUME GraphsAreRecords, ViewInv, LoadInv, Quiet, Next
    PROVE  ViewInv'
<1>1. CASE OpenPage
  BY <1>1, OpenRight DEF OpenPage
<1>2. CASE ClosePage
  BY <1>2, CloseRight
<1>3. CASE Retry \/ \E s \in Sources : SwitchSource(s)
  BY <1>3, RetryRight, SwitchRight DEF LoadInv
<1>4. CASE \E r \in requests : ServerReplies(r) \/ LoadEnds(r) \/ ExpandEnds(r)
  <2>1. page # "none" /\ LoadInv'
    BY <1>4, LoadStep DEF Quiet
  <2>2. ASSUME NEW r \in requests, ServerReplies(r) PROVE ViewInv'
    BY <2>2, ViewUntouched DEF ServerReplies
  <2>. QED
    BY <1>4, <2>1, <2>2, LoadEndRight, ExpandEndRight
<1>5. CASE ServerChanges \/ SessionEnds
  BY <1>5, ViewUntouched DEF ServerChanges, SessionEnds
<1>6. CASE SelectQuestion \/ ExecuteQuestion \/ SelectHost \/ OpenUser
  BY <1>6, QuestionDropped, ExecuteRight, HostRight, UserRight DEF LoadInv
<1>7. CASE FilterTypes
  BY <1>7, FilterRight
<1>8. CASE ChangeView \/ MoveFocus \/ \E n \in Ends : Expand(n) \/ Collapse(n) \/ Hide(n)
  BY <1>8, ViewUntouched DEF ChangeView, MoveFocus, Expand, Collapse, Hide, UnchangedButWorkspace
<1>9. CASE \E kind \in {"path", "attack", "blast", "focus"}, a \in Ends, b \in Ends : Investigate(kind, a, b)
  BY <1>9, ViewUntouched DEF Investigate, UnchangedButWorkspace
<1>. QED
  BY <1>1, <1>2, <1>3, <1>4, <1>5, <1>6, <1>7, <1>8, <1>9 DEF Next

LEMMA ViewInit == Init => ViewInv
<1>1. ASSUME Init PROVE EnginesRight /\ ShownFormed(shown)
  <2>1. engine = [p \in Engines |-> Fresh(NoGraph)] /\ shown = Nothing
    BY <1>1 DEF Init
  <2>2. EnginesRight
    BY <2>1, FreshRight DEF EnginesRight
  <2>. QED
    BY <2>1, <2>2 DEF ShownFormed, Nothing
<1>2. Init => page \notin Engines
  BY DEF Init, Engines, Pages
<1>. QED
  BY <1>1, <1>2 DEF ViewInv, AnswersFollowTheGraph, Current

\* The module of a view has the graph the page holds, if it holds one, and an answer, a
\* host or a user shown was computed from the module's graph: not from the graph of a load
\* before, of another source or of an earlier visit, although the modules of the views
\* outlive the page and keep a cache of their results. While the page holds no graph, what
\* was found in the last one stays on the questions page and on the hosts page, and a host
\* that is not found leaves the detail of the one before it in place, marked as missing.
THEOREM AnswersAreOfTheGraph ==
    ASSUME GraphsAreRecords
    PROVE  Spec => []AnswersFollowTheGraph
<1>1. Init => ViewInv /\ LoadInv /\ Quiet
  BY ViewInit, LoadInit DEF Init, Quiet
<1>2. ViewInv /\ LoadInv /\ Quiet /\ [Next]_vars => (ViewInv /\ LoadInv /\ Quiet)'
  <2>1. ASSUME ViewInv, LoadInv, Quiet, Next PROVE (ViewInv /\ LoadInv /\ Quiet)'
    BY <2>1, ViewStep, LoadStep, QuietKept
  <2>2. ASSUME ViewInv, LoadInv, Quiet, UNCHANGED vars PROVE (ViewInv /\ LoadInv /\ Quiet)'
    BY <2>2, ViewUntouched, LoadUntouched DEF vars, Quiet
  <2>. QED
    BY <2>1, <2>2
<1>3. ViewInv => AnswersFollowTheGraph
  BY DEF ViewInv
<1>. QED
  BY <1>1, <1>2, <1>3, PTL DEF Spec

------------------------------------------------------------------------------
(***************************************************************************)
(* The cache of the workspace's traversals: what is in it was found in a   *)
(* graph with the key it is kept under.                                    *)
(***************************************************************************)
\* Among these graphs the key tells traversals apart. It does not among all: the nodes are
\* counted, and of the links after the first ones only the number is part of it.
KeyTells(Worked) ==
    \A g, h \in Worked : \A ask : TraversalKey(g, ask) = TraversalKey(h, ask) => Trace(g, ask) = Trace(h, ask)

\* It does among the graphs of the same nodes that have no more links than are part of the key,
\* if a link is known by its id.
LEMMA SmallGraphsAreTold ==
    ASSUME NEW N, NEW L, \A l, m \in L : l.id = m.id => l = m,
           NEW Worked, KeyLinks \in Nat,
           \A g \in Worked : /\ g = [nodes |-> N, links |-> g.links]
                             /\ g.links \in Seq(L) /\ Len(g.links) <= KeyLinks
    PROVE  KeyTells(Worked)
<1> SUFFICES ASSUME NEW g \in Worked, NEW h \in Worked, NEW ask, TraversalKey(g, ask) = TraversalKey(h, ask)
             PROVE  g.links = h.links
  BY DEF KeyTells
<1> DEFINE p == g.links
           q == h.links
           first(s) == [i \in {k \in DOMAIN s : k <= KeyLinks} |-> s[i].id]
<1>1. p \in Seq(L) /\ q \in Seq(L) /\ Len(p) <= KeyLinks /\ Len(q) <= KeyLinks
  OBVIOUS
<1>2. Len(p) = Len(q) /\ first(p) = first(q)
  BY DEF TraversalKey
<1> HIDE DEF p, q
<1>3. DOMAIN p = 1..Len(p) /\ DOMAIN q = 1..Len(p) /\ Len(p) \in Nat
  BY <1>1, <1>2
<1>4. ASSUME NEW i \in 1..Len(p) PROVE p[i] = q[i]
  <2>1. first(p)[i] = p[i].id /\ first(q)[i] = q[i].id
    BY <1>1, <1>3
  <2>2. p[i] \in L /\ q[i] \in L
    BY <1>1, <1>3
  <2> HIDE DEF first
  <2>. QED
    BY <1>2, <2>1, <2>2
<1>5. p = q
  BY <1>1, <1>3, <1>4
<1>. QED
  BY <1>5 DEF p, q

\* What a traversal left behind, in the cache and on the page, is what it found in its graph.
FreshInv(Worked) ==
    /\ "path" \in DOMAIN workspace /\ TraversalsAreFresh
    /\ \A k \in DOMAIN traversals : \E g \in Worked : \E ask :
          k = TraversalKey(g, ask) /\ traversals[k] = Trace(g, ask)

\* Setting the graph, the filters or the visible nodes leaves the path shown.
LEMMA ShowsKeepsPath ==
    ASSUME NEW w, NEW g, "path" \in DOMAIN w
    PROVE  "path" \in DOMAIN Shows(w, g) /\ Shows(w, g).path = w.path
<1> DEFINE x == IF g = NoGraph THEN {} ELSE Ids(Presented(g, w))
<1>1. Shows(w, g) = [w EXCEPT !.visible = x]
  BY DEF Shows
<1> HIDE DEF x
<1>. QED
  BY <1>1

LEMMA EffectsKeepPath ==
    ASSUME NEW h, NEW changed, "path" \in DOMAIN workspace, Effects(h, changed)
    PROVE  "path" \in DOMAIN workspace' /\ workspace'.path = workspace.path
BY ShowsKeepsPath DEF Effects

\* No step but a traversal puts anything in the cache or shows another path.
LEMMA PathKept ==
    ASSUME "path" \in DOMAIN workspace, Next,
           \A kind \in {"path", "attack", "blast", "focus"}, a \in Ends, b \in Ends : ~Investigate(kind, a, b)
    PROVE  /\ UNCHANGED traversals
           /\ "path" \in DOMAIN workspace'
           /\ workspace'.path \in {workspace.path, NoView}
<1>1. CASE OpenPage
  <2>1. PICK p, s, f, ask, import : Open(p, s, f, ask, import)
    BY <1>1, Zenon DEF OpenPage
  <2> DEFINE types == {f} \ {NoFilter}
  <2>2. workspace' = [NewWorkspace EXCEPT !.filters.nodeTypes = types] /\ UNCHANGED traversals
    BY <2>1 DEF Open
  <2> HIDE DEF types
  <2>. QED
    BY <2>2 DEF NewWorkspace
<1>2. CASE ClosePage
  BY <1>2 DEF ClosePage, NewWorkspace
<1>3. CASE Retry \/ \E s \in Sources : SwitchSource(s)
  BY <1>3, EffectsKeepPath DEF Retry, SwitchSource
<1>4. CASE \E r \in requests : ServerReplies(r) \/ LoadEnds(r) \/ ExpandEnds(r)
  BY <1>4, EffectsKeepPath DEF ServerReplies, LoadEnds, ExpandEnds
<1>5. CASE ServerChanges \/ SessionEnds \/ SelectQuestion \/ ExecuteQuestion \/ SelectHost \/ OpenUser
  BY <1>5 DEF ServerChanges, SessionEnds, SelectQuestion, ExecuteQuestion, SelectHost, OpenUser
<1>6. CASE FilterTypes
  <2>1. PICK filters : workspace' = Shows([workspace EXCEPT !.filters = filters], Holding) /\ UNCHANGED traversals
    BY <1>6 DEF FilterTypes
  <2>. QED
    BY <2>1, ShowsKeepsPath
<1>7. CASE ChangeView
  <2>1. PICK m, c, f : /\ workspace' = Shows([workspace EXCEPT !.mode = m, !.clusters = c, !.filters = f], Holding)
                       /\ UNCHANGED traversals
    BY <1>7 DEF ChangeView
  <2>. QED
    BY <2>1, ShowsKeepsPath
<1>8. CASE MoveFocus
  BY <1>8 DEF MoveFocus
<1>9. CASE \E n \in Ends : Expand(n) \/ Collapse(n) \/ Hide(n)
  <2>1. UNCHANGED traversals /\ (UNCHANGED workspace \/ \E x : workspace' = [workspace EXCEPT !.visible = x])
    BY <1>9 DEF Expand, Collapse, Hide
  <2>. QED
    BY <2>1
<1>. QED
  BY <1>1, <1>2, <1>3, <1>4, <1>5, <1>6, <1>7, <1>8, <1>9 DEF Next

\* A result taken from the cache was found in a graph whose traversals are those of the one shown.
LEMMA InvestigateFresh ==
    ASSUME NEW Worked, KeyTells(Worked), FreshInv(Worked), WorkspaceReady => VisibleData \in Worked,
           NEW kind, NEW a, NEW b, Investigate(kind, a, b)
    PROVE  FreshInv(Worked)'
<1> DEFINE g == VisibleData
           ask == [kind |-> kind, from |-> a, to |-> b]
           key == TraversalKey(g, ask)
           result == Traversal(g, ask)
           path == [graph |-> g, ask |-> ask, result |-> result]
           seen == [workspace EXCEPT !.path = path]
           more == [k \in DOMAIN traversals \cup {key} |-> IF k = key THEN result ELSE traversals[k]]
<1>1. g \in Worked
  BY DEF Investigate, InWorkspace
<1>2. result = Trace(g, ask)
  <2> SUFFICES ASSUME key \in DOMAIN traversals PROVE traversals[key] = Trace(g, ask)
    BY DEF Traversal
  <2>1. PICK h \in Worked : \E as : key = TraversalKey(h, as) /\ traversals[key] = Trace(h, as)
    BY DEF FreshInv
  <2>2. PICK as : key = TraversalKey(h, as) /\ traversals[key] = Trace(h, as)
    BY <2>1
  <2>3. as = ask
    BY <2>2 DEF TraversalKey
  <2>. QED
    BY <1>1, <2>2, <2>3 DEF KeyTells
<1>3. traversals' = more /\ \/ workspace' = seen
                            \/ \E nodes : workspace' = PushFocus(seen, nodes)
  BY DEF Investigate
<1>4. "path" \in DOMAIN workspace
  BY DEF FreshInv
<1> HIDE DEF ask, result, g, key
<1>5. path.graph = g /\ path.ask = ask /\ path.result = result
  OBVIOUS
<1> HIDE DEF path
<1>6. "path" \in DOMAIN seen /\ seen.path = path
  BY <1>4
<1> HIDE DEF seen
<1>7. \A nodes : "path" \in DOMAIN PushFocus(seen, nodes) /\ PushFocus(seen, nodes).path = path
  BY <1>6 DEF PushFocus
<1>8. "path" \in DOMAIN workspace' /\ workspace'.path = path
  BY <1>3, <1>6, <1>7
<1>9. TraversalsAreFresh'
  BY <1>2, <1>5, <1>8 DEF TraversalsAreFresh, Trace
<1>10. ASSUME NEW k \in DOMAIN more
       PROVE  \E h \in Worked : \E as : k = TraversalKey(h, as) /\ more[k] = Trace(h, as)
  <2>1. CASE k = key
    BY <1>1, <1>2, <2>1 DEF key
  <2>2. CASE k # key
    BY <2>2 DEF FreshInv
  <2>. QED
    BY <2>1, <2>2
<1> HIDE DEF more
<1>. QED
  BY <1>3, <1>8, <1>9, <1>10 DEF FreshInv

\* As long as the workspace shows only graphs among which the key tells traversals apart, a path
\* or a radius taken from the cache is what a traversal of the graph shown would find, through
\* every load, expansion, filter and visit between (traversalCache of GraphInvestigationEngine).
THEOREM CachedTraversalsAreFresh ==
    ASSUME NEW Worked, KeyTells(Worked)
    PROVE  Spec /\ [](WorkspaceReady => VisibleData \in Worked) => []TraversalsAreFresh
<1> DEFINE I == FreshInv(Worked)
           W == WorkspaceReady => VisibleData \in Worked
<1>1. Init => I
  BY DEF Init, FreshInv, NewWorkspace, TraversalsAreFresh
<1>2. I /\ W /\ [Next]_vars => I'
  <2> SUFFICES ASSUME I, W, [Next]_vars PROVE I'
    OBVIOUS
  <2>1. ASSUME UNCHANGED traversals, "path" \in DOMAIN workspace', workspace'.path \in {workspace.path, NoView} PROVE I'
    BY <2>1 DEF FreshInv, TraversalsAreFresh
  <2>2. CASE UNCHANGED vars
    BY <2>1, <2>2 DEF vars, FreshInv
  <2>3. ASSUME NEW kind, NEW a, NEW b, Investigate(kind, a, b) PROVE I'
    BY <2>3, InvestigateFresh
  <2>4. CASE Next /\ \A kind \in {"path", "attack", "blast", "focus"}, a \in Ends, b \in Ends : ~Investigate(kind, a, b)
    <3>1. "path" \in DOMAIN workspace
      BY DEF FreshInv
    <3>. QED
      BY <2>1, <2>4, <3>1, PathKept
  <2>. QED
    BY <2>2, <2>3, <2>4
<1>3. I => TraversalsAreFresh
  BY DEF FreshInv
<1> HIDE DEF I, W
<1>4. Spec /\ []W => []TraversalsAreFresh
  BY <1>1, <1>2, <1>3, PTL DEF Spec
<1>. QED
  BY <1>4 DEF W
=============================================================================
