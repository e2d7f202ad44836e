-------------------------- MODULE ImportResultsProofs --------------------------
(***************************************************************************)
(* Proofs about ImportResults, for every number of clients and files and   *)
(* every scenario.                                                         *)
(*                                                                         *)
(* 1. A validation an import shows is the one of the mapping and the       *)
(*    classification in effect. What is shown may come from a request that *)
(*    read before an await, from a write that is sent late, or from the    *)
(*    row a restart finds: the invariant says of the session, of its row   *)
(*    and of every write under way that its validations match its own      *)
(*    configuration, and of every validation under way that it overlapped  *)
(*    with a change or has read the configuration in effect.               *)
(*                                                                         *)
(* 2. A conversion an import shows has been stored: in the session, in its *)
(*    row and in every write under way there is only a number that the     *)
(*    chunks have reached.  It is the last one stored where nothing        *)
(*    overlapped and nothing was lost.                                     *)
(*                                                                         *)
(* 3. The durable report of a sheet holds the issues of the validation     *)
(*    shown and no others.                                                 *)
(*                                                                         *)
(* 4. A correlation or a conversion that is shown covers every file as it  *)
(*    is: what a request has read so far covers the files before its       *)
(*    place.                                                               *)
(*                                                                         *)
(* 5. Neo4j holds what its version history says, and the risk engine holds *)
(*    the graph it finds again after a restart.                            *)
(***************************************************************************)
EXTENDS ImportResults, TLAPS

\* The caches of an import, of which only what the theorems depend on is typed.
Formed(s) ==
    /\ DOMAIN s = {"files", "parsed", "class", "mapping", "validation", "correlation",
                   "conversion", "late"}
    /\ DOMAIN s.class = FileSet /\ DOMAIN s.mapping = FileSet /\ DOMAIN s.validation = FileSet
    /\ s.late \in BOOLEAN
    /\ \A f \in FileSet : s.validation[f].torn \in BOOLEAN
    /\ s.correlation.torn \in BOOLEAN /\ s.conversion.torn \in BOOLEAN

\* The validation of a sheet is the one of its configuration.
Matches(s, f, of) == of = {<<f, <<s.class[f], s.mapping[f]>>>>}

Matching(s) ==
    \A f \in FileSet :
        LET v == s.validation[f]
        IN  v = None \/ v.torn \/ s.late \/ Matches(s, f, v.of)

Sound(s) == Formed(s) /\ Matching(s)

RequestFormed(r) ==
    /\ DOMAIN r = {"pc", "kind", "file", "at", "n", "of", "graph", "torn", "awaits"}
    /\ r.torn \in BOOLEAN

\* A validation that is under way.
Reading(r, s) == r.pc = "validating" => r.torn \/ (r.file \in FileSet /\ Matches(s, r.file, r.of))

StoresSound ==
    /\ DOMAIN rows = {"import", "imported"}
    /\ Sound(rows["import"])
    /\ \A w \in pending : w.row = "import" => Sound(w.value)

RequestsSound ==
    /\ DOMAIN req = Clients
    /\ \A c \in Clients : RequestFormed(req[c]) /\ Reading(req[c], session)

IInv == Sound(session) /\ StoresSound /\ RequestsSound

------------------------------------------------------------------------------
(* What the operators of a step do                                         *)

LEMMA InitSound == ASSUME Init PROVE IInv
<1>1. Sound(Uploaded)
  BY DEF Uploaded, Sound, Formed, Matching, None
<1>2. RequestFormed(Idle) /\ Idle.pc = "idle"
  BY DEF Idle, RequestFormed
<1>. QED
  BY <1>1, <1>2 DEF Init, IInv, StoresSound, RequestsSound, Reading

\* A session that is saved leaves the stores sound.
LEMMA SnapshotSound ==
    ASSUME StoresSound, Sound(session'), NEW owner, Snapshot(owner), UNCHANGED rows
    PROVE  StoresSound'
BY DEF StoresSound, Snapshot, Save

\* Marking requests loses nothing, and those that are marked and not free are torn.
LEMMA TornSound ==
    ASSUME RequestsSound, NEW cs
    PROVE  /\ DOMAIN Torn(cs) = Clients
           /\ \A c \in Clients : /\ RequestFormed(Torn(cs)[c]) /\ Reading(Torn(cs)[c], session)
                                 /\ c \in cs /\ Torn(cs)[c].pc = "validating" => Torn(cs)[c].torn
<1>1. DOMAIN Torn(cs) = Clients
  BY DEF Torn
<1>2. ASSUME NEW c \in Clients
      PROVE  /\ RequestFormed(Torn(cs)[c]) /\ Reading(Torn(cs)[c], session)
             /\ c \in cs /\ Torn(cs)[c].pc = "validating" => Torn(cs)[c].torn
  <2>1. RequestFormed(req[c]) /\ Reading(req[c], session)
    BY DEF RequestsSound
  <2>2. Torn(cs)[c] = IF c \in cs /\ ~Free(c) THEN [req[c] EXCEPT !.torn = TRUE] ELSE req[c]
    BY DEF Torn
  <2>3. CASE c \in cs /\ ~Free(c)
    BY <2>1, <2>2, <2>3 DEF RequestFormed, Reading
  <2>4. CASE ~(c \in cs /\ ~Free(c))
    <3>1. Torn(cs)[c] = req[c]
      BY <2>2, <2>4
    <3>2. req[c].pc = "validating" => ~Free(c)
      BY DEF Free
    <3>. QED
      BY <2>1, <2>4, <3>1, <3>2
  <2>. QED
    BY <2>3, <2>4
<1>. QED
  BY <1>1, <1>2

\* A sheet whose validation is dropped may get another configuration.
LEMMA InvalidatedSound ==
    ASSUME NEW s, NEW t, NEW f \in FileSet, Sound(s), Formed(t), t.late = s.late,
           t.validation = s.validation,
           \A g \in FileSet \ {f} : t.class[g] = s.class[g] /\ t.mapping[g] = s.mapping[g]
    PROVE  Sound(Invalidated(t, f))
<1> DEFINE u == Invalidated(t, f)
<1>1. /\ DOMAIN u = DOMAIN t /\ u.class = t.class /\ u.mapping = t.mapping /\ u.late = t.late
      /\ u.validation = [t.validation EXCEPT ![f] = None]
      /\ u.correlation = None /\ u.conversion = None
  BY DEF Invalidated, Formed
<1>2. Formed(u)
  <2>1. None.torn \in BOOLEAN
    BY DEF None
  <2>2. DOMAIN u.validation = FileSet /\ \A g \in FileSet : u.validation[g].torn \in BOOLEAN
    BY <1>1, <2>1 DEF Formed
  <2>. HIDE DEF u
  <2>. QED
    BY <1>1, <2>1, <2>2 DEF Formed
<1>3. Matching(u)
  <2>1. u.validation[f] = None
    BY <1>1 DEF Formed
  <2>2. ASSUME NEW g \in FileSet, g # f
        PROVE  /\ u.validation[g] = s.validation[g] /\ u.late = s.late
               /\ u.class[g] = s.class[g] /\ u.mapping[g] = s.mapping[g]
    BY <1>1, <2>2 DEF Formed
  <2>. HIDE DEF u
  <2>. QED
    BY <2>1, <2>2 DEF Matching, Matches, Sound
<1>. QED
  BY <1>2, <1>3 DEF Sound

LEMMA AllInvalidatedSound ==
    ASSUME NEW t, Formed(t)
    PROVE  Sound(AllInvalidated(t))
BY DEF AllInvalidated, Formed, Matching, Sound, None

\* A step that leaves the configurations and the validations alone.
LEMMA SameSound ==
    ASSUME NEW s, NEW t, Sound(s), DOMAIN t = DOMAIN s, t.class = s.class, t.mapping = s.mapping,
           t.validation = s.validation, t.late = s.late,
           t.correlation.torn \in BOOLEAN, t.conversion.torn \in BOOLEAN
    PROVE  Sound(t) /\ \A r : Reading(r, s) => Reading(r, t)
BY DEF Sound, Formed, Matching, Matches, Reading

\* A change marks every request.
LEMMA ChangeSound ==
    ASSUME IInv, NEW next, Change(next), Sound(next)
    PROVE  IInv'
<1>1. Sound(session') /\ StoresSound'
  <2>. QED
    BY SnapshotSound DEF IInv, Change
<1>2. RequestsSound'
  BY TornSound DEF IInv, Change, RequestsSound, Reading
<1>. QED
  BY <1>1, <1>2 DEF IInv

\* A step of one request, which does not start a validation.
LEMMA OneRequest ==
    ASSUME IInv, NEW base, NEW c \in Clients, req' = [base EXCEPT ![c] = req'[c]],
           DOMAIN base = Clients,
           \A d \in Clients : RequestFormed(base[d]) /\ Reading(base[d], session),
           RequestFormed(req'[c]), Reading(req'[c], session'),
           \A r : Reading(r, session) => Reading(r, session')
    PROVE  RequestsSound'
<1> SUFFICES ASSUME NEW d \in Clients
             PROVE  RequestFormed(req'[d]) /\ Reading(req'[d], session')
  BY DEF RequestsSound
<1>1. d # c => req'[d] = base[d]
  OBVIOUS
<1>. QED
  BY <1>1

LEMMA GoesSound ==
    ASSUME IInv, NEW c \in Clients, NEW pc, pc # "validating", Goes(c, pc),
           \A r : Reading(r, session) => Reading(r, session')
    PROVE  RequestsSound'
<1>1. RequestFormed(req[c])
  BY DEF IInv, RequestsSound
<1>2. DOMAIN req = Clients /\ req'[c] = [req[c] EXCEPT !.pc = pc]
  BY DEF IInv, RequestsSound, Goes
<1>3. RequestFormed(req'[c]) /\ req'[c].pc = pc
  BY <1>1, <1>2 DEF RequestFormed
<1>4. req' = [req EXCEPT ![c] = req'[c]]
  BY <1>2 DEF Goes
<1>. QED
  BY <1>2, <1>3, <1>4, OneRequest DEF Reading, IInv, RequestsSound

------------------------------------------------------------------------------
(* The changes                                                             *)

LEMMA ApplyMappingsSound ==
    ASSUME IInv, NEW f \in FileSet, ApplyMappings(f)
    PROVE  IInv'
<1> DEFINE t == [session EXCEPT !.mapping[f] = budget.changes]
<1>1. Sound(Invalidated(t, f))
  <2>1. Formed(t) /\ t.late = session.late /\ t.validation = session.validation
    BY DEF IInv, Sound, Formed
  <2>2. \A g \in FileSet \ {f} : t.class[g] = session.class[g] /\ t.mapping[g] = session.mapping[g]
    BY DEF IInv, Sound, Formed
  <2>. HIDE DEF t
  <2>. QED
    BY <2>1, <2>2, InvalidatedSound DEF IInv
<1>. QED
  BY <1>1, ChangeSound DEF ApplyMappings

LEMMA ClassifySound ==
    ASSUME IInv, NEW f \in FileSet, Classify(f)
    PROVE  IInv'
<1> DEFINE t == [session EXCEPT !.class[f] = 1 - @, !.mapping[f] = 0]
<1>1. Sound(Invalidated(t, f))
  <2>1. Formed(t) /\ t.late = session.late /\ t.validation = session.validation
    BY DEF IInv, Sound, Formed
  <2>2. \A g \in FileSet \ {f} : t.class[g] = session.class[g] /\ t.mapping[g] = session.mapping[g]
    BY DEF IInv, Sound, Formed
  <2>. HIDE DEF t
  <2>. QED
    BY <2>1, <2>2, InvalidatedSound DEF IInv
<1>. QED
  BY <1>1, ChangeSound DEF Classify

LEMMA RemoveFileSound ==
    ASSUME IInv, NEW f \in FileSet, RemoveFile(f)
    PROVE  IInv'
<1> PICK i \in DOMAIN session.files :
             Change(AllInvalidated([session EXCEPT !.files = RemoveAt(@, i), !.mapping[f] = 0]))
  BY DEF RemoveFile
<1> DEFINE kept == RemoveAt(session.files, i)
           t == [session EXCEPT !.files = kept, !.mapping[f] = 0]
<1> HIDE DEF kept
<1>1. Sound(AllInvalidated(t))
  <2>1. Formed(t)
    BY DEF IInv, Sound, Formed
  <2>. HIDE DEF t
  <2>. QED
    BY <2>1, AllInvalidatedSound
<1>2. Change(AllInvalidated(t))
  BY DEF kept
<1>. QED
  BY <1>1, <1>2, ChangeSound

------------------------------------------------------------------------------
(* The worker                                                              *)

LEMMA ParsedInChunksSound == ASSUME IInv, ParsedInChunks PROVE IInv'
<1>1. Sound(session') /\ \A r : Reading(r, session) => Reading(r, session')
  <2>1. /\ DOMAIN session' = DOMAIN session /\ session'.class = session.class
        /\ session'.mapping = session.mapping /\ session'.validation = session.validation
        /\ session'.late = session.late /\ session'.correlation = session.correlation
        /\ session'.conversion = session.conversion
    BY DEF ParsedInChunks, IInv, Sound, Formed
  <2>. QED
    BY <2>1, SameSound DEF IInv, Sound, Formed
<1>2. StoresSound'
  BY <1>1, SnapshotSound DEF ParsedInChunks, IInv
<1>3. RequestsSound'
  BY <1>1 DEF ParsedInChunks, IInv, RequestsSound
<1>. QED
  BY <1>1, <1>2, <1>3 DEF IInv

LEMMA ParsedInlineSound == ASSUME IInv, ParsedInline PROVE IInv'
<1> DEFINE at == worker.at
           files == [i \in 1..Max({at, Len(session.files)}) |->
                        IF i = at THEN worker.file ELSE session.files[i]]
           t == [session EXCEPT !.files = files, !.parsed = @ \cup {worker.file},
                                !.mapping[worker.file] = 0]
<1> HIDE DEF files
<1>1. Sound(session')
  <2>1. Formed(t)
    BY DEF IInv, Sound, Formed
  <2>2. session' = AllInvalidated(t)
    BY DEF ParsedInline, files
  <2>. HIDE DEF t
  <2>. QED
    BY <2>1, <2>2, AllInvalidatedSound
<1>2. StoresSound'
  BY <1>1, SnapshotSound DEF ParsedInline, IInv
<1>3. RequestsSound'
  BY TornSound DEF ParsedInline, IInv, RequestsSound, Reading
<1>. QED
  BY <1>1, <1>2, <1>3 DEF IInv

------------------------------------------------------------------------------
(* Validations                                                             *)

LEMMA ValidateStartsSound ==
    ASSUME IInv, NEW c \in Clients, NEW f \in FileSet, ValidateStarts(c, f)
    PROVE  IInv'
<1> DEFINE others == {d \in Busy("validate") : req[d].file = f}
           r == [Idle EXCEPT !.pc = "validating", !.kind = "validate", !.file = f,
                             !.of = {<<f, Config(f)>>}, !.torn = others # {}]
<1> HIDE DEF others
<1>1. RequestFormed(r) /\ Reading(r, session)
  BY DEF RequestFormed, Reading, Matches, Config, Idle
<1>2. req' = [Torn(others) EXCEPT ![c] = r]
  BY DEF ValidateStarts, others
<1> HIDE DEF r
<1>3. DOMAIN Torn(others) = Clients
      /\ \A d \in Clients : RequestFormed(Torn(others)[d]) /\ Reading(Torn(others)[d], session)
  BY TornSound DEF IInv
<1>4. UNCHANGED <<session, storeVars>>
  BY DEF ValidateStarts
<1>5. RequestsSound'
  <2>1. req'[c] = r
    BY <1>2, <1>3
  <2>. QED
    BY <1>1, <1>2, <1>3, <1>4, <2>1, OneRequest
<1>. QED
  BY <1>4, <1>5 DEF IInv, StoresSound, storeVars

LEMMA ValidateStoresSound ==
    ASSUME IInv, NEW c \in Clients, ValidateStores(c)
    PROVE  IInv'
<1> DEFINE r == req[c]
           v == Result(r.of, 0, r.torn)
<1>1. RequestFormed(r) /\ Reading(r, session) /\ r.pc = "validating"
  BY DEF IInv, RequestsSound, ValidateStores
<1>2. v.torn = r.torn /\ v.of = r.of /\ r.torn \in BOOLEAN
  BY <1>1 DEF Result, RequestFormed
<1>3. /\ DOMAIN session' = DOMAIN session /\ session'.class = session.class
      /\ session'.mapping = session.mapping /\ session'.late = session.late
      /\ session'.validation = [session.validation EXCEPT ![r.file] = v]
      /\ session'.correlation = session.correlation /\ session'.conversion = session.conversion
  BY DEF ValidateStores, IInv, Sound, Formed
<1> HIDE DEF r, v
<1>4. Formed(session')
  <2>1. DOMAIN session'.validation = FileSet /\ \A g \in FileSet : session'.validation[g].torn \in BOOLEAN
    BY <1>2, <1>3 DEF IInv, Sound, Formed
  <2>. QED
    BY <1>3, <2>1 DEF IInv, Sound, Formed
<1>5. Matching(session')
  <2> SUFFICES ASSUME NEW f \in FileSet
               PROVE  LET u == session'.validation[f]
                      IN  u = None \/ u.torn \/ session'.late \/ Matches(session', f, u.of)
    BY DEF Matching
  <2>1. CASE f = r.file
    <3>1. session'.validation[f] = v
      BY <1>3, <2>1 DEF IInv, Sound, Formed
    <3>. QED
      BY <1>1, <1>2, <1>3, <2>1, <3>1 DEF Reading, Matches
  <2>2. CASE f # r.file
    <3>1. session'.validation[f] = session.validation[f]
      BY <1>3, <2>2 DEF IInv, Sound, Formed
    <3>. QED
      BY <1>3, <3>1 DEF IInv, Sound, Matching, Matches
  <2>. QED
    BY <2>1, <2>2
<1>6. StoresSound'
  BY <1>4, <1>5, SnapshotSound DEF ValidateStores, IInv, Sound
<1>7. \A q : Reading(q, session) => Reading(q, session')
  BY <1>3 DEF Reading, Matches
<1>8. RequestsSound'
  BY <1>7, GoesSound DEF ValidateStores
<1>. QED
  BY <1>4, <1>5, <1>6, <1>8 DEF IInv, Sound

------------------------------------------------------------------------------
(* The other requests                                                      *)

\* Steps that neither change the session nor save it.
LEMMA QuietSound ==
    ASSUME IInv, NEW c \in Clients, NEW pc, pc # "validating", Goes(c, pc),
           UNCHANGED <<session, pending, rows>>
    PROVE  IInv'
<1>1. RequestsSound'
  BY GoesSound
<1>. QED
  BY <1>1 DEF IInv, StoresSound

LEMMA GatherStartsSound ==
    ASSUME IInv, NEW c \in Clients, NEW kind, GatherStarts(c, kind)
    PROVE  IInv'
<1> DEFINE others == IF kind = "convert" THEN Busy(kind) ELSE {}
           r == [Idle EXCEPT !.pc = IF Parsed \cap Truncated = {} THEN "gathering" ELSE "refused",
                             !.kind = kind, !.at = 1, !.torn = others # {}]
<1> HIDE DEF others
<1>1. RequestFormed(r) /\ Reading(r, session)
  BY DEF RequestFormed, Reading, Idle
<1>2. req' = [Torn(others) EXCEPT ![c] = r] /\ UNCHANGED <<session, storeVars>>
  BY DEF GatherStarts, others
<1> HIDE DEF r
<1>3. DOMAIN Torn(others) = Clients
      /\ \A d \in Clients : RequestFormed(Torn(others)[d]) /\ Reading(Torn(others)[d], session)
  BY TornSound DEF IInv
<1>4. req'[c] = r
  BY <1>2, <1>3
<1>5. RequestsSound'
  BY <1>1, <1>2, <1>3, <1>4, OneRequest
<1>. QED
  BY <1>2, <1>5 DEF IInv, StoresSound, storeVars

\* A request that changes a field of its own and is not a validation afterwards.
LEMMA OwnSound ==
    ASSUME IInv, NEW c \in Clients, req' = [req EXCEPT ![c] = req'[c]],
           RequestFormed(req'[c]), req'[c].pc # "validating", UNCHANGED session
    PROVE  RequestsSound'
BY OneRequest DEF IInv, RequestsSound, Reading

LEMMA GatherSound ==
    ASSUME IInv, NEW c \in Clients, Gather(c)
    PROVE  IInv'
<1> DEFINE r == req[c]
           of == Gathered(c, session.files[r.at])
<1> HIDE DEF of
<1>1. RequestFormed(r) /\ c \in DOMAIN req
  BY DEF IInv, RequestsSound
<1>2. req' = [req EXCEPT ![c].of = of, ![c].at = @ + 1] /\ r.pc = "gathering"
  BY DEF Gather, of
<1>3. req'[c] = [r EXCEPT !.of = of, !.at = @ + 1] /\ req' = [req EXCEPT ![c] = req'[c]]
  BY <1>1, <1>2
<1>4. RequestFormed(req'[c]) /\ req'[c].pc # "validating"
  BY <1>1, <1>2, <1>3 DEF RequestFormed
<1>5. UNCHANGED <<session, storeVars>>
  BY DEF Gather
<1>6. RequestsSound'
  BY <1>3, <1>4, <1>5, OwnSound
<1>. QED
  BY <1>5, <1>6 DEF IInv, StoresSound, storeVars

\* A correlation or a conversion is set in the session and saved with it.
LEMMA SessionSaved ==
    ASSUME IInv, NEW owner, Snapshot(owner), UNCHANGED rows,
           DOMAIN session' = DOMAIN session, session'.class = session.class,
           session'.mapping = session.mapping, session'.validation = session.validation,
           session'.late = session.late,
           session'.correlation.torn \in BOOLEAN, session'.conversion.torn \in BOOLEAN
    PROVE  /\ Sound(session') /\ StoresSound'
           /\ \A r : Reading(r, session) => Reading(r, session')
<1>1. Sound(session') /\ \A r : Reading(r, session) => Reading(r, session')
  BY SameSound DEF IInv
<1>. QED
  BY <1>1, SnapshotSound DEF IInv

LEMMA CorrelateSound ==
    ASSUME IInv, NEW c \in Clients, Correlate(c)
    PROVE  IInv'
<1>1. /\ DOMAIN session' = DOMAIN session /\ session'.class = session.class
      /\ session'.mapping = session.mapping /\ session'.validation = session.validation
      /\ session'.late = session.late
      /\ session'.correlation = Result(req[c].of, 0, req[c].torn) /\ session'.conversion = None
  BY DEF Correlate, Correlated, IInv, Sound, Formed
<1>4. session'.correlation.torn \in BOOLEAN /\ session'.conversion.torn \in BOOLEAN
  BY <1>1 DEF Result, None, IInv, RequestsSound, RequestFormed
<1>2. /\ Sound(session') /\ StoresSound'
      /\ \A r : Reading(r, session) => Reading(r, session')
  BY <1>1, <1>4, SessionSaved DEF Correlate
<1>3. RequestsSound'
  BY <1>2, GoesSound DEF Correlate
<1>. QED
  BY <1>2, <1>3 DEF IInv

LEMMA ConvertSound ==
    ASSUME IInv, NEW c \in Clients, Convert(c)
    PROVE  IInv'
<1> DEFINE known == session.correlation
           used == IF known.of # {} THEN known ELSE Result(req[c].of, 0, req[c].torn)
           r == req[c]
           torn == r.torn \/ used.torn
<1>1. session' = Correlated(session, used) /\ UNCHANGED rows /\ Snapshot(<<c, "correlation">>)
      /\ req' = [req EXCEPT ![c].pc = "replacing", ![c].torn = @ \/ used.torn]
  BY DEF Convert
<1> HIDE DEF used
<1>2. RequestFormed(r) /\ c \in DOMAIN req
  BY DEF IInv, RequestsSound
<1>3. /\ DOMAIN session' = DOMAIN session /\ session'.class = session.class
      /\ session'.mapping = session.mapping /\ session'.validation = session.validation
      /\ session'.late = session.late
      /\ session'.correlation = used /\ session'.conversion = None
  BY <1>1 DEF Correlated, IInv, Sound, Formed
<1>9. used.torn \in BOOLEAN /\ None.torn \in BOOLEAN
  BY <1>2 DEF used, Result, None, IInv, RequestFormed, Sound, Formed
<1>4. /\ Sound(session') /\ StoresSound'
      /\ \A q : Reading(q, session) => Reading(q, session')
  BY <1>1, <1>3, <1>9, SessionSaved
<1>5. req'[c] = [r EXCEPT !.pc = "replacing", !.torn = torn] /\ req' = [req EXCEPT ![c] = req'[c]]
  BY <1>1, <1>2
<1>6. torn \in BOOLEAN
  OBVIOUS
<1> HIDE DEF torn
<1>7. RequestFormed(req'[c]) /\ req'[c].pc = "replacing"
  BY <1>2, <1>5, <1>6 DEF RequestFormed
<1>8. RequestsSound'
  BY <1>4, <1>5, <1>7, OneRequest DEF IInv, RequestsSound, Reading
<1>. QED
  BY <1>4, <1>8 DEF IInv

\* A flush is awaited.
LEMMA FlushingSound ==
    ASSUME IInv, NEW c \in Clients, NEW base, NEW pc, pc # "validating", Flushing(c, base, pc),
           DOMAIN base = Clients,
           \A d \in Clients : RequestFormed(base[d]) /\ (d # c => base[d] = req[d]),
           \A r : Reading(r, session) => Reading(r, session')
    PROVE  RequestsSound'
<1> DEFINE keys == {Key(w) : w \in pending'}
<1>1. req' = [base EXCEPT ![c].pc = pc, ![c].awaits = keys]
  BY DEF Flushing
<1> HIDE DEF keys
<1>2. req'[c] = [base[c] EXCEPT !.pc = pc, !.awaits = keys] /\ DOMAIN req' = Clients
      /\ \A d \in Clients : d # c => req'[d] = req[d]
  BY <1>1
<1>3. RequestFormed(req'[c]) /\ req'[c].pc = pc
  BY <1>2 DEF RequestFormed
<1>. QED
  BY <1>2, <1>3 DEF IInv, RequestsSound, Reading

LEMMA ConversionStoredSound ==
    ASSUME IInv, NEW c \in Clients, ConversionStored(c)
    PROVE  IInv'
<1>1. /\ DOMAIN session' = DOMAIN session /\ session'.class = session.class
      /\ session'.mapping = session.mapping /\ session'.validation = session.validation
      /\ session'.late = session.late /\ session'.correlation = session.correlation
      /\ session'.conversion = Result(req[c].of, req[c].n, req[c].torn)
  BY DEF ConversionStored, IInv, Sound, Formed
<1>4. session'.correlation.torn \in BOOLEAN /\ session'.conversion.torn \in BOOLEAN
  BY <1>1 DEF Result, IInv, RequestsSound, RequestFormed, Sound, Formed
<1>2. /\ Sound(session') /\ StoresSound'
      /\ \A r : Reading(r, session) => Reading(r, session')
  BY <1>1, <1>4, SessionSaved DEF ConversionStored
<1>3. RequestsSound'
  BY <1>2, FlushingSound DEF ConversionStored, IInv, RequestsSound
<1>. QED
  BY <1>2, <1>3 DEF IInv

------------------------------------------------------------------------------
(* Persisting, the rows and a restart                                      *)

\* A write of the graph, or none, is of no account.
LEMMA GraphSaved ==
    ASSUME StoresSound, UNCHANGED rows,
           UNCHANGED pending \/ \E owner, g : Save(owner, "imported", g)
    PROVE  StoresSound'
BY DEF StoresSound, Save

LEMMA PersistStartsSound ==
    ASSUME IInv, NEW c \in Clients, PersistStarts(c)
    PROVE  IInv'
<1> DEFINE r == [Idle EXCEPT !.pc = IF budget.neo4j THEN "opening" ELSE "loading", !.kind = "persist"]
<1>1. RequestFormed(r) /\ r.pc # "validating"
  BY DEF RequestFormed, Idle
<1>2. req' = [req EXCEPT ![c] = r] /\ UNCHANGED <<session, storeVars>>
  BY DEF PersistStarts
<1> HIDE DEF r
<1>3. req'[c] = r
  BY <1>2 DEF IInv, RequestsSound
<1>4. RequestsSound'
  BY <1>1, <1>2, <1>3, OwnSound
<1>. QED
  BY <1>2, <1>4 DEF IInv, StoresSound, storeVars

\* The steps of persist that note something in the request.
LEMMA NotingSound ==
    ASSUME IInv, NEW c \in Clients, NEW r, req' = [req EXCEPT ![c] = r],
           DOMAIN r = DOMAIN req[c], r.torn = req[c].torn, r.pc # "validating",
           UNCHANGED <<session, storeVars>>
    PROVE  IInv'
<1>1. RequestFormed(r) /\ req'[c] = r
  BY DEF IInv, RequestsSound, RequestFormed
<1>2. RequestsSound'
  BY <1>1, OwnSound
<1>. QED
  BY <1>2 DEF IInv, StoresSound, storeVars

LEMMA ChunksReplacedSound ==
    ASSUME IInv, NEW c \in Clients, ChunksReplaced(c)
    PROVE  IInv'
<1> DEFINE n == chunks'
           r == [req[c] EXCEPT !.pc = "converted", !.n = n]
<1>1. req' = [req EXCEPT ![c].pc = "converted", ![c].n = n]
  BY DEF ChunksReplaced
<1> HIDE DEF n
<1>2. req' = [req EXCEPT ![c] = r]
  BY <1>1 DEF IInv, RequestsSound
<1>3. DOMAIN r = DOMAIN req[c] /\ r.torn = req[c].torn /\ r.pc = "converted"
  BY DEF IInv, RequestsSound, RequestFormed
<1> HIDE DEF r
<1>. QED
  BY <1>2, <1>3, NotingSound DEF ChunksReplaced

LEMMA LoadNodesSound ==
    ASSUME IInv, NEW c \in Clients, LoadNodes(c)
    PROVE  IInv'
<1> DEFINE r == [req[c] EXCEPT !.pc = "linking", !.graph.nodes = chunks]
<1>1. req' = [req EXCEPT ![c] = r]
  BY DEF LoadNodes, IInv, RequestsSound
<1>2. DOMAIN r = DOMAIN req[c] /\ r.torn = req[c].torn /\ r.pc = "linking"
  BY DEF IInv, RequestsSound, RequestFormed
<1> HIDE DEF r
<1>. QED
  BY <1>1, <1>2, NotingSound DEF LoadNodes

LEMMA VersionOpensSound ==
    ASSUME IInv, NEW c \in Clients, VersionOpens(c)
    PROVE  IInv'
<1> DEFINE n == Len(versions')
           r == [req[c] EXCEPT !.pc = "loading", !.n = n]
<1>1. req' = [req EXCEPT ![c].pc = "loading", ![c].n = n]
  BY DEF VersionOpens
<1> HIDE DEF n
<1>2. req' = [req EXCEPT ![c] = r]
  BY <1>1 DEF IInv, RequestsSound
<1>3. DOMAIN r = DOMAIN req[c] /\ r.torn = req[c].torn /\ r.pc = "loading"
  BY DEF IInv, RequestsSound, RequestFormed
<1> HIDE DEF r
<1>. QED
  BY <1>2, <1>3, NotingSound DEF VersionOpens

LEMMA LoadLinksSound ==
    ASSUME IInv, NEW c \in Clients, LoadLinks(c)
    PROVE  IInv'
<1> DEFINE g == [req[c].graph EXCEPT !.links = chunks]
           q == [req[c] EXCEPT !.graph = g]
           r == [req EXCEPT ![c].graph = g]
<1>1. UNCHANGED <<session, rows>>
  BY DEF LoadLinks
<1> HIDE DEF g
<1>2. DOMAIN r = Clients /\ r[c] = q /\ \A d \in Clients : d # c => r[d] = req[d]
  BY DEF IInv, RequestsSound
<1>3. RequestFormed(q)
  BY DEF IInv, RequestsSound, RequestFormed
<1>4. \A d \in Clients : RequestFormed(r[d]) /\ (d # c => r[d] = req[d])
  BY <1>2, <1>3 DEF IInv, RequestsSound
<1>5. CASE budget.neo4j
  <2>1. req' = [r EXCEPT ![c].pc = "committing"] /\ UNCHANGED pending
    BY <1>5 DEF LoadLinks, g
  <2> HIDE DEF r
  <2>2. req'[c] = [q EXCEPT !.pc = "committing"] /\ DOMAIN req' = Clients
        /\ \A d \in Clients : d # c => req'[d] = req[d]
    BY <1>2, <2>1
  <2>3. RequestFormed(req'[c]) /\ req'[c].pc = "committing"
    BY <1>3, <2>2 DEF RequestFormed
  <2>4. RequestsSound'
    BY <1>1, <2>2, <2>3 DEF IInv, RequestsSound, Reading
  <2>. QED
    BY <1>1, <2>1, <2>4 DEF IInv, StoresSound
<1>6. CASE ~budget.neo4j
  <2>1. SetMemoryGraph(c, g) /\ Flushing(c, r, "flushing")
    BY <1>6 DEF LoadLinks, g
  <2> HIDE DEF r
  <2>2. RequestsSound'
    BY <1>1, <1>2, <1>4, <2>1, FlushingSound
  <2>3. StoresSound'
    BY <1>1, <2>1, GraphSaved DEF SetMemoryGraph, IInv
  <2>. QED
    BY <1>1, <2>2, <2>3 DEF IInv
<1>. QED
  BY <1>5, <1>6

LEMMA RiskSavedSound ==
    ASSUME IInv, NEW c \in Clients, RiskSaved(c)
    PROVE  IInv'
<1>1. UNCHANGED <<session, rows>> /\ (Goes(c, "refreshing") \/ Goes(c, "refused"))
      /\ (UNCHANGED pending \/ SetImportedGraph(c, req[c].graph))
  BY DEF RiskSaved
<1>2. RequestsSound'
  BY <1>1, GoesSound
<1>3. StoresSound'
  BY <1>1, GraphSaved DEF SetImportedGraph, IInv
<1>. QED
  BY <1>1, <1>2, <1>3 DEF IInv

\* A session object that is sent late carries configurations of now: it is marked, or they
\* are those of the call.
LEMMA LateSound ==
    ASSUME IInv, NEW w \in pending, w.row = "import"
    PROVE  Sound(Late(w))
<1> DEFINE v == w.value
           late == v.late \/ v.files # session.files \/ v.parsed # session.parsed
                          \/ v.class # session.class
<1>1. Sound(v) /\ Sound(session)
  BY DEF IInv, StoresSound
<1>2. Late(w) = [v EXCEPT !.files = session.files, !.parsed = session.parsed,
                          !.class = session.class, !.late = late]
  BY DEF Late
<1>3. late \in BOOLEAN /\ (~late => ~v.late /\ v.class = session.class)
  OBVIOUS
<1> HIDE DEF late, v
<1>4. /\ DOMAIN Late(w) = DOMAIN v /\ Late(w).class = session.class /\ Late(w).mapping = v.mapping
      /\ Late(w).validation = v.validation /\ Late(w).late = late
      /\ Late(w).correlation = v.correlation /\ Late(w).conversion = v.conversion
  BY <1>1, <1>2 DEF Sound, Formed
<1>. QED
  BY <1>1, <1>3, <1>4 DEF Sound, Formed, Matching, Matches

LEMMA WriteLandsSound ==
    ASSUME IInv, NEW w \in pending, WriteLands(w)
    PROVE  IInv'
<1>1. UNCHANGED <<session, req>>
  BY DEF WriteLands
<1>2. CASE Lands(w)
  <2>1. DOMAIN rows' = DOMAIN rows /\ pending' \subseteq pending
        /\ rows'["import"] = IF w.row = "import" THEN w.value ELSE rows["import"]
    BY <1>2 DEF Lands, IInv, StoresSound
  <2>2. StoresSound'
    BY <2>1 DEF IInv, StoresSound
  <2>. QED
    BY <1>1, <2>2 DEF IInv, RequestsSound
<1>3. CASE ~Lands(w)
  <2>1. w.row = "import" /\ pending' = pending \ {w} /\ rows' = [rows EXCEPT !["import"] = Late(w)]
    BY <1>3 DEF WriteLands
  <2>2. Sound(Late(w))
    BY <2>1, LateSound
  <2>3. StoresSound'
    BY <2>1, <2>2 DEF IInv, StoresSound
  <2>. QED
    BY <1>1, <2>3 DEF IInv, RequestsSound
<1>. QED
  BY <1>2, <1>3

LEMMA WriteFailsSound ==
    ASSUME IInv, NEW w \in pending, WriteFails(w)
    PROVE  IInv'
BY DEF WriteFails, Fails, IInv, StoresSound, RequestsSound

LEMMA RestartSound == ASSUME IInv, Restart PROVE IInv'
<1>1. RequestFormed(Idle) /\ Idle.pc = "idle"
  BY DEF Idle, RequestFormed
<1>. QED
  BY <1>1 DEF Restart, IInv, StoresSound, RequestsSound, Reading

------------------------------------------------------------------------------
(* The specification                                                       *)

LEMMA StartsSound ==
    ASSUME IInv, NEW c \in Clients, RequestStarts(c)
    PROVE  IInv'
BY ValidateStartsSound, GatherStartsSound, PersistStartsSound DEF RequestStarts

LEMMA GoesOnSound ==
    ASSUME IInv, NEW c \in Clients, RequestGoesOn(c)
    PROVE  IInv'
<1>1. CASE IssuesDeleted(c)
  BY <1>1, QuietSound DEF IssuesDeleted, storeVars
<1>2. CASE IssuesSaved(c)
  BY <1>2, QuietSound DEF IssuesSaved, storeVars
<1>3. CASE ConvertEnds(c)
  BY <1>3, QuietSound DEF ConvertEnds
<1>4. CASE Refresh(c)
  BY <1>4, QuietSound DEF Refresh, storeVars
<1>5. CASE TransactionCommits(c)
  BY <1>5, QuietSound DEF TransactionCommits, storeVars
<1>6. CASE ApplyFails(c)
  BY <1>6, QuietSound DEF ApplyFails, storeVars
<1>7. CASE ApplyCompletes(c)
  BY <1>7, QuietSound DEF ApplyCompletes, storeVars
<1>8. CASE IssuesFail(c)
  BY <1>8, QuietSound DEF IssuesFail, storeVars
<1>. QED
  BY <1>1, <1>2, <1>3, <1>4, <1>5, <1>6, <1>7, <1>8, ValidateStoresSound, GatherSound, CorrelateSound,
     ConvertSound, ChunksReplacedSound, ConversionStoredSound, LoadNodesSound, LoadLinksSound,
     RiskSavedSound, VersionOpensSound DEF RequestGoesOn

LEMMA StepSound == ASSUME IInv, [Next]_vars PROVE IInv'
<1>1. ASSUME NEW f \in FileSet, WorkerStarts(f) PROVE IInv'
  BY <1>1 DEF WorkerStarts, IInv, StoresSound, RequestsSound, storeVars
<1>2. CASE UNCHANGED vars
  BY <1>2 DEF vars, IInv, StoresSound, RequestsSound
<1>. QED
  BY <1>1, <1>2, ApplyMappingsSound, ClassifySound, RemoveFileSound, StartsSound, GoesOnSound,
     WriteLandsSound, WriteFailsSound, ParsedInChunksSound, ParsedInlineSound, RestartSound
     DEF Next

\* A validation that is shown was computed with the mapping and the classification in effect,
\* whatever requests, changes, writes and restarts there are, but for two cases: its request
\* overlapped with a change or with another validation of the sheet, or the session was
\* restored from a row that had been sent after a later change and mixes two states
\* (setValidationResult, invalidateValidationResult, persistSnapshot).
THEOREM ValidationsAreCurrent == Spec => []ValidationIsCurrent
<1>1. Init => IInv
  BY InitSound
<1>2. IInv /\ [Next]_vars => IInv'
  BY StepSound
<1>3. IInv => ValidationIsCurrent
  BY DEF IInv, Sound, Matching, Matches, Config, ValidationIsCurrent
<1>. QED
  BY <1>1, <1>2, <1>3, PTL DEF Spec

------------------------------------------------------------------------------
(***************************************************************************)
(* The conversion an import shows is the graph in PostgreSQL.              *)
(*                                                                         *)
(* A conversion withdraws the one before it (setCorrelationResult) when it *)
(* has gathered its records, replaces the chunks in an await, and shows    *)
(* itself after it.  Two conversions that overlap are both marked.  The    *)
(* invariant says that nothing but a marked conversion is shown while      *)
(* another one is between these steps.                                     *)
(***************************************************************************)

Withdrawing == {"replacing", "converted"}

\* Conversions that are under way at the same time are marked.
OverlapsAreTorn ==
    \A c, d \in Busy("convert") : c # d => req[c].torn

\* While one replaces the chunks none is shown, but for one that is marked.
Withdrawn ==
    \A c \in Clients : req[c].pc \in Withdrawing =>
        /\ c \in Busy("convert")
        /\ session.conversion = None \/ session.conversion.torn

\* The chunks are those of the last one that replaced them.
Replaced ==
    \A c \in Clients : req[c].pc = "converted" => req[c].torn \/ req[c].n = chunks

ShownIsStored ==
    LET r == session.conversion
    IN  r = None \/ r.torn \/ lost.graph \/ r.n = chunks

GInv == /\ IInv
        /\ OverlapsAreTorn /\ Withdrawn /\ Replaced /\ ShownIsStored

------------------------------------------------------------------------------
(* Steps that are of no account to conversions                             *)

\* A request that keeps its mark and does not enter the steps of a conversion.
Keeps(d) ==
    /\ d \in Busy("convert")' => d \in Busy("convert") /\ (req[d].torn => req'[d].torn)
    /\ req'[d].pc \in Withdrawing =>
           /\ req'[d].pc = req[d].pc /\ req'[d].kind = req[d].kind /\ req'[d].n = req[d].n
           /\ req[d].torn => req'[d].torn

LEMMA QuietlyKeeps ==
    ASSUME GInv, IInv', UNCHANGED chunks, lost'.graph = lost.graph, \A d \in Clients : Keeps(d),
           session'.conversion = session.conversion \/ session'.conversion = None
    PROVE  GInv'
<1>1. OverlapsAreTorn'
  BY DEF GInv, OverlapsAreTorn, Keeps, Busy
<1>2. Withdrawn'
  <2> SUFFICES ASSUME NEW c \in Clients, req'[c].pc \in Withdrawing
               PROVE  /\ c \in Busy("convert")'
                      /\ session'.conversion = None \/ session'.conversion.torn
    BY DEF Withdrawn
  <2>1. c \in Busy("convert") /\ (session.conversion = None \/ session.conversion.torn)
    BY DEF GInv, Withdrawn, Keeps
  <2>2. req'[c].pc = req[c].pc /\ req'[c].kind = req[c].kind
    BY DEF Keeps
  <2>. QED
    BY <2>1, <2>2 DEF Busy, Free
<1>3. Replaced'
  BY DEF GInv, Replaced, Keeps, Withdrawing
<1>4. ShownIsStored'
  BY DEF GInv, ShownIsStored
<1>. QED
  BY <1>1, <1>2, <1>3, <1>4 DEF GInv

LEMMA QuietKeeps ==
    ASSUME GInv, IInv', UNCHANGED <<chunks, lost>>, \A d \in Clients : Keeps(d),
           session'.conversion = session.conversion \/ session'.conversion = None
    PROVE  GInv'
BY QuietlyKeeps

LEMMA TornKeeps ==
    ASSUME IInv, NEW cs, NEW d \in Clients
    PROVE  /\ Torn(cs)[d].pc = req[d].pc /\ Torn(cs)[d].kind = req[d].kind /\ Torn(cs)[d].n = req[d].n
           /\ req[d].torn => Torn(cs)[d].torn
           /\ d \in cs /\ ~Free(d) => Torn(cs)[d].torn
<1>1. Torn(cs)[d] = IF d \in cs /\ ~Free(d) THEN [req[d] EXCEPT !.torn = TRUE] ELSE req[d]
  BY DEF Torn
<1>2. RequestFormed(req[d])
  BY DEF IInv, RequestsSound
<1>. QED
  BY <1>1, <1>2 DEF RequestFormed

\* A request that is under way goes on to a step that is none of a conversion's.
LEMMA GoesKeeps ==
    ASSUME IInv, NEW c \in Clients, ~Free(c), NEW pc, pc \notin Withdrawing, Goes(c, pc)
    PROVE  \A d \in Clients : Keeps(d)
<1>1. req'[c] = [req[c] EXCEPT !.pc = pc] /\ \A d \in Clients : d # c => req'[d] = req[d]
  BY DEF IInv, RequestsSound, Goes
<1>2. req'[c].pc = pc /\ req'[c].kind = req[c].kind /\ req'[c].torn = req[c].torn
  BY <1>1 DEF IInv, RequestsSound, RequestFormed
<1>. QED
  BY <1>1, <1>2 DEF Keeps, Busy, Free

LEMMA ChangeKeeps ==
    ASSUME GInv, IInv', NEW next, Change(next), next.conversion = None
    PROVE  GInv'
<1>1. \A d \in Clients : Keeps(d)
  BY TornKeeps DEF GInv, Change, Keeps, Busy, Free
<1>. QED
  BY <1>1, QuietKeeps DEF Change, graphVars

\* A request that is asked for begins anew.
LEMMA AskedKeeps ==
    ASSUME GInv, IInv', NEW c \in Clients, NEW cs, NEW r, req' = [Torn(cs) EXCEPT ![c] = r],
           r.kind # "convert", r.pc \notin Withdrawing, UNCHANGED <<chunks, lost, session>>
    PROVE  GInv'
<1>1. req'[c] = r /\ \A d \in Clients : d # c => req'[d] = Torn(cs)[d]
  BY DEF Torn
<1>2. \A d \in Clients : d # c => Keeps(d)
  BY <1>1, TornKeeps DEF Keeps, Busy, Free, GInv
<1>3. Keeps(c)
  BY <1>1 DEF Keeps, Busy, Free
<1>. QED
  BY <1>2, <1>3, QuietKeeps

------------------------------------------------------------------------------
(* The changes and the requests that convert nothing                       *)

LEMMA InvalidatedNone ==
    ASSUME NEW s, DOMAIN s = DOMAIN session, IInv
    PROVE  /\ \A f : Invalidated(s, f).conversion = None
           /\ AllInvalidated(s).conversion = None
BY DEF Invalidated, AllInvalidated, IInv, Sound, Formed

LEMMA ChangesKeep ==
    ASSUME GInv, IInv', NEW f \in FileSet, ApplyMappings(f) \/ Classify(f) \/ RemoveFile(f)
    PROVE  GInv'
<1>1. CASE ApplyMappings(f)
  <2> DEFINE t == [session EXCEPT !.mapping[f] = budget.changes]
  <2>1. DOMAIN t = DOMAIN session /\ Change(Invalidated(t, f))
    BY <1>1 DEF ApplyMappings
  <2>. HIDE DEF t
  <2>. QED
    BY <2>1, InvalidatedNone, ChangeKeeps DEF GInv
<1>2. CASE Classify(f)
  <2> DEFINE t == [session EXCEPT !.class[f] = 1 - @, !.mapping[f] = 0]
  <2>1. DOMAIN t = DOMAIN session /\ Change(Invalidated(t, f))
    BY <1>2 DEF Classify
  <2>. HIDE DEF t
  <2>. QED
    BY <2>1, InvalidatedNone, ChangeKeeps DEF GInv
<1>3. CASE RemoveFile(f)
  <2> PICK i \in DOMAIN session.files :
               Change(AllInvalidated([session EXCEPT !.files = RemoveAt(@, i), !.mapping[f] = 0]))
    BY <1>3 DEF RemoveFile
  <2> DEFINE kept == RemoveAt(session.files, i)
             t == [session EXCEPT !.files = kept, !.mapping[f] = 0]
  <2> HIDE DEF kept
  <2>1. DOMAIN t = DOMAIN session
    OBVIOUS
  <2>2. Change(AllInvalidated(t))
    BY DEF kept
  <2>. HIDE DEF t
  <2>. QED
    BY <2>1, <2>2, InvalidatedNone, ChangeKeeps DEF GInv
<1>. QED
  BY <1>1, <1>2, <1>3

LEMMA WorkerKeeps ==
    ASSUME GInv, IInv', ParsedInChunks \/ ParsedInline \/ (\E f \in FileSet : WorkerStarts(f))
    PROVE  GInv'
<1>1. CASE ParsedInChunks
  <2>1. UNCHANGED <<chunks, lost, req>> /\ session'.conversion = session.conversion
    BY <1>1 DEF ParsedInChunks, graphVars, GInv, IInv, Sound, Formed
  <2>. QED
    BY <2>1, QuietKeeps DEF Keeps, Busy, Free
<1>2. CASE ParsedInline
  <2> DEFINE at == worker.at
             files == [i \in 1..Max({at, Len(session.files)}) |->
                          IF i = at THEN worker.file ELSE session.files[i]]
             t == [session EXCEPT !.files = files, !.parsed = @ \cup {worker.file},
                                  !.mapping[worker.file] = 0]
  <2> HIDE DEF files
  <2>1. UNCHANGED <<chunks, lost>> /\ req' = Torn(Clients) /\ session' = AllInvalidated(t)
    BY <1>2 DEF ParsedInline, graphVars, files
  <2>2. DOMAIN t = DOMAIN session
    OBVIOUS
  <2> HIDE DEF t
  <2>3. session'.conversion = None
    BY <2>1, <2>2, InvalidatedNone DEF GInv
  <2>4. \A d \in Clients : Keeps(d)
    BY <2>1, TornKeeps DEF GInv, Keeps, Busy, Free
  <2>. QED
    BY <2>1, <2>3, <2>4, QuietKeeps
<1>3. CASE \E f \in FileSet : WorkerStarts(f)
  <2>1. UNCHANGED <<chunks, lost, req, session>>
    BY <1>3 DEF WorkerStarts, graphVars
  <2>. QED
    BY <2>1, QuietKeeps DEF Keeps, Busy, Free
<1>. QED
  BY <1>1, <1>2, <1>3

LEMMA ValidateStartsKeeps ==
    ASSUME GInv, IInv', NEW c \in Clients, NEW f \in FileSet, ValidateStarts(c, f)
    PROVE  GInv'
<1> DEFINE others == {d \in Busy("validate") : req[d].file = f}
           r == [Idle EXCEPT !.pc = "validating", !.kind = "validate", !.file = f,
                             !.of = {<<f, Config(f)>>}, !.torn = others # {}]
<1> HIDE DEF others
<1>1. req' = [Torn(others) EXCEPT ![c] = r] /\ UNCHANGED <<chunks, lost, session>>
  BY DEF ValidateStarts, others, graphVars
<1>2. r.kind # "convert" /\ r.pc \notin Withdrawing
  BY DEF Idle, Withdrawing
<1> HIDE DEF r
<1>. QED
  BY <1>1, <1>2, AskedKeeps

LEMMA PersistStartsKeeps ==
    ASSUME GInv, IInv', NEW c \in Clients, PersistStarts(c)
    PROVE  GInv'
<1> DEFINE r == [Idle EXCEPT !.pc = IF budget.neo4j THEN "opening" ELSE "loading", !.kind = "persist"]
<1>1. req' = [req EXCEPT ![c] = r] /\ UNCHANGED <<chunks, lost, session>>
  BY DEF PersistStarts, graphVars
<1>2. r.kind # "convert" /\ r.pc \notin Withdrawing
  BY DEF Idle, Withdrawing
<1> HIDE DEF r
<1>3. req'[c] = r /\ \A d \in Clients : d # c => req'[d] = req[d]
  BY <1>1 DEF GInv, IInv, RequestsSound
<1>4. \A d \in Clients : Keeps(d)
  BY <1>2, <1>3 DEF Keeps, Busy, Free
<1>. QED
  BY <1>1, <1>4, QuietKeeps

\* The steps that only go on.
LEMMA GoingKeeps ==
    ASSUME GInv, IInv', NEW c \in Clients, ~Free(c), NEW pc, pc \notin Withdrawing, Goes(c, pc),
           UNCHANGED <<chunks, lost>>,
           session'.conversion = session.conversion \/ session'.conversion = None
    PROVE  GInv'
BY GoesKeeps, QuietKeeps DEF GInv

\* The steps that note something else than the mark and the kind.
LEMMA NotingKeeps ==
    ASSUME GInv, IInv', NEW c \in Clients, ~Free(c), \A d \in Clients : d # c => req'[d] = req[d],
           req'[c].kind = req[c].kind, req'[c].torn = req[c].torn, req'[c].pc \notin Withdrawing,
           UNCHANGED <<chunks, lost, session>>
    PROVE  GInv'
<1>1. \A d \in Clients : Keeps(d)
  BY DEF Keeps, Busy, Free
<1>. QED
  BY <1>1, QuietKeeps

LEMMA ValidationsKeep ==
    ASSUME GInv, IInv', NEW c \in Clients,
           ValidateStores(c) \/ IssuesDeleted(c) \/ IssuesSaved(c) \/ IssuesFail(c)
    PROVE  GInv'
<1>1. CASE ValidateStores(c)
  <2>1. session'.conversion = session.conversion
    BY <1>1 DEF ValidateStores, GInv, IInv, Sound, Formed
  <2>. QED
    BY <1>1, <2>1, GoingKeeps DEF ValidateStores, Free, graphVars, Withdrawing
<1>2. CASE IssuesDeleted(c)
  BY <1>2, GoingKeeps DEF IssuesDeleted, Free, graphVars, Withdrawing
<1>3. CASE IssuesSaved(c) \/ IssuesFail(c)
  <2>1. /\ ~Free(c) /\ (Goes(c, "answered") \/ Goes(c, "refused"))
        /\ UNCHANGED <<chunks, session>> /\ lost'.graph = lost.graph
    BY <1>3 DEF IssuesSaved, IssuesFail, Lost, Free, graphVars
  <2>2. \A d \in Clients : Keeps(d)
    BY <2>1, GoesKeeps DEF GInv, Withdrawing
  <2>. QED
    BY <2>1, <2>2, QuietlyKeeps
<1>. QED
  BY <1>1, <1>2, <1>3

LEMMA PersistsKeep ==
    ASSUME GInv, IInv', NEW c \in Clients,
           \/ LoadNodes(c) \/ LoadLinks(c) \/ RiskSaved(c) \/ Refresh(c)
           \/ VersionOpens(c) \/ TransactionCommits(c) \/ ApplyFails(c) \/ ApplyCompletes(c)
    PROVE  GInv'
<1>1. CASE LoadNodes(c)
  <2>1. req' = [req EXCEPT ![c].pc = "linking", ![c].graph.nodes = chunks] /\ req[c].pc = "loading"
        /\ UNCHANGED <<chunks, lost, session>>
    BY <1>1 DEF LoadNodes, graphVars
  <2>2. /\ \A d \in Clients : d # c => req'[d] = req[d]
        /\ req'[c].kind = req[c].kind /\ req'[c].torn = req[c].torn /\ req'[c].pc = "linking"
    BY <2>1 DEF GInv, IInv, RequestsSound, RequestFormed
  <2>. QED
    BY <2>1, <2>2, NotingKeeps DEF Withdrawing, Free
<1>2. CASE LoadLinks(c)
  <2> DEFINE g == [req[c].graph EXCEPT !.links = chunks]
             r == [req EXCEPT ![c].graph = g]
             keys == {Key(w) : w \in pending'}
  <2>1. /\ req[c].pc = "linking" /\ UNCHANGED <<chunks, lost, session>>
        /\ \/ req' = [r EXCEPT ![c].pc = "committing"]
           \/ req' = [r EXCEPT ![c].pc = "flushing", ![c].awaits = keys]
    BY <1>2 DEF LoadLinks, Flushing
  <2> HIDE DEF g, keys
  <2>2. /\ \A d \in Clients : d # c => req'[d] = req[d]
        /\ req'[c].kind = req[c].kind /\ req'[c].torn = req[c].torn
        /\ req'[c].pc \in {"committing", "flushing"}
    BY <2>1 DEF GInv, IInv, RequestsSound, RequestFormed
  <2>. QED
    BY <2>1, <2>2, NotingKeeps DEF Withdrawing, Free
<1>3. CASE RiskSaved(c)
  <2>1. Goes(c, "refreshing") \/ Goes(c, "refused")
    BY <1>3 DEF RiskSaved
  <2>. QED
    BY <1>3, <2>1, GoingKeeps DEF RiskSaved, Ended, Free, Withdrawing
<1>4. CASE Refresh(c)
  BY <1>4, GoingKeeps DEF Refresh, Free, Withdrawing
<1>5. CASE VersionOpens(c)
  <2> DEFINE n == Len(versions')
  <2>1. req' = [req EXCEPT ![c].pc = "loading", ![c].n = n] /\ req[c].pc = "opening"
        /\ UNCHANGED <<chunks, lost, session>>
    BY <1>5 DEF VersionOpens
  <2> HIDE DEF n
  <2>2. /\ \A d \in Clients : d # c => req'[d] = req[d]
        /\ req'[c].kind = req[c].kind /\ req'[c].torn = req[c].torn /\ req'[c].pc = "loading"
    BY <2>1 DEF GInv, IInv, RequestsSound, RequestFormed
  <2>. QED
    BY <2>1, <2>2, NotingKeeps DEF Withdrawing, Free
<1>6. CASE TransactionCommits(c)
  BY <1>6, GoingKeeps DEF TransactionCommits, Free, Withdrawing
<1>7. CASE ApplyFails(c)
  BY <1>7, GoingKeeps DEF ApplyFails, Free, Withdrawing
<1>8. CASE ApplyCompletes(c)
  BY <1>8, GoingKeeps DEF ApplyCompletes, HasCommitted, Free, Withdrawing
<1>. QED
  BY <1>1, <1>2, <1>3, <1>4, <1>5, <1>6, <1>7, <1>8

LEMMA GatherKeeps ==
    ASSUME GInv, IInv', NEW c \in Clients, Gather(c)
    PROVE  GInv'
<1> DEFINE of == Gathered(c, session.files[req[c].at])
<1>1. req' = [req EXCEPT ![c].of = of, ![c].at = @ + 1] /\ req[c].pc = "gathering"
      /\ UNCHANGED <<chunks, lost, session>>
  BY DEF Gather, graphVars
<1> HIDE DEF of
<1>2. /\ \A d \in Clients : d # c => req'[d] = req[d]
      /\ req'[c].kind = req[c].kind /\ req'[c].torn = req[c].torn /\ req'[c].pc = "gathering"
  BY <1>1 DEF GInv, IInv, RequestsSound, RequestFormed
<1>. QED
  BY <1>1, <1>2, NotingKeeps DEF Withdrawing, Free

LEMMA CorrelateKeeps ==
    ASSUME GInv, IInv', NEW c \in Clients, Correlate(c)
    PROVE  GInv'
<1>1. session'.conversion = None
  BY DEF Correlate, Correlated, GInv, IInv, Sound, Formed
<1>. QED
  BY <1>1, GoingKeeps DEF Correlate, AllGathered, Free, graphVars, Withdrawing

LEMMA ConvertEndsKeeps ==
    ASSUME GInv, IInv', NEW c \in Clients, ConvertEnds(c)
    PROVE  GInv'
BY GoingKeeps DEF ConvertEnds, Ended, Free, graphVars, Withdrawing

------------------------------------------------------------------------------
(* A conversion                                                            *)

\* A conversion that starts while others are under way marks them and itself.
LEMMA GatherStartsKeeps ==
    ASSUME GInv, IInv', NEW c \in Clients, NEW kind \in {"correlate", "convert"},
           GatherStarts(c, kind)
    PROVE  GInv'
<1> DEFINE others == IF kind = "convert" THEN Busy(kind) ELSE {}
           r == [Idle EXCEPT !.pc = IF Parsed \cap Truncated = {} THEN "gathering" ELSE "refused",
                             !.kind = kind, !.at = 1, !.torn = others # {}]
<1>1. req' = [Torn(others) EXCEPT ![c] = r] /\ UNCHANGED <<chunks, lost, session>> /\ Free(c)
  BY DEF GatherStarts, graphVars, Asked
<1>2. r.kind = kind /\ r.pc \in {"gathering", "refused"} /\ r.torn = (others # {})
  BY DEF Idle
<1> HIDE DEF r, others
<1>3. req'[c] = r /\ \A d \in Clients : d # c => req'[d] = Torn(others)[d]
  BY <1>1 DEF Torn
<1>4. \A d \in Clients : d # c => Keeps(d)
  BY <1>3, TornKeeps DEF Keeps, Busy, Free, GInv
<1>5. OverlapsAreTorn'
  <2> SUFFICES ASSUME NEW a \in Busy("convert")', NEW b \in Busy("convert")', a # b
               PROVE  req'[a].torn
    BY DEF OverlapsAreTorn
  <2>1. CASE a = c
    <3>1. b \in Busy("convert") /\ kind = "convert"
      BY <1>2, <1>3, <1>4, <2>1 DEF Keeps, Busy
    <3>. QED
      BY <1>2, <1>3, <2>1, <3>1 DEF others
  <2>2. CASE b = c
    <3>1. a \in Busy("convert") /\ kind = "convert" /\ a # c
      BY <1>2, <1>3, <1>4, <2>2 DEF Keeps, Busy
    <3>. QED
      BY <1>3, <3>1, TornKeeps DEF Busy, GInv, others
  <2>3. CASE a # c /\ b # c
    BY <1>4, <2>3 DEF Keeps, GInv, OverlapsAreTorn, Busy
  <2>. QED
    BY <2>1, <2>2, <2>3
<1>6. \A d \in Clients : req'[d].pc \in Withdrawing =>
          /\ d # c /\ req'[d].pc = req[d].pc /\ req'[d].kind = req[d].kind /\ req'[d].n = req[d].n
          /\ req[d].torn => req'[d].torn
  BY <1>2, <1>3, <1>4 DEF Keeps, Withdrawing
<1>7. Withdrawn'
  BY <1>1, <1>6 DEF GInv, Withdrawn, Busy, Free, Withdrawing
<1>8. Replaced'
  <2>1. \A d \in Clients : req'[d].pc = "converted" =>
            req[d].pc = "converted" /\ req'[d].n = req[d].n /\ (req[d].torn => req'[d].torn)
    BY <1>6 DEF Withdrawing
  <2>. QED
    BY <1>1, <2>1 DEF GInv, Replaced
<1>9. ShownIsStored'
  BY <1>1 DEF GInv, ShownIsStored
<1>. QED
  BY <1>1, <1>5, <1>7, <1>8, <1>9 DEF GInv

\* The conversion before it is withdrawn.
LEMMA ConvertKeeps ==
    ASSUME GInv, IInv', NEW c \in Clients, Convert(c)
    PROVE  GInv'
<1> DEFINE known == session.correlation
           used == IF known.of # {} THEN known ELSE Result(req[c].of, 0, req[c].torn)
<1>1. /\ req[c].kind = "convert" /\ req[c].pc = "gathering"
      /\ session' = Correlated(session, used) /\ UNCHANGED <<chunks, lost>>
      /\ req' = [req EXCEPT ![c].pc = "replacing", ![c].torn = @ \/ used.torn]
  BY DEF Convert, AllGathered, graphVars
<1> HIDE DEF used
<1>2. session'.conversion = None
  BY <1>1 DEF Correlated, GInv, IInv, Sound, Formed
<1>3. /\ \A d \in Clients : d # c => req'[d] = req[d]
      /\ req'[c].kind = "convert" /\ req'[c].pc = "replacing" /\ (req[c].torn => req'[c].torn)
  BY <1>1 DEF GInv, IInv, RequestsSound, RequestFormed
<1>4. Busy("convert")' = Busy("convert")
  BY <1>1, <1>3 DEF Busy, Free
<1>5. OverlapsAreTorn'
  BY <1>3, <1>4 DEF GInv, OverlapsAreTorn, Busy
<1>6. Withdrawn'
  <2>1. \A d \in Clients : req'[d].pc \in Withdrawing => d \in Busy("convert")
    BY <1>1, <1>3 DEF GInv, Withdrawn, Busy, Free
  <2>. QED
    BY <1>2, <1>4, <2>1 DEF Withdrawn
<1>7. Replaced'
  BY <1>1, <1>3 DEF GInv, Replaced
<1>8. ShownIsStored'
  BY <1>2 DEF ShownIsStored
<1>. QED
  BY <1>1, <1>5, <1>6, <1>7, <1>8 DEF GInv

\* The chunks are replaced: those of another conversion at this step are marked.
LEMMA ChunksReplacedKeeps ==
    ASSUME GInv, IInv', NEW c \in Clients, ChunksReplaced(c)
    PROVE  GInv'
<1> DEFINE n == chunks'
<1>1. /\ req[c].pc = "replacing" /\ UNCHANGED <<session, lost>>
      /\ req' = [req EXCEPT ![c].pc = "converted", ![c].n = n]
  BY DEF ChunksReplaced
<1> HIDE DEF n
<1>2. /\ \A d \in Clients : d # c => req'[d] = req[d]
      /\ req'[c].kind = req[c].kind /\ req'[c].pc = "converted" /\ req'[c].n = n
      /\ req[c].torn => req'[c].torn
  BY <1>1 DEF GInv, IInv, RequestsSound, RequestFormed
<1>3. Busy("convert")' = Busy("convert") /\ c \in Busy("convert")
      /\ (session.conversion = None \/ session.conversion.torn)
  <2>1. c \in Busy("convert") /\ (session.conversion = None \/ session.conversion.torn)
    BY <1>1 DEF GInv, Withdrawn, Withdrawing
  <2>2. ASSUME NEW d \in Clients PROVE d \in Busy("convert")' <=> d \in Busy("convert")
    <3>1. d # c => req'[d].pc = req[d].pc /\ req'[d].kind = req[d].kind
      BY <1>2
    <3>. QED
      BY <1>1, <1>2, <3>1 DEF Busy, Free
  <2>3. Busy("convert") \subseteq Clients /\ Busy("convert")' \subseteq Clients
    BY DEF Busy
  <2>. QED
    BY <2>1, <2>2, <2>3
<1>4. OverlapsAreTorn'
  BY <1>2, <1>3 DEF GInv, OverlapsAreTorn, Busy
<1>5. Withdrawn'
  <2>1. \A d \in Clients : req'[d].pc \in Withdrawing => d \in Busy("convert")
    BY <1>2, <1>3 DEF GInv, Withdrawn
  <2>. QED
    BY <1>1, <1>3, <2>1 DEF Withdrawn
<1>6. Replaced'
  <2> SUFFICES ASSUME NEW d \in Clients, req'[d].pc = "converted"
               PROVE  req'[d].torn \/ req'[d].n = chunks'
    BY DEF Replaced
  <2>1. CASE d = c
    BY <1>2, <2>1 DEF n
  <2>2. CASE d # c
    <3>1. d \in Busy("convert")
      BY <1>2, <2>2 DEF GInv, Withdrawn, Withdrawing
    <3>2. req[d].torn
      BY <1>3, <2>2, <3>1 DEF GInv, OverlapsAreTorn
    <3>. QED
      BY <1>2, <2>2, <3>2
  <2>. QED
    BY <2>1, <2>2
<1>7. ShownIsStored'
  BY <1>1, <1>3 DEF ShownIsStored
<1>. QED
  BY <1>1, <1>4, <1>5, <1>6, <1>7 DEF GInv

\* The conversion is shown: those that are between these steps overlap with it.
LEMMA ConversionStoredKeeps ==
    ASSUME GInv, IInv', NEW c \in Clients, ConversionStored(c)
    PROVE  GInv'
<1> DEFINE keys == {Key(w) : w \in pending'}
           r == req[c]
<1>1. /\ r.pc = "converted" /\ UNCHANGED chunks
      /\ req' = [req EXCEPT ![c].pc = "saving", ![c].awaits = keys]
  BY DEF ConversionStored, HasReplaced, Flushing, graphVars
<1>2. session'.conversion = Result(r.of, r.n, r.torn)
  BY DEF ConversionStored, GInv, IInv, Sound, Formed
<1>3. session'.conversion.torn = r.torn /\ session'.conversion.n = r.n
  BY <1>2 DEF Result
<1> HIDE DEF keys
<1>4. /\ \A d \in Clients : d # c => req'[d] = req[d]
      /\ req'[c].kind = r.kind /\ req'[c].pc = "saving" /\ req'[c].torn = r.torn
  BY <1>1 DEF GInv, IInv, RequestsSound, RequestFormed
<1>5. Busy("convert")' = Busy("convert") /\ c \in Busy("convert")
  BY <1>1, <1>4 DEF GInv, Withdrawn, Withdrawing, Busy, Free
<1>6. OverlapsAreTorn'
  BY <1>4, <1>5 DEF GInv, OverlapsAreTorn, Busy
<1>7. Withdrawn'
  <2> SUFFICES ASSUME NEW d \in Clients, req'[d].pc \in Withdrawing
               PROVE  d \in Busy("convert") /\ session'.conversion.torn
    BY <1>5 DEF Withdrawn
  <2>1. d # c /\ d \in Busy("convert")
    BY <1>4 DEF GInv, Withdrawn, Withdrawing
  <2>2. r.torn
    BY <1>5, <2>1 DEF GInv, OverlapsAreTorn
  <2>. QED
    BY <1>3, <2>1, <2>2
<1>8. Replaced'
  BY <1>1, <1>4 DEF GInv, Replaced
<1>9. ShownIsStored'
  BY <1>1, <1>3 DEF GInv, Replaced, ShownIsStored
<1>. QED
  BY <1>1, <1>6, <1>7, <1>8, <1>9 DEF GInv

------------------------------------------------------------------------------
(* The specification                                                       *)

LEMMA InitKeeps == ASSUME Init PROVE GInv
<1>1. IInv
  BY InitSound
<1>2. \A c \in Clients : req[c].pc = "idle"
  BY DEF Init, Idle
<1>3. session.conversion = None
  BY DEF Init, Uploaded
<1>. QED
  BY <1>1, <1>2, <1>3 DEF GInv, OverlapsAreTorn, Withdrawn, Replaced, ShownIsStored, Busy, Free,
                          Withdrawing

\* A restart that finds another session than the one it lost is noted.
LEMMA RestartKeeps == ASSUME GInv, IInv', Restart PROVE GInv'
<1>1. \A c \in Clients : req'[c].pc = "idle"
  BY DEF Restart, Idle
<1>2. /\ lost'.graph \/ (session'.conversion = session.conversion /\ ~lost.graph)
      /\ UNCHANGED chunks
  BY DEF Restart, Lost
<1>3. ShownIsStored'
  BY <1>2 DEF GInv, ShownIsStored
<1>4. OverlapsAreTorn' /\ Withdrawn' /\ Replaced'
  BY <1>1 DEF OverlapsAreTorn, Withdrawn, Replaced, Busy, Free, Withdrawing
<1>. QED
  BY <1>2, <1>3, <1>4 DEF GInv

LEMMA WritesKeep ==
    ASSUME GInv, IInv', NEW w \in pending, WriteLands(w) \/ WriteFails(w)
    PROVE  GInv'
<1>1. UNCHANGED <<chunks, lost, req, session>>
  BY DEF WriteLands, WriteFails, graphVars
<1>. QED
  BY <1>1, QuietKeeps DEF Keeps, Busy, Free

LEMMA StepKeeps == ASSUME GInv, [Next]_vars PROVE GInv'
<1>1. IInv'
  BY StepSound DEF GInv
<1>2. CASE UNCHANGED vars
  <2>1. UNCHANGED <<chunks, lost, req, session>>
    BY <1>2 DEF vars
  <2>. QED
    BY <1>1, <2>1, QuietKeeps DEF Keeps, Busy, Free
<1>3. ASSUME NEW c \in Clients, RequestStarts(c) PROVE GInv'
  BY <1>1, <1>3, ValidateStartsKeeps, GatherStartsKeeps, PersistStartsKeeps DEF RequestStarts
<1>4. ASSUME NEW c \in Clients, RequestGoesOn(c) PROVE GInv'
  BY <1>1, <1>4, ValidationsKeep, GatherKeeps, CorrelateKeeps, ConvertKeeps, ChunksReplacedKeeps,
     ConversionStoredKeeps, ConvertEndsKeeps, PersistsKeep DEF RequestGoesOn
<1>. QED
  BY <1>1, <1>2, <1>3, <1>4, ChangesKeep, WorkerKeeps, WritesKeep, RestartKeeps DEF Next

------------------------------------------------------------------------------
(***************************************************************************)
(* What a step does to the requests: one of them goes on, the others are   *)
(* marked at most, and each is at an await of what it was asked for.       *)
(***************************************************************************)

\* A request that is marked at most.
Same(r, q) ==
    /\ q.pc = r.pc /\ q.kind = r.kind /\ q.file = r.file /\ q.at = r.at /\ q.n = r.n
    /\ q.of = r.of /\ q.graph = r.graph /\ q.awaits = r.awaits
    /\ r.torn => q.torn

\* A request that goes on and notes nothing.
Rest(r, q) ==
    /\ q.kind = r.kind /\ q.file = r.file /\ q.at = r.at /\ q.n = r.n
    /\ q.of = r.of /\ q.graph = r.graph /\ q.awaits = r.awaits /\ q.torn = r.torn

Others(c) == \A d \in Clients \ {c} : Same(req[d], req'[d])

Validating == {"validating", "clearing", "reporting"}
Persisting == {"opening", "loading", "linking", "committing", "completing", "flushing",
               "refreshing"}

\* The awaits of a request are those of its kind.
Suits(r) ==
    \/ r.pc \in {"idle", "answered", "refused"}
    \/ r.kind = "validate" /\ r.pc \in Validating
    \/ r.kind \in {"correlate", "convert"} /\ r.pc = "gathering"
    \/ r.kind = "convert" /\ r.pc \in {"replacing", "converted", "saving"}
    \/ r.kind = "persist" /\ r.pc \in Persisting

RInv == IInv /\ \A c \in Clients : Suits(req[c])

LEMMA TornSame ==
    ASSUME IInv, NEW cs, NEW d \in Clients
    PROVE  Same(req[d], Torn(cs)[d]) /\ (d \in cs /\ ~Free(d) => Torn(cs)[d].torn)
<1>1. Torn(cs)[d] = IF d \in cs /\ ~Free(d) THEN [req[d] EXCEPT !.torn = TRUE] ELSE req[d]
  BY DEF Torn
<1>2. RequestFormed(req[d])
  BY DEF IInv, RequestsSound
<1>. QED
  BY <1>1, <1>2 DEF RequestFormed, Same

LEMMA GoesDoes ==
    ASSUME IInv, NEW c \in Clients, NEW pc, Goes(c, pc)
    PROVE  Others(c) /\ req'[c].pc = pc /\ Rest(req[c], req'[c])
<1>1. RequestFormed(req[c]) /\ DOMAIN req = Clients
  BY DEF IInv, RequestsSound
<1>2. req'[c] = [req[c] EXCEPT !.pc = pc] /\ \A d \in Clients \ {c} : req'[d] = req[d]
  BY <1>1 DEF Goes
<1>. QED
  BY <1>1, <1>2 DEF Others, Same, Rest, RequestFormed

\* A request that is asked for begins anew.
LEMMA AskedDoes ==
    ASSUME IInv, NEW c \in Clients, NEW cs, NEW r, req' = [Torn(cs) EXCEPT ![c] = r]
    PROVE  /\ Others(c) /\ req'[c] = r
           /\ \A d \in cs \ {c} : d \in Clients /\ ~Free(d) => req'[d].torn
<1>1. req'[c] = r /\ \A d \in Clients \ {c} : req'[d] = Torn(cs)[d]
  BY DEF Torn
<1>. QED
  BY <1>1, TornSame DEF Others

LEMMA GatherDoes ==
    ASSUME IInv, NEW c \in Clients, Gather(c)
    PROVE  /\ Others(c) /\ req[c].pc = "gathering" /\ req'[c].pc = "gathering"
           /\ req'[c].kind = req[c].kind /\ req'[c].torn = req[c].torn
           /\ req'[c].of = Gathered(c, session.files[req[c].at]) /\ req'[c].at = req[c].at + 1
<1> DEFINE of == Gathered(c, session.files[req[c].at])
<1>1. req' = [req EXCEPT ![c].of = of, ![c].at = @ + 1] /\ req[c].pc = "gathering"
  BY DEF Gather
<1>2. RequestFormed(req[c]) /\ DOMAIN req = Clients
  BY DEF IInv, RequestsSound
<1> HIDE DEF of
<1>3. req'[c] = [req[c] EXCEPT !.of = of, !.at = @ + 1] /\ \A d \in Clients \ {c} : req'[d] = req[d]
  BY <1>1, <1>2
<1>4. /\ req'[c].of = of /\ req'[c].at = req[c].at + 1 /\ req'[c].pc = req[c].pc
      /\ req'[c].kind = req[c].kind /\ req'[c].torn = req[c].torn
  BY <1>2, <1>3 DEF RequestFormed
<1>. QED
  BY <1>1, <1>3, <1>4 DEF Others, Same, of

LEMMA ConvertDoes ==
    ASSUME IInv, NEW c \in Clients, Convert(c)
    PROVE  LET known == session.correlation
               used == IF known.of # {} THEN known ELSE Result(req[c].of, 0, req[c].torn)
           IN  /\ Others(c) /\ AllGathered(c, "convert") /\ session' = Correlated(session, used)
               /\ req'[c].pc = "replacing" /\ req'[c].kind = "convert" /\ req'[c].of = req[c].of
               /\ req'[c].torn = (req[c].torn \/ used.torn)
<1> DEFINE known == session.correlation
           used == IF known.of # {} THEN known ELSE Result(req[c].of, 0, req[c].torn)
           torn == req[c].torn \/ used.torn
<1>1. /\ req' = [req EXCEPT ![c].pc = "replacing", ![c].torn = @ \/ used.torn]
      /\ AllGathered(c, "convert") /\ session' = Correlated(session, used)
  BY DEF Convert
<1> HIDE DEF used
<1>2. RequestFormed(req[c]) /\ DOMAIN req = Clients
  BY DEF IInv, RequestsSound
<1>3. req'[c] = [req[c] EXCEPT !.pc = "replacing", !.torn = torn]
      /\ \A d \in Clients \ {c} : req'[d] = req[d]
  BY <1>1, <1>2
<1> HIDE DEF torn
<1>4. req'[c].pc = "replacing" /\ req'[c].kind = req[c].kind /\ req'[c].of = req[c].of
      /\ req'[c].torn = torn
  BY <1>2, <1>3 DEF RequestFormed
<1>5. Others(c) /\ req'[c].kind = "convert"
  BY <1>1, <1>3, <1>4 DEF Others, Same, AllGathered
<1>. QED
  BY <1>1, <1>4, <1>5 DEF torn, used

LEMMA ChunksReplacedDoes ==
    ASSUME IInv, NEW c \in Clients, ChunksReplaced(c)
    PROVE  /\ Others(c) /\ req[c].pc = "replacing" /\ req'[c].pc = "converted"
           /\ req'[c].kind = req[c].kind /\ req'[c].of = req[c].of /\ req'[c].torn = req[c].torn
<1> DEFINE n == chunks'
<1>1. req' = [req EXCEPT ![c].pc = "converted", ![c].n = n] /\ req[c].pc = "replacing"
  BY DEF ChunksReplaced
<1> HIDE DEF n
<1>2. RequestFormed(req[c]) /\ DOMAIN req = Clients
  BY DEF IInv, RequestsSound
<1>3. req'[c] = [req[c] EXCEPT !.pc = "converted", !.n = n] /\ \A d \in Clients \ {c} : req'[d] = req[d]
  BY <1>1, <1>2
<1>4. req'[c].pc = "converted" /\ req'[c].kind = req[c].kind /\ req'[c].of = req[c].of
      /\ req'[c].torn = req[c].torn
  BY <1>2, <1>3 DEF RequestFormed
<1>. QED
  BY <1>1, <1>3, <1>4 DEF Others, Same

LEMMA ConversionStoredDoes ==
    ASSUME IInv, NEW c \in Clients, ConversionStored(c)
    PROVE  /\ Others(c) /\ req[c].pc = "converted" /\ req'[c].pc = "saving"
           /\ req'[c].kind = req[c].kind
<1> DEFINE keys == {Key(w) : w \in pending'}
<1>1. req' = [req EXCEPT ![c].pc = "saving", ![c].awaits = keys] /\ req[c].pc = "converted"
  BY DEF ConversionStored, HasReplaced, Flushing
<1> HIDE DEF keys
<1>2. RequestFormed(req[c]) /\ DOMAIN req = Clients
  BY DEF IInv, RequestsSound
<1>3. req'[c] = [req[c] EXCEPT !.pc = "saving", !.awaits = keys]
      /\ \A d \in Clients \ {c} : req'[d] = req[d]
  BY <1>1, <1>2
<1>4. req'[c].pc = "saving" /\ req'[c].kind = req[c].kind
  BY <1>2, <1>3 DEF RequestFormed
<1>. QED
  BY <1>1, <1>3, <1>4 DEF Others, Same

LEMMA PersistStartsDoes ==
    ASSUME IInv, NEW c \in Clients, PersistStarts(c)
    PROVE  /\ Others(c) /\ Free(c) /\ req'[c].kind = "persist" /\ req'[c].graph = NoGraph
           /\ req'[c].pc = IF budget.neo4j THEN "opening" ELSE "loading"
<1> DEFINE r == [Idle EXCEPT !.pc = IF budget.neo4j THEN "opening" ELSE "loading", !.kind = "persist"]
<1>1. req' = [req EXCEPT ![c] = r] /\ Free(c)
  BY DEF PersistStarts, Asked
<1>2. r.kind = "persist" /\ r.graph = NoGraph /\ r.pc = IF budget.neo4j THEN "opening" ELSE "loading"
  BY DEF Idle
<1> HIDE DEF r
<1>3. req'[c] = r /\ \A d \in Clients \ {c} : req'[d] = req[d]
  BY <1>1 DEF IInv, RequestsSound
<1>. QED
  BY <1>1, <1>2, <1>3 DEF Others, Same

LEMMA LoadNodesDoes ==
    ASSUME IInv, NEW c \in Clients, LoadNodes(c)
    PROVE  /\ Others(c) /\ req[c].pc = "loading" /\ req'[c].pc = "linking"
           /\ req'[c].kind = req[c].kind /\ req'[c].n = req[c].n
           /\ req'[c].graph = [req[c].graph EXCEPT !.nodes = chunks]
<1> DEFINE g == [req[c].graph EXCEPT !.nodes = chunks]
<1>1. RequestFormed(req[c]) /\ DOMAIN req = Clients
  BY DEF IInv, RequestsSound
<1>2. req'[c] = [req[c] EXCEPT !.pc = "linking", !.graph = g] /\ \A d \in Clients \ {c} : req'[d] = req[d]
  BY <1>1 DEF LoadNodes, RequestFormed
<1> HIDE DEF g
<1>3. req'[c].pc = "linking" /\ req'[c].kind = req[c].kind /\ req'[c].n = req[c].n /\ req'[c].graph = g
  BY <1>1, <1>2 DEF RequestFormed
<1>. QED
  BY <1>2, <1>3 DEF Others, Same, LoadNodes, g

LEMMA LoadLinksDoes ==
    ASSUME IInv, NEW c \in Clients, LoadLinks(c)
    PROVE  LET g == [req[c].graph EXCEPT !.links = chunks]
           IN  /\ Others(c) /\ req[c].pc = "linking" /\ req'[c].kind = req[c].kind
               /\ req'[c].n = req[c].n /\ req'[c].graph = g
               /\ IF budget.neo4j THEN req'[c].pc = "committing" /\ UNCHANGED <<risk, pending>>
                  ELSE /\ req'[c].pc = "flushing" /\ SetMemoryGraph(c, g)
                       /\ req'[c].awaits = {Key(w) : w \in pending'}
<1> DEFINE g == [req[c].graph EXCEPT !.links = chunks]
           r == [req EXCEPT ![c].graph = g]
           keys == {Key(w) : w \in pending'}
<1>1. RequestFormed(req[c]) /\ DOMAIN req = Clients
  BY DEF IInv, RequestsSound
<1>2. /\ req[c].pc = "linking"
      /\ IF budget.neo4j THEN req' = [r EXCEPT ![c].pc = "committing"] /\ UNCHANGED <<risk, pending>>
         ELSE SetMemoryGraph(c, g) /\ req' = [r EXCEPT ![c].pc = "flushing", ![c].awaits = keys]
  BY DEF LoadLinks, Flushing
<1> HIDE DEF g, keys
<1>3. CASE budget.neo4j
  <2>1. req'[c] = [req[c] EXCEPT !.graph = g, !.pc = "committing"] /\ \A d \in Clients \ {c} : req'[d] = req[d]
    BY <1>1, <1>2, <1>3 DEF RequestFormed
  <2>2. req'[c].pc = "committing" /\ req'[c].kind = req[c].kind /\ req'[c].n = req[c].n /\ req'[c].graph = g
    BY <1>1, <2>1 DEF RequestFormed
  <2>. QED
    BY <1>2, <1>3, <2>1, <2>2 DEF Others, Same, g
<1>4. CASE ~budget.neo4j
  <2>1. req'[c] = [req[c] EXCEPT !.graph = g, !.pc = "flushing", !.awaits = keys]
        /\ \A d \in Clients \ {c} : req'[d] = req[d]
    BY <1>1, <1>2, <1>4 DEF RequestFormed
  <2>2. req'[c].pc = "flushing" /\ req'[c].kind = req[c].kind /\ req'[c].n = req[c].n /\ req'[c].graph = g
        /\ req'[c].awaits = keys
    BY <1>1, <2>1 DEF RequestFormed
  <2>. QED
    BY <1>2, <1>4, <2>1, <2>2 DEF Others, Same, g, keys
<1>. QED
  BY <1>3, <1>4

LEMMA VersionOpensDoes ==
    ASSUME IInv, NEW c \in Clients, VersionOpens(c)
    PROVE  /\ Others(c) /\ req[c].pc = "opening" /\ req'[c].pc = "loading"
           /\ req'[c].kind = req[c].kind /\ req'[c].n = Len(versions') /\ req'[c].graph = req[c].graph
<1> DEFINE n == Len(versions')
<1>1. req' = [req EXCEPT ![c].pc = "loading", ![c].n = n] /\ req[c].pc = "opening"
  BY DEF VersionOpens
<1> HIDE DEF n
<1>2. RequestFormed(req[c]) /\ DOMAIN req = Clients
  BY DEF IInv, RequestsSound
<1>3. req'[c] = [req[c] EXCEPT !.pc = "loading", !.n = n] /\ \A d \in Clients \ {c} : req'[d] = req[d]
  BY <1>1, <1>2
<1>4. req'[c].pc = "loading" /\ req'[c].kind = req[c].kind /\ req'[c].n = n
      /\ req'[c].graph = req[c].graph
  BY <1>2, <1>3 DEF RequestFormed
<1>. QED
  BY <1>1, <1>3, <1>4 DEF Others, Same, n

LEMMA ValidateStartsDoes ==
    ASSUME IInv, NEW c \in Clients, NEW f \in FileSet, ValidateStarts(c, f)
    PROVE  LET others == {d \in Busy("validate") : req[d].file = f}
           IN  /\ Others(c) /\ Free(c)
               /\ req'[c].pc = "validating" /\ req'[c].kind = "validate" /\ req'[c].file = f
               /\ req'[c].of = {<<f, Config(f)>>} /\ (~req'[c].torn => others = {})
               /\ \A d \in others \ {c} : req'[d].torn
<1> DEFINE others == {d \in Busy("validate") : req[d].file = f}
           r == [Idle EXCEPT !.pc = "validating", !.kind = "validate", !.file = f,
                             !.of = {<<f, Config(f)>>}, !.torn = others # {}]
<1>1. req' = [Torn(others) EXCEPT ![c] = r] /\ Free(c)
  BY DEF ValidateStarts, Asked
<1>2. \A d \in others : d \in Clients /\ ~Free(d)
  BY DEF Busy
<1> HIDE DEF others
<1>3. /\ r.pc = "validating" /\ r.kind = "validate" /\ r.file = f
      /\ r.of = {<<f, Config(f)>>} /\ r.torn = (others # {})
  BY DEF Idle
<1> HIDE DEF r
<1>4. /\ Others(c) /\ req'[c] = r
      /\ \A d \in others \ {c} : d \in Clients /\ ~Free(d) => req'[d].torn
  BY <1>1, AskedDoes
<1>. QED
  BY <1>1, <1>2, <1>3, <1>4 DEF others

LEMMA GatherStartsDoes ==
    ASSUME IInv, NEW c \in Clients, NEW kind, GatherStarts(c, kind)
    PROVE  /\ Others(c) /\ Free(c) /\ req'[c].kind = kind
           /\ req'[c].pc \in {"gathering", "refused"} /\ req'[c].at = 1 /\ req'[c].of = {}
<1> DEFINE others == IF kind = "convert" THEN Busy(kind) ELSE {}
           r == [Idle EXCEPT !.pc = IF Parsed \cap Truncated = {} THEN "gathering" ELSE "refused",
                             !.kind = kind, !.at = 1, !.torn = others # {}]
<1>1. req' = [Torn(others) EXCEPT ![c] = r] /\ Free(c)
  BY DEF GatherStarts, Asked
<1> HIDE DEF others
<1>2. r.kind = kind /\ r.pc \in {"gathering", "refused"} /\ r.at = 1 /\ r.of = {}
  BY DEF Idle
<1> HIDE DEF r
<1>3. Others(c) /\ req'[c] = r
  BY <1>1, AskedDoes
<1>. QED
  BY <1>1, <1>2, <1>3

LEMMA RestartDoes == ASSUME Restart PROVE \A d \in Clients : req'[d].pc = "idle" /\ req'[d].kind = "none"
BY DEF Restart, Idle

\* The changes, and the worker that parses in one go, mark every request.
LEMMA AllMarked ==
    ASSUME IInv, req' = Torn(Clients)
    PROVE  \A d \in Clients : Same(req[d], req'[d]) /\ (~Free(d) => req'[d].torn)
BY TornSame

LEMMA ChangesMark ==
    ASSUME IInv, NEW f \in FileSet, ApplyMappings(f) \/ Classify(f) \/ RemoveFile(f)
    PROVE  req' = Torn(Clients)
BY DEF ApplyMappings, Classify, RemoveFile, Change

------------------------------------------------------------------------------
(* The steps, and the awaits they lead to                                  *)

Going(c, from, to) == Others(c) /\ req[c].pc \in from /\ req'[c].pc \in to /\ Rest(req[c], req'[c])

\* The steps that only go on.
LEMMA OnlyGoes ==
    ASSUME IInv, NEW c \in Clients
    PROVE  /\ ValidateStores(c) => Going(c, {"validating"}, {"clearing"})
           /\ IssuesDeleted(c) => Going(c, {"clearing"}, {"reporting"})
           /\ IssuesSaved(c) => Going(c, {"reporting"}, {"answered"})
           /\ IssuesFail(c) => Going(c, {"clearing", "reporting"}, {"refused"})
           /\ Correlate(c) => Going(c, {"gathering"}, {"answered"})
           /\ ConvertEnds(c) => Going(c, {"saving"}, {"answered", "refused"})
           /\ RiskSaved(c) => Going(c, {"flushing"}, {"refreshing", "refused"})
           /\ Refresh(c) => Going(c, {"refreshing"}, {"answered"})
           /\ TransactionCommits(c) => Going(c, {"committing"}, {"completing"})
           /\ ApplyFails(c) => Going(c, {"committing", "completing"}, {"refused"})
           /\ ApplyCompletes(c) => Going(c, {"completing"}, {"answered"})
<1>1. ASSUME NEW from, NEW to, req[c].pc \in from, NEW pc \in to, Goes(c, pc) PROVE Going(c, from, to)
  BY <1>1, GoesDoes DEF Going
<1>2. ValidateStores(c) => Going(c, {"validating"}, {"clearing"})
  BY <1>1 DEF ValidateStores
<1>3. IssuesDeleted(c) => Going(c, {"clearing"}, {"reporting"})
  BY <1>1 DEF IssuesDeleted
<1>4. IssuesSaved(c) => Going(c, {"reporting"}, {"answered"})
  BY <1>1 DEF IssuesSaved
<1>5. Correlate(c) => Going(c, {"gathering"}, {"answered"})
  BY <1>1 DEF Correlate, AllGathered
<1>6. ConvertEnds(c) => Going(c, {"saving"}, {"answered", "refused"})
  BY <1>1 DEF ConvertEnds, Ended
<1>7. RiskSaved(c) => Going(c, {"flushing"}, {"refreshing", "refused"})
  BY <1>1 DEF RiskSaved, Ended
<1>8. Refresh(c) => Going(c, {"refreshing"}, {"answered"})
  BY <1>1 DEF Refresh
<1>9. TransactionCommits(c) => Going(c, {"committing"}, {"completing"})
  BY <1>1 DEF TransactionCommits
<1>10. ApplyFails(c) => Going(c, {"committing", "completing"}, {"refused"})
  BY <1>1 DEF ApplyFails
<1>11. ApplyCompletes(c) => Going(c, {"completing"}, {"answered"})
  BY <1>1 DEF ApplyCompletes, HasCommitted
<1>12. IssuesFail(c) => Going(c, {"clearing", "reporting"}, {"refused"})
  BY <1>1 DEF IssuesFail
<1>. QED
  BY <1>2, <1>3, <1>4, <1>5, <1>6, <1>7, <1>8, <1>9, <1>10, <1>11, <1>12

LEMMA SuitsStep ==
    ASSUME RInv, IInv', NEW c \in Clients, Others(c), Suits(req'[c])
    PROVE  RInv'
<1>1. \A d \in Clients \ {c} : Suits(req'[d])
  BY DEF RInv, Others, Same, Suits
<1>. QED
  BY <1>1 DEF RInv

LEMMA GoesOnSuits ==
    ASSUME RInv, IInv', NEW c \in Clients, RequestGoesOn(c)
    PROVE  RInv'
<1> USE SuitsStep
<1>0. IInv /\ Suits(req[c])
  BY DEF RInv
<1>1. CASE ValidateStores(c)
  BY <1>0, <1>1, OnlyGoes DEF Going, Rest, Suits, Validating, Persisting
<1>2. CASE IssuesDeleted(c)
  BY <1>0, <1>2, OnlyGoes DEF Going, Rest, Suits, Validating, Persisting
<1>3. CASE IssuesSaved(c) \/ IssuesFail(c) \/ Correlate(c) \/ ConvertEnds(c) \/ Refresh(c) \/ ApplyFails(c)
           \/ ApplyCompletes(c)
  BY <1>0, <1>3, OnlyGoes DEF Going, Rest, Suits
<1>4. CASE RiskSaved(c)
  BY <1>0, <1>4, OnlyGoes DEF Going, Rest, Suits, Validating, Persisting
<1>5. CASE TransactionCommits(c)
  BY <1>0, <1>5, OnlyGoes DEF Going, Rest, Suits, Validating, Persisting
<1>6. CASE Gather(c)
  BY <1>0, <1>6, GatherDoes DEF Suits, Validating, Persisting
<1>7. CASE Convert(c)
  <2>1. Others(c) /\ req'[c].kind = "convert" /\ req'[c].pc = "replacing"
    BY <1>0, <1>7, ConvertDoes
  <2>. QED
    BY <2>1 DEF Suits
<1>8. CASE ChunksReplaced(c)
  BY <1>0, <1>8, ChunksReplacedDoes DEF Suits, Validating, Persisting
<1>9. CASE ConversionStored(c)
  BY <1>0, <1>9, ConversionStoredDoes DEF Suits, Validating, Persisting
<1>10. CASE LoadNodes(c)
  BY <1>0, <1>10, LoadNodesDoes DEF Suits, Validating, Persisting
<1>11. CASE LoadLinks(c)
  <2>1. Others(c) /\ req[c].pc = "linking" /\ req'[c].kind = req[c].kind
        /\ req'[c].pc \in {"committing", "flushing"}
    BY <1>0, <1>11, LoadLinksDoes
  <2>. QED
    BY <1>0, <2>1 DEF Suits, Validating, Persisting
<1>12. CASE VersionOpens(c)
  BY <1>0, <1>12, VersionOpensDoes DEF Suits, Validating, Persisting
<1>. QED
  BY <1>1, <1>2, <1>3, <1>4, <1>5, <1>6, <1>7, <1>8, <1>9, <1>10, <1>11, <1>12 DEF RequestGoesOn

\* What the other steps are to the requests.
LEMMA OtherSteps ==
    ASSUME IInv, [Next]_vars, ~Restart, ~(\E c \in Clients : RequestStarts(c) \/ RequestGoesOn(c))
    PROVE  (\A d \in Clients : Same(req[d], req'[d]))
           /\ UNCHANGED <<issues, lost, chunks, risk, versions, applied>>
<1>1. req' = Torn(Clients) => \A d \in Clients : Same(req[d], req'[d])
  BY AllMarked
<1>2. UNCHANGED req => \A d \in Clients : Same(req[d], req'[d])
  BY DEF Same
<1>3. ASSUME NEW f \in FileSet, ApplyMappings(f) \/ Classify(f) \/ RemoveFile(f)
      PROVE  req' = Torn(Clients) /\ UNCHANGED <<issues, lost, graphVars>>
  BY <1>3 DEF ApplyMappings, Classify, RemoveFile, Change
<1>4. ASSUME NEW w \in pending, WriteLands(w) \/ WriteFails(w)
      PROVE  UNCHANGED <<req, issues, lost, graphVars>>
  BY <1>4 DEF WriteLands, WriteFails
<1>5. (\E f \in FileSet : WorkerStarts(f)) \/ ParsedInChunks => UNCHANGED <<req, issues, lost, graphVars>>
  BY DEF WorkerStarts, ParsedInChunks
<1>6. ParsedInline => req' = Torn(Clients) /\ UNCHANGED <<issues, lost, graphVars>>
  BY DEF ParsedInline
<1>7. UNCHANGED vars => UNCHANGED <<req, issues, lost, graphVars>>
  BY DEF vars, graphVars
<1>8. (req' = Torn(Clients) \/ UNCHANGED req) /\ UNCHANGED <<issues, lost, graphVars>>
  BY <1>3, <1>4, <1>5, <1>6, <1>7 DEF Next
<1>. QED
  BY <1>1, <1>2, <1>8 DEF graphVars

LEMMA StepSuits == ASSUME RInv, [Next]_vars PROVE RInv'
<1>1. IInv /\ IInv'
  BY StepSound DEF RInv
<1>2. CASE \E c \in Clients : RequestGoesOn(c)
  BY <1>1, <1>2, GoesOnSuits
<1>3. ASSUME NEW c \in Clients, RequestStarts(c) PROVE RInv'
  <2>1. ASSUME NEW f \in FileSet, ValidateStarts(c, f) PROVE RInv'
    BY <1>1, <2>1, ValidateStartsDoes, SuitsStep DEF Suits, Validating
  <2>2. ASSUME NEW kind \in {"correlate", "convert"}, GatherStarts(c, kind) PROVE RInv'
    BY <1>1, <2>2, GatherStartsDoes, SuitsStep DEF Suits
  <2>3. CASE PersistStarts(c)
    BY <1>1, <2>3, PersistStartsDoes, SuitsStep DEF Suits, Persisting
  <2>. QED
    BY <1>3, <2>1, <2>2, <2>3 DEF RequestStarts
<1>4. CASE Restart
  BY <1>1, <1>4, RestartDoes DEF RInv, Suits
<1>5. CASE ~Restart /\ ~(\E c \in Clients : RequestStarts(c) \/ RequestGoesOn(c))
  BY <1>1, <1>5, OtherSteps DEF RInv, Same, Suits
<1>. QED
  BY <1>2, <1>3, <1>4, <1>5

LEMMA InitSuits == ASSUME Init PROVE RInv
BY InitSound DEF RInv, Init, Idle, Suits

------------------------------------------------------------------------------
(***************************************************************************)
(* The conversion an import shows is the graph in PostgreSQL, or an        *)
(* earlier one where requests overlapped or a restart came in between.     *)
(*                                                                         *)
(* A conversion gets its number when its chunks replace those before, and  *)
(* is set in the session after that: in the session, its row and every     *)
(* write under way there is never one that has not been stored.            *)
(***************************************************************************)

WasStored(s) == s.conversion = None \/ s.conversion.n \in 1..chunks

ConversionsStored ==
    /\ WasStored(session) /\ WasStored(rows["import"])
    /\ \A w \in pending : w.row = "import" => WasStored(w.value)

OInv == /\ GInv /\ RInv /\ chunks \in Nat /\ ConversionsStored
        /\ \A c \in Clients : req[c].pc = "converted" => req[c].n \in 1..chunks

\* Whatever else changes the session keeps the conversion or drops it.
LEMMA ConversionGoes ==
    ASSUME IInv, [Next]_vars, ~Restart, ~(\E c \in Clients : ConversionStored(c))
    PROVE  session'.conversion = session.conversion \/ session'.conversion = None
<1>0. Formed(session)
  BY DEF IInv, Sound
<1>1. ASSUME NEW f \in FileSet, ApplyMappings(f) PROVE session'.conversion = None
  BY <1>0, <1>1 DEF ApplyMappings, Change, Invalidated, Formed
<1>2. ASSUME NEW f \in FileSet, Classify(f) PROVE session'.conversion = None
  BY <1>0, <1>2 DEF Classify, Change, Invalidated, Formed
<1>3. ASSUME NEW t, Formed(t), session' = AllInvalidated(t) PROVE session'.conversion = None
  BY <1>3 DEF AllInvalidated, Formed
<1>4. ASSUME NEW f \in FileSet, RemoveFile(f) PROVE session'.conversion = None
  <2> PICK i \in DOMAIN session.files :
               Change(AllInvalidated([session EXCEPT !.files = RemoveAt(@, i), !.mapping[f] = 0]))
    BY <1>4 DEF RemoveFile
  <2> DEFINE kept == RemoveAt(session.files, i)
             t == [session EXCEPT !.files = kept, !.mapping[f] = 0]
  <2> HIDE DEF kept
  <2>1. Formed(t)
    BY <1>0 DEF Formed
  <2>2. session' = AllInvalidated(t)
    BY DEF kept, Change
  <2> HIDE DEF t
  <2>. QED
    BY <1>3, <2>1, <2>2
<1>5. ASSUME ParsedInline PROVE session'.conversion = None
  <2> DEFINE at == worker.at
             files == [i \in 1..Max({at, Len(session.files)}) |->
                          IF i = at THEN worker.file ELSE session.files[i]]
             t == [session EXCEPT !.files = files, !.parsed = @ \cup {worker.file},
                                  !.mapping[worker.file] = 0]
  <2> HIDE DEF files
  <2>1. Formed(t)
    BY <1>0 DEF Formed
  <2>2. session' = AllInvalidated(t)
    BY <1>5 DEF ParsedInline, files
  <2>. HIDE DEF t
  <2>. QED
    BY <1>3, <2>1, <2>2
<1>6. ParsedInChunks => session'.conversion = session.conversion
  BY <1>0 DEF ParsedInChunks, Formed
<1>7. ASSUME NEW c \in Clients, RequestGoesOn(c)
      PROVE  session'.conversion \in {session.conversion, None}
  <2>1. ValidateStores(c) => session'.conversion = session.conversion
    BY <1>0 DEF ValidateStores, Formed
  <2>2. Correlate(c) => session'.conversion = None
    BY <1>0 DEF Correlate, Correlated, Formed
  <2>3. Convert(c) => session'.conversion = None
    <3> DEFINE known == session.correlation
               used == IF known.of # {} THEN known ELSE Result(req[c].of, 0, req[c].torn)
    <3>1. Convert(c) => session' = Correlated(session, used)
      BY DEF Convert
    <3> HIDE DEF used
    <3>. QED
      BY <1>0, <3>1 DEF Correlated, Formed
  <2>4. ~(ValidateStores(c) \/ Correlate(c) \/ Convert(c) \/ ConversionStored(c)) => UNCHANGED session
    BY <1>7 DEF RequestGoesOn, IssuesDeleted, IssuesSaved, IssuesFail, Gather, ChunksReplaced,
       ConvertEnds, LoadNodes, LoadLinks, RiskSaved, Refresh, VersionOpens, TransactionCommits,
       ApplyFails, ApplyCompletes
  <2>. QED
    BY <2>1, <2>2, <2>3, <2>4
<1>8. ASSUME NEW c \in Clients, RequestStarts(c) PROVE UNCHANGED session
  BY <1>8 DEF RequestStarts, ValidateStarts, GatherStarts, PersistStarts
<1>9. (\E f \in FileSet : WorkerStarts(f)) \/ (\E w \in pending : WriteLands(w) \/ WriteFails(w))
      \/ UNCHANGED vars => UNCHANGED session
  BY DEF WorkerStarts, WriteLands, WriteFails, vars
<1>. QED
  BY <1>1, <1>2, <1>4, <1>5, <1>6, <1>7, <1>8, <1>9 DEF Next

\* A row of the session is only written as the session is then, by a step that saves it.
LEMMA SessionWrites ==
    ASSUME [Next]_vars, NEW w \in pending', w.row = "import"
    PROVE  w \in pending \/ w.value = session'
<1> DEFINE Goal == \/ pending' \subseteq pending
                   \/ \E owner : Snapshot(owner)
                   \/ \E owner, g : pending' = pending \cup {[owner |-> owner, row |-> "imported", value |-> g]}
<1>1. ASSUME NEW f \in FileSet, ApplyMappings(f) \/ Classify(f) \/ RemoveFile(f) PROVE Goal
  BY <1>1 DEF ApplyMappings, Classify, RemoveFile, Change
<1>2. ASSUME NEW c \in Clients, RequestStarts(c) PROVE Goal
  BY <1>2 DEF RequestStarts, ValidateStarts, GatherStarts, PersistStarts, storeVars
<1>3. ASSUME NEW c \in Clients, RequestGoesOn(c) PROVE Goal
  <2>1. ValidateStores(c) \/ Correlate(c) \/ Convert(c) \/ ConversionStored(c) => Goal
    BY DEF ValidateStores, Correlate, Convert, ConversionStored
  <2>2. LoadLinks(c) \/ RiskSaved(c) => Goal
    BY DEF LoadLinks, RiskSaved, SetMemoryGraph, SetImportedGraph, Save
  <2>3. ~(ValidateStores(c) \/ Correlate(c) \/ Convert(c) \/ ConversionStored(c))
        /\ ~(LoadLinks(c) \/ RiskSaved(c)) => UNCHANGED pending
    BY <1>3 DEF RequestGoesOn, IssuesDeleted, IssuesSaved, IssuesFail, Gather, ChunksReplaced,
       ConvertEnds, LoadNodes, Refresh, VersionOpens, TransactionCommits, ApplyFails,
       ApplyCompletes, storeVars
  <2> HIDE DEF Goal
  <2>4. UNCHANGED pending => Goal
    BY DEF Goal
  <2>. QED
    BY <2>1, <2>2, <2>3, <2>4
<1>4. ASSUME NEW v \in pending, WriteLands(v) \/ WriteFails(v) PROVE Goal
  BY <1>4 DEF WriteLands, WriteFails, Lands, Fails
<1>5. (\E f \in FileSet : WorkerStarts(f)) \/ UNCHANGED vars => Goal
  BY DEF WorkerStarts, storeVars, vars
<1>6. ParsedInChunks \/ ParsedInline => Goal
  BY DEF ParsedInChunks, ParsedInline
<1>7. Restart => Goal
  BY DEF Restart
<1>8. Goal
  <2>. HIDE DEF Goal
  <2>. QED
    BY <1>1, <1>2, <1>3, <1>4, <1>5, <1>6, <1>7 DEF Next
<1>. QED
  BY <1>8 DEF Snapshot, Save

\* The row gets the conversion of a write.
LEMMA SessionRow ==
    ASSUME IInv, [Next]_vars
    PROVE  \/ rows'["import"] = rows["import"]
           \/ \E w \in pending : /\ w.row = "import"
                                 /\ rows'["import"].conversion = w.value.conversion
<1>1. ASSUME NEW w \in pending, WriteLands(w)
      PROVE  \/ rows'["import"] = rows["import"]
             \/ w.row = "import" /\ rows'["import"].conversion = w.value.conversion
  <2>1. DOMAIN rows = {"import", "imported"} /\ (w.row = "import" => Formed(w.value))
    BY DEF IInv, StoresSound, Sound
  <2>2. w.row = "import" => Late(w).conversion = w.value.conversion
    BY <2>1 DEF Late, Formed
  <2>. QED
    BY <1>1, <2>1, <2>2 DEF WriteLands, Lands
<1>2. ~(\E w \in pending : WriteLands(w)) => UNCHANGED rows
  BY DEF Next, ApplyMappings, Classify, RemoveFile, Change, RequestStarts, ValidateStarts,
     GatherStarts, PersistStarts, RequestGoesOn, ValidateStores, IssuesDeleted, IssuesSaved,
     IssuesFail, Gather, Correlate, Convert, ChunksReplaced, ConversionStored, ConvertEnds,
     LoadNodes, LoadLinks, RiskSaved, Refresh, VersionOpens, TransactionCommits, ApplyFails,
     ApplyCompletes, WriteFails, Fails, WorkerStarts, ParsedInChunks, ParsedInline, Restart,
     storeVars, vars
<1>. QED
  BY <1>1, <1>2

\* The step at which a request has replaced the chunks.
LEMMA RequestsConvert ==
    ASSUME RInv, [Next]_vars, NEW d \in Clients, req'[d].pc = "converted"
    PROVE  (req[d].pc = "converted" /\ req'[d].n = req[d].n) \/ ChunksReplaced(d)
<1>0. IInv
  BY DEF RInv
<1>1. ASSUME NEW c \in Clients, Others(c), c # d \/ req'[c].pc # "converted"
      PROVE  req[d].pc = "converted" /\ req'[d].n = req[d].n
  BY <1>1 DEF Others, Same
<1>2. ASSUME NEW c \in Clients, RequestGoesOn(c), ~ChunksReplaced(c)
      PROVE  req[d].pc = "converted" /\ req'[d].n = req[d].n
  <2>1. Others(c) /\ req'[c].pc # "converted"
    <3>1. \/ ValidateStores(c) \/ IssuesDeleted(c) \/ IssuesSaved(c) \/ IssuesFail(c)
          \/ Correlate(c) \/ ConvertEnds(c) \/ RiskSaved(c) \/ Refresh(c)
          \/ TransactionCommits(c) \/ ApplyFails(c) \/ ApplyCompletes(c)
          => Others(c) /\ req'[c].pc # "converted"
      BY <1>0, OnlyGoes DEF Going
    <3>2. Convert(c) => Others(c) /\ req'[c].pc # "converted"
      BY <1>0, ConvertDoes
    <3>3. LoadLinks(c) => Others(c) /\ req'[c].pc # "converted"
      BY <1>0, LoadLinksDoes
    <3>4. Gather(c) \/ ConversionStored(c) \/ LoadNodes(c) \/ VersionOpens(c)
          => Others(c) /\ req'[c].pc # "converted"
      BY <1>0, GatherDoes, ConversionStoredDoes, LoadNodesDoes, VersionOpensDoes
    <3>. QED
      BY <1>2, <3>1, <3>2, <3>3, <3>4 DEF RequestGoesOn
  <2>. QED
    BY <1>1, <2>1
<1>3. ASSUME NEW c \in Clients, ChunksReplaced(c), c # d
      PROVE  req[d].pc = "converted" /\ req'[d].n = req[d].n
  BY <1>0, <1>1, <1>3, ChunksReplacedDoes
<1>4. ASSUME NEW c \in Clients, RequestStarts(c)
      PROVE  req[d].pc = "converted" /\ req'[d].n = req[d].n
  <2>1. Others(c) /\ req'[c].pc # "converted"
    <3>1. ASSUME NEW f \in FileSet, ValidateStarts(c, f) PROVE Others(c) /\ req'[c].pc # "converted"
      BY <1>0, <3>1, ValidateStartsDoes
    <3>2. ASSUME NEW kind, GatherStarts(c, kind) PROVE Others(c) /\ req'[c].pc # "converted"
      BY <1>0, <3>2, GatherStartsDoes
    <3>3. PersistStarts(c) => Others(c) /\ req'[c].pc # "converted"
      BY <1>0, PersistStartsDoes
    <3>. QED
      BY <1>4, <3>1, <3>2, <3>3 DEF RequestStarts
  <2>. QED
    BY <1>1, <2>1
<1>5. ~Restart
  BY RestartDoes
<1>6. ASSUME ~(\E c \in Clients : RequestStarts(c) \/ RequestGoesOn(c))
      PROVE  req[d].pc = "converted" /\ req'[d].n = req[d].n
  BY <1>0, <1>5, <1>6, OtherSteps DEF Same
<1>. QED
  BY <1>2, <1>3, <1>4, <1>6

\* The number of the chunks never goes down.
LEMMA ChunksStep ==
    ASSUME IInv, [Next]_vars, chunks \in Nat
    PROVE  UNCHANGED chunks \/ (chunks' = chunks + 1 /\ \E c \in Clients : ChunksReplaced(c))
<1>1. ASSUME NEW c \in Clients, RequestGoesOn(c), ~ChunksReplaced(c) PROVE UNCHANGED chunks
  BY <1>1 DEF RequestGoesOn, ValidateStores, IssuesDeleted, IssuesSaved, IssuesFail, Gather,
     Correlate, Convert, ConversionStored, ConvertEnds, LoadNodes, LoadLinks, RiskSaved, Refresh,
     VersionOpens, TransactionCommits, ApplyFails, ApplyCompletes, graphVars
<1>2. ASSUME NEW c \in Clients, RequestStarts(c) PROVE UNCHANGED chunks
  BY <1>2 DEF RequestStarts, ValidateStarts, GatherStarts, PersistStarts, graphVars
<1>3. Restart => UNCHANGED chunks
  BY DEF Restart
<1>4. ~Restart /\ ~(\E c \in Clients : RequestStarts(c) \/ RequestGoesOn(c)) => UNCHANGED chunks
  BY OtherSteps
<1>5. \A c \in Clients : ChunksReplaced(c) => chunks' = chunks + 1
  BY DEF ChunksReplaced
<1>. QED
  BY <1>1, <1>2, <1>3, <1>4, <1>5

LEMMA StepStored == ASSUME OInv, [Next]_vars PROVE OInv'
<1>1. GInv' /\ RInv' /\ IInv
  BY StepKeeps, StepSuits DEF OInv, RInv
<1>2. chunks' \in Nat /\ chunks <= chunks'
  BY <1>1, ChunksStep DEF OInv
<1>3. ASSUME NEW s, NEW t, WasStored(s), t.conversion = s.conversion \/ t.conversion = None
      PROVE  t.conversion = None \/ t.conversion.n \in 1..chunks'
  BY <1>2, <1>3 DEF WasStored, OInv
<1>4. \A c \in Clients : req'[c].pc = "converted" => req'[c].n \in 1..chunks'
  <2> SUFFICES ASSUME NEW c \in Clients, req'[c].pc = "converted"
               PROVE  req'[c].n \in 1..chunks'
    OBVIOUS
  <2>1. CASE req[c].pc = "converted" /\ req'[c].n = req[c].n
    BY <1>2, <2>1 DEF OInv
  <2>2. CASE ChunksReplaced(c)
    <3> DEFINE n == chunks'
    <3>1. req' = [req EXCEPT ![c].pc = "converted", ![c].n = n] /\ n = chunks + 1
      BY <2>2 DEF ChunksReplaced
    <3> HIDE DEF n
    <3>2. req'[c].n = n
      BY <1>1, <3>1 DEF IInv, RequestsSound, RequestFormed
    <3>. QED
      BY <3>1, <3>2 DEF n, OInv
  <2>. QED
    BY <2>1, <2>2, RequestsConvert DEF OInv
<1>5. session'.conversion = None \/ session'.conversion.n \in 1..chunks'
  <2>1. ASSUME NEW c \in Clients, ConversionStored(c)
        PROVE  session'.conversion.n \in 1..chunks'
    <3>1. req[c].pc = "converted" /\ req[c].n \in 1..chunks
      BY <2>1 DEF ConversionStored, HasReplaced, OInv
    <3>2. session'.conversion.n = req[c].n
      BY <1>1, <2>1 DEF ConversionStored, Result, IInv, Sound, Formed
    <3>. QED
      BY <1>2, <3>1, <3>2 DEF OInv
  <2>2. CASE Restart
    BY <1>3, <2>2 DEF Restart, OInv, ConversionsStored
  <2>3. CASE ~Restart /\ ~(\E c \in Clients : ConversionStored(c))
    BY <1>1, <1>3, <2>3, ConversionGoes DEF OInv, ConversionsStored
  <2>. QED
    BY <2>1, <2>2, <2>3
<1>6. rows'["import"].conversion = None \/ rows'["import"].conversion.n \in 1..chunks'
  BY <1>1, <1>3, SessionRow DEF OInv, ConversionsStored
<1>7. \A w \in pending' : w.row = "import" =>
          w.value.conversion = None \/ w.value.conversion.n \in 1..chunks'
  BY <1>3, <1>5, SessionWrites DEF OInv, ConversionsStored
<1>. QED
  BY <1>1, <1>2, <1>4, <1>5, <1>6, <1>7 DEF OInv, ConversionsStored, WasStored

LEMMA InitStored == ASSUME Init PROVE OInv
<1>1. GInv /\ RInv
  BY InitKeeps, InitSuits
<1>2. chunks = 0 /\ pending = {} /\ rows["import"] = session /\ session.conversion = None
  BY DEF Init, GraphInit, Uploaded
<1>3. \A c \in Clients : req[c].pc = "idle"
  BY DEF Init, Idle
<1>. QED
  BY <1>1, <1>2, <1>3 DEF OInv, ConversionsStored, WasStored

\* A conversion is shown only when its graph is in PostgreSQL or a later one is; it is the very
\* graph there, in the previews too, unless it overlapped with a change or another conversion, or
\* a restart interrupted a conversion or did not find the row of the last one, which the next
\* conversion that is alone repairs (convert, ImportGraphChunkService.replace).
THEOREM ConversionIsStored == Spec => []GraphOfConversion
<1>1. Init => OInv
  BY InitStored
<1>2. OInv /\ [Next]_vars => OInv'
  BY StepStored
<1>3. OInv => GraphOfConversion
  BY DEF OInv, ConversionsStored, WasStored, GInv, ShownIsStored, GraphOfConversion, Preview
<1>. QED
  BY <1>1, <1>2, <1>3, PTL DEF Spec

------------------------------------------------------------------------------
(***************************************************************************)
(* The durable report of a sheet holds the issues of its last validation.  *)
(*                                                                         *)
(* A validation stores its result first and its issues later, in two       *)
(* statements.  One that meets no other of the sheet is alone between      *)
(* these steps; those that meet are marked before they store a result.     *)
(* The invariant says where the issues of a shown result are: a validation *)
(* that is about to replace the result is under way, the one that saves    *)
(* them is the only one, or they are there.                                *)
(***************************************************************************)

\* The validations of a sheet that are under way.
OnFile(f) == {c \in Clients : req[c].pc \in Validating /\ req[c].file = f}

\* A validation that has to store its result yet is marked when there is another one.
ReadersAreTorn ==
    \A c, d \in Clients :
        /\ c # d /\ req[c].pc = "validating" /\ req[d].pc \in Validating
        /\ req[c].file = req[d].file
        => req[c].torn

Reported(f, of) ==
    \/ \E c \in OnFile(f) : req[c].pc = "validating"
    \/ \E c \in Clients : /\ OnFile(f) = {c} /\ req[c].of = of
                          /\ req[c].pc = "reporting" => issues[f] = {}
    \/ /\ OnFile(f) = {}
       /\ f \in lost.reports \/ \E c \in Clients : issues[f] = {<<c, of>>}

Reports ==
    \A f \in FileSet :
        LET v == session.validation[f]
        IN  v = None \/ v.torn \/ Reported(f, v.of)

VInv == RInv /\ DOMAIN issues = FileSet /\ ReadersAreTorn /\ Reports

\* Validations that are marked at most.
Unmoved == \A d \in Clients :
    req[d].pc \in Validating \/ req'[d].pc \in Validating => Same(req[d], req'[d])

LEMMA UnmovedReports ==
    ASSUME VInv, RInv', Unmoved, UNCHANGED issues, lost'.reports = lost.reports,
           \A f \in FileSet : session'.validation[f] = session.validation[f]
                              \/ session'.validation[f] = None
    PROVE  VInv'
<1>1. ReadersAreTorn'
  BY DEF VInv, ReadersAreTorn, Unmoved, Same, Validating
<1>2. ASSUME NEW f \in FileSet PROVE OnFile(f)' = OnFile(f)
  BY DEF OnFile, Unmoved, Same
<1>3. ASSUME NEW f \in FileSet, NEW of, Reported(f, of) PROVE Reported(f, of)'
  <2>1. ASSUME NEW c \in OnFile(f) PROVE c \in Clients /\ Same(req[c], req'[c])
    BY DEF OnFile, Unmoved
  <2>. QED
    BY <1>2, <1>3, <2>1 DEF Reported, Same
<1>4. Reports'
  BY <1>3 DEF VInv, Reports
<1>. QED
  BY <1>1, <1>4 DEF VInv

LEMMA ElsewhereReports ==
    ASSUME VInv, RInv', NEW c \in Clients, Others(c), req[c].pc \notin Validating,
           req'[c].pc \notin Validating, UNCHANGED issues, lost'.reports = lost.reports,
           session'.validation = session.validation
    PROVE  VInv'
<1>1. Unmoved
  BY DEF Unmoved, Others
<1>. QED
  BY <1>1, UnmovedReports

\* Whatever else changes the session, it keeps validations or drops them.
LEMMA ValidationsGo ==
    ASSUME IInv, [Next]_vars, ~Restart, ~(\E c \in Clients : RequestStarts(c) \/ RequestGoesOn(c)),
           NEW g \in FileSet
    PROVE  session'.validation[g] = session.validation[g] \/ session'.validation[g] = None
<1>0. Formed(session)
  BY DEF IInv, Sound
<1>1. ASSUME NEW f \in FileSet, ApplyMappings(f) PROVE session'.validation[g] \in {session.validation[g], None}
  BY <1>0, <1>1 DEF ApplyMappings, Change, Invalidated, Formed
<1>2. ASSUME NEW f \in FileSet, Classify(f) PROVE session'.validation[g] \in {session.validation[g], None}
  BY <1>0, <1>2 DEF Classify, Change, Invalidated, Formed
<1>3. ASSUME NEW t, Formed(t), session' = AllInvalidated(t) PROVE session'.validation[g] = None
  BY <1>3 DEF AllInvalidated, Formed
<1>4. ASSUME NEW f \in FileSet, RemoveFile(f) PROVE session'.validation[g] = None
  <2> PICK i \in DOMAIN session.files :
               Change(AllInvalidated([session EXCEPT !.files = RemoveAt(@, i), !.mapping[f] = 0]))
    BY <1>4 DEF RemoveFile
  <2> DEFINE kept == RemoveAt(session.files, i)
             t == [session EXCEPT !.files = kept, !.mapping[f] = 0]
  <2> HIDE DEF kept
  <2>1. Formed(t)
    BY <1>0 DEF Formed
  <2>2. session' = AllInvalidated(t)
    BY DEF kept, Change
  <2> HIDE DEF t
  <2>. QED
    BY <1>3, <2>1, <2>2
<1>5. CASE ParsedInline
  <2> DEFINE at == worker.at
             files == [i \in 1..Max({at, Len(session.files)}) |->
                          IF i = at THEN worker.file ELSE session.files[i]]
             t == [session EXCEPT !.files = files, !.parsed = @ \cup {worker.file},
                                  !.mapping[worker.file] = 0]
  <2> HIDE DEF files
  <2>1. Formed(t)
    BY <1>0 DEF Formed
  <2>2. session' = AllInvalidated(t)
    BY <1>5 DEF ParsedInline, files
  <2>. HIDE DEF t
  <2>. QED
    BY <1>3, <2>1, <2>2
<1>6. CASE ParsedInChunks
  BY <1>0, <1>6 DEF ParsedInChunks, Formed
<1>7. (\E f \in FileSet : WorkerStarts(f)) \/ (\E w \in pending : WriteLands(w) \/ WriteFails(w))
      \/ UNCHANGED vars => UNCHANGED session
  BY DEF WorkerStarts, WriteLands, WriteFails, vars
<1>. QED
  BY <1>1, <1>2, <1>4, <1>5, <1>6, <1>7 DEF Next

------------------------------------------------------------------------------
(* The steps of a validation                                               *)

LEMMA ValidateStartsReports ==
    ASSUME VInv, RInv', NEW c \in Clients, NEW f \in FileSet, ValidateStarts(c, f)
    PROVE  VInv'
<1> DEFINE others == {d \in Busy("validate") : req[d].file = f}
<1>1. /\ Others(c) /\ Free(c) /\ req'[c].pc = "validating" /\ req'[c].file = f
      /\ ~req'[c].torn => others = {}
      /\ \A d \in others \ {c} : req'[d].torn
  BY ValidateStartsDoes DEF VInv, RInv
<1>2. UNCHANGED <<issues, lost, session>>
  BY DEF ValidateStarts
<1>3. req[c].pc \notin Validating
  BY <1>1 DEF Free, Validating
<1>4. ASSUME NEW d \in Clients, d # c PROVE Same(req[d], req'[d])
  BY <1>1, <1>4 DEF Others
<1>5. \A d \in Clients : req[d].pc \in Validating /\ req[d].file = f => d \in others
  BY DEF VInv, RInv, Suits, Validating, Persisting, Busy, Free
<1> HIDE DEF others
<1>6. ReadersAreTorn'
  <2> SUFFICES ASSUME NEW a \in Clients, NEW b \in Clients, a # b, req'[a].pc = "validating",
                      req'[b].pc \in Validating, req'[a].file = req'[b].file
               PROVE  req'[a].torn
    BY DEF ReadersAreTorn
  <2>1. CASE a = c
    <3>1. b \in others
      BY <1>1, <1>4, <1>5, <2>1 DEF Same
    <3>. QED
      BY <1>1, <2>1, <3>1
  <2>2. CASE b = c
    <3>1. a \in others
      BY <1>1, <1>4, <1>5, <2>2 DEF Same, Validating
    <3>. QED
      BY <1>1, <2>2, <3>1
  <2>3. CASE a # c /\ b # c
    BY <1>4, <2>3 DEF Same, VInv, ReadersAreTorn
  <2>. QED
    BY <2>1, <2>2, <2>3
<1>7. ASSUME NEW g \in FileSet, NEW of, Reported(g, of) PROVE Reported(g, of)'
  <2>1. CASE g = f
    BY <1>1, <2>1 DEF Reported, OnFile, Validating
  <2>2. CASE g # f
    <3>1. OnFile(g)' = OnFile(g)
      BY <1>1, <1>3, <1>4, <2>2 DEF OnFile, Same
    <3>2. \A d \in OnFile(g) : d # c /\ d \in Clients
      BY <1>3 DEF OnFile
    <3>. QED
      BY <1>2, <1>4, <1>7, <3>1, <3>2 DEF Reported, Same
  <2>. QED
    BY <2>1, <2>2
<1>8. Reports'
  BY <1>2, <1>7 DEF VInv, Reports
<1>. QED
  BY <1>2, <1>6, <1>8 DEF VInv

\* A result that is not marked is stored by the only validation of its sheet.
LEMMA ValidateStoresReports ==
    ASSUME VInv, RInv', NEW c \in Clients, ValidateStores(c)
    PROVE  VInv'
<1> DEFINE r == req[c]
           v == Result(r.of, 0, r.torn)
<1>1. Going(c, {"validating"}, {"clearing"}) /\ UNCHANGED <<issues, lost>>
  BY OnlyGoes DEF VInv, RInv, ValidateStores
<1>2. /\ session'.validation = [session.validation EXCEPT ![r.file] = v]
      /\ DOMAIN session.validation = FileSet /\ v.torn = r.torn /\ v.of = r.of
  BY DEF ValidateStores, VInv, RInv, IInv, Sound, Formed, Result
<1> HIDE DEF v
<1>3. ASSUME NEW d \in Clients, d # c PROVE Same(req[d], req'[d])
  BY <1>1, <1>3 DEF Going, Others
<1>4. r.pc = "validating" /\ req'[c].pc = "clearing" /\ req'[c].file = r.file /\ req'[c].of = r.of
      /\ req'[c].torn = r.torn
  BY <1>1 DEF Going, Rest
<1>5. ReadersAreTorn'
  BY <1>3, <1>4 DEF VInv, ReadersAreTorn, Same, Validating
<1>6. ASSUME NEW f \in FileSet PROVE OnFile(f)' = OnFile(f)
  BY <1>3, <1>4 DEF OnFile, Same, Validating
<1>7. Reports'
  <2> SUFFICES ASSUME NEW f \in FileSet, session'.validation[f] # None,
                      ~session'.validation[f].torn,
                      NEW of, of = session'.validation[f].of
               PROVE  Reported(f, of)'
    BY <1>1 DEF Reports, Reported
  <2>1. CASE f = r.file
    <3>1. session'.validation[f] = v
      BY <1>2, <2>1
    <3>2. ~r.torn /\ of = r.of
      BY <1>2, <3>1
    <3>3. OnFile(f)' = {c}
      BY <1>4, <1>6, <2>1, <3>2 DEF OnFile, VInv, ReadersAreTorn, Validating
    <3>. QED
      BY <1>4, <3>2, <3>3 DEF Reported
  <2>2. CASE f # r.file
    <3>1. session'.validation[f] = session.validation[f]
      BY <1>2, <2>2
    <3>2. \A d \in OnFile(f) : d # c /\ d \in Clients
      BY <2>2 DEF OnFile
    <3>3. Reported(f, of)
      BY <3>1 DEF VInv, Reports
    <3>. QED
      BY <1>1, <1>3, <1>6, <3>2, <3>3 DEF Reported, Same
  <2>. QED
    BY <2>1, <2>2
<1>. QED
  BY <1>1, <1>5, <1>7 DEF VInv

LEMMA IssuesDeletedReports ==
    ASSUME VInv, RInv', NEW c \in Clients, IssuesDeleted(c)
    PROVE  VInv'
<1> DEFINE r == req[c]
<1>1. Going(c, {"clearing"}, {"reporting"}) /\ UNCHANGED <<session, lost>>
      /\ issues' = [issues EXCEPT ![r.file] = {}]
  BY OnlyGoes DEF VInv, RInv, IssuesDeleted, Cleared
<1>2. ASSUME NEW d \in Clients, d # c PROVE Same(req[d], req'[d])
  BY <1>1, <1>2 DEF Going, Others
<1>3. r.pc = "clearing" /\ req'[c].pc = "reporting" /\ req'[c].file = r.file /\ req'[c].of = r.of
      /\ req'[c].torn = r.torn
  BY <1>1 DEF Going, Rest
<1>4. ReadersAreTorn'
  BY <1>2, <1>3 DEF VInv, ReadersAreTorn, Same, Validating
<1>5. ASSUME NEW f \in FileSet PROVE OnFile(f)' = OnFile(f)
  BY <1>2, <1>3 DEF OnFile, Same, Validating
<1>6. c \in OnFile(r.file) /\ DOMAIN issues = FileSet
  BY <1>3 DEF OnFile, Validating, VInv
<1>7. ASSUME NEW f \in FileSet, NEW of, Reported(f, of) PROVE Reported(f, of)'
  <2>1. CASE f = r.file
    <3>1. CASE \E d \in OnFile(f) : req[d].pc = "validating"
      BY <1>2, <1>3, <1>5, <3>1 DEF Reported, Same, OnFile
    <3>2. CASE \E d \in Clients : OnFile(f) = {d} /\ req[d].of = of
      <4>1. OnFile(f)' = {c} /\ r.of = of /\ issues'[f] = {}
        BY <1>1, <1>5, <1>6, <2>1, <3>2
      <4>. QED
        BY <1>3, <4>1 DEF Reported
    <3>. QED
      BY <1>6, <1>7, <2>1, <3>1, <3>2 DEF Reported
  <2>2. CASE f # r.file
    <3>1. issues'[f] = issues[f]
      BY <1>1, <1>6, <2>2
    <3>2. \A d \in OnFile(f) : d # c /\ d \in Clients
      BY <2>2 DEF OnFile
    <3>. QED
      BY <1>1, <1>2, <1>5, <1>7, <3>1, <3>2 DEF Reported, Same
  <2>. QED
    BY <2>1, <2>2
<1>8. Reports'
  BY <1>1, <1>7 DEF VInv, Reports
<1>. QED
  BY <1>1, <1>4, <1>6, <1>8 DEF VInv

LEMMA IssuesSavedReports ==
    ASSUME VInv, RInv', NEW c \in Clients, IssuesSaved(c)
    PROVE  VInv'
<1> DEFINE r == req[c]
           row == <<c, r.of>>
<1>1. Going(c, {"reporting"}, {"answered"}) /\ UNCHANGED session
      /\ issues' = [issues EXCEPT ![r.file] = @ \cup {row}]
      /\ lost'.reports = lost.reports \ {r.file}
  BY OnlyGoes DEF VInv, RInv, IssuesSaved, Lost
<1>2. ASSUME NEW d \in Clients, d # c PROVE Same(req[d], req'[d])
  BY <1>1, <1>2 DEF Going, Others
<1>3. r.pc = "reporting" /\ req'[c].pc = "answered"
  BY <1>1 DEF Going
<1>4. ReadersAreTorn'
  BY <1>2, <1>3 DEF VInv, ReadersAreTorn, Same, Validating
<1>5. ASSUME NEW f \in FileSet PROVE OnFile(f)' = OnFile(f) \ {c}
  BY <1>2, <1>3 DEF OnFile, Same, Validating
<1>6. c \in OnFile(r.file) /\ DOMAIN issues = FileSet
  BY <1>3 DEF OnFile, Validating, VInv
<1>7. ASSUME NEW f \in FileSet, NEW of, Reported(f, of) PROVE Reported(f, of)'
  <2>1. CASE f = r.file
    <3>1. CASE \E d \in OnFile(f) : req[d].pc = "validating"
      <4>1. PICK d \in OnFile(f) : req[d].pc = "validating"
        BY <3>1
      <4>2. d # c /\ d \in Clients
        BY <1>3, <4>1 DEF OnFile
      <4>3. d \in OnFile(f)' /\ req'[d].pc = "validating"
        BY <1>2, <1>5, <4>1, <4>2 DEF Same
      <4>. QED
        BY <4>3 DEF Reported
    <3>2. CASE \E d \in Clients : OnFile(f) = {d} /\ req[d].of = of
                                  /\ (req[d].pc = "reporting" => issues[f] = {})
      <4>1. OnFile(f)' = {} /\ r.of = of /\ issues[f] = {}
        BY <1>3, <1>5, <1>6, <2>1, <3>2
      <4>2. issues'[f] = {row}
        BY <1>1, <1>6, <2>1, <4>1
      <4>. QED
        BY <4>1, <4>2 DEF Reported
    <3>. QED
      BY <1>6, <1>7, <2>1, <3>1, <3>2 DEF Reported
  <2>2. CASE f # r.file
    <3>1. issues'[f] = issues[f]
      BY <1>1, <1>6, <2>2
    <3>2. OnFile(f)' = OnFile(f) /\ \A d \in OnFile(f) : d # c /\ d \in Clients
      BY <1>5, <2>2 DEF OnFile
    <3>3. f \in lost.reports => f \in lost'.reports
      BY <1>1, <2>2
    <3>. QED
      BY <1>2, <1>7, <3>1, <3>2, <3>3 DEF Reported, Same
  <2>. QED
    BY <2>1, <2>2
<1>8. Reports'
  BY <1>1, <1>7 DEF VInv, Reports
<1>. QED
  BY <1>1, <1>4, <1>6, <1>8 DEF VInv

\* A validation that fails at its statements leaves the sheet, which is noted.
LEMMA IssuesFailReports ==
    ASSUME VInv, RInv', NEW c \in Clients, IssuesFail(c)
    PROVE  VInv'
<1> DEFINE r == req[c]
<1>1. Going(c, {"clearing", "reporting"}, {"refused"}) /\ UNCHANGED <<session, issues>>
      /\ lost'.reports = lost.reports \cup {r.file}
  BY OnlyGoes DEF VInv, RInv, IssuesFail, Lost
<1>2. ASSUME NEW d \in Clients, d # c PROVE Same(req[d], req'[d])
  BY <1>1, <1>2 DEF Going, Others
<1>3. r.pc \in {"clearing", "reporting"} /\ req'[c].pc = "refused"
  BY <1>1 DEF Going
<1>4. ReadersAreTorn'
  BY <1>2, <1>3 DEF VInv, ReadersAreTorn, Same, Validating
<1>5. ASSUME NEW f \in FileSet PROVE OnFile(f)' = OnFile(f) \ {c}
  BY <1>2, <1>3 DEF OnFile, Same, Validating
<1>6. c \in OnFile(r.file)
  BY <1>3 DEF OnFile, Validating
<1>7. ASSUME NEW f \in FileSet, NEW of, Reported(f, of) PROVE Reported(f, of)'
  <2>1. CASE \E d \in OnFile(f) : req[d].pc = "validating"
    <3>1. PICK d \in OnFile(f) : req[d].pc = "validating"
      BY <2>1
    <3>2. d # c /\ d \in Clients
      BY <1>3, <3>1 DEF OnFile
    <3>3. d \in OnFile(f)' /\ req'[d].pc = "validating"
      BY <1>2, <1>5, <3>1, <3>2 DEF Same
    <3>. QED
      BY <3>3 DEF Reported
  <2>2. CASE f = r.file /\ \E d \in Clients : OnFile(f) = {d}
    <3>1. OnFile(f)' = {} /\ f \in lost'.reports
      BY <1>1, <1>5, <1>6, <2>2
    <3>. QED
      BY <3>1 DEF Reported
  <2>3. CASE f # r.file
    <3>1. OnFile(f)' = OnFile(f) /\ \A d \in OnFile(f) : d # c /\ d \in Clients
      BY <1>5, <2>3 DEF OnFile
    <3>. QED
      BY <1>1, <1>2, <1>7, <3>1 DEF Reported, Same
  <2>. QED
    BY <1>6, <1>7, <2>1, <2>2, <2>3 DEF Reported
<1>8. Reports'
  BY <1>1, <1>7 DEF VInv, Reports
<1>. QED
  BY <1>1, <1>4, <1>8 DEF VInv

------------------------------------------------------------------------------
(* The other steps                                                         *)

\* What the requests of the other kinds leave alone.
LEMMA GoesOnElsewhere ==
    ASSUME VInv, RInv', NEW c \in Clients, RequestGoesOn(c),
           ~ValidateStores(c), ~IssuesDeleted(c), ~IssuesSaved(c), ~IssuesFail(c)
    PROVE  VInv'
<1>0. IInv /\ Formed(session)
  BY DEF VInv, RInv, IInv, Sound
<1> USE ElsewhereReports
<1>1. CASE Correlate(c)
  BY <1>0, <1>1, OnlyGoes DEF Going, Validating, Correlate, Correlated, Formed
<1>2. CASE ConvertEnds(c)
  BY <1>0, <1>2, OnlyGoes DEF Going, Validating, ConvertEnds
<1>3. CASE RiskSaved(c)
  BY <1>0, <1>3, OnlyGoes DEF Going, Validating, RiskSaved
<1>4. CASE Refresh(c)
  BY <1>0, <1>4, OnlyGoes DEF Going, Validating, Refresh
<1>5. CASE TransactionCommits(c)
  BY <1>0, <1>5, OnlyGoes DEF Going, Validating, TransactionCommits
<1>6. CASE ApplyFails(c)
  BY <1>0, <1>6, OnlyGoes DEF Going, Validating, ApplyFails
<1>7. CASE ApplyCompletes(c)
  BY <1>0, <1>7, OnlyGoes DEF Going, Validating, ApplyCompletes
<1>8. CASE Gather(c)
  BY <1>0, <1>8, GatherDoes DEF Validating, Gather
<1>9. CASE Convert(c)
  <2>1. Others(c) /\ AllGathered(c, "convert") /\ req'[c].pc = "replacing"
        /\ session'.validation = session.validation
    BY <1>0, <1>9, ConvertDoes DEF Correlated, Formed
  <2>. QED
    BY <1>9, <2>1 DEF Validating, Convert, AllGathered
<1>10. CASE ChunksReplaced(c)
  BY <1>0, <1>10, ChunksReplacedDoes DEF Validating, ChunksReplaced
<1>11. CASE ConversionStored(c)
  BY <1>0, <1>11, ConversionStoredDoes DEF Validating, ConversionStored, Formed, Lost
<1>12. CASE LoadNodes(c)
  BY <1>0, <1>12, LoadNodesDoes DEF Validating, LoadNodes
<1>13. CASE LoadLinks(c)
  <2>1. Others(c) /\ req[c].pc = "linking" /\ req'[c].pc \in {"committing", "flushing"}
    BY <1>0, <1>13, LoadLinksDoes
  <2>. QED
    BY <1>13, <2>1 DEF Validating, LoadLinks
<1>14. CASE VersionOpens(c)
  BY <1>0, <1>14, VersionOpensDoes DEF Validating, VersionOpens
<1>. QED
  BY <1>1, <1>2, <1>3, <1>4, <1>5, <1>6, <1>7, <1>8, <1>9, <1>10, <1>11, <1>12, <1>13, <1>14
     DEF RequestGoesOn

\* A restart that finds the session it knew, and no request, loses nothing.
LEMMA RestartReports == ASSUME VInv, RInv', Restart PROVE VInv'
<1>1. \A d \in Clients : req'[d].pc = "idle"
  BY RestartDoes
<1>2. UNCHANGED issues
      /\ \A f \in FileSet :
            \/ f \in lost'.reports
            \/ /\ session'.validation[f] = session.validation[f] /\ f \notin lost.reports
               /\ \A d \in Busy("validate") : req[d].file # f
  BY DEF Restart, Lost
<1>3. \A f \in FileSet : OnFile(f)' = {}
  BY <1>1 DEF OnFile, Validating
<1>4. ReadersAreTorn'
  BY <1>1 DEF ReadersAreTorn
<1>5. Reports'
  <2> SUFFICES ASSUME NEW f \in FileSet, f \notin lost'.reports
               PROVE  LET v == session.validation[f]
                      IN  v = None \/ v.torn \/ Reported(f, v.of)'
    BY <1>2, <1>3 DEF Reports, Reported
  <2>1. OnFile(f) = {} /\ f \notin lost.reports
    BY <1>2 DEF OnFile, VInv, RInv, Suits, Validating, Persisting, Busy, Free
  <2>. QED
    BY <1>2, <1>3, <2>1 DEF VInv, Reports, Reported
<1>. QED
  BY <1>2, <1>4, <1>5 DEF VInv

LEMMA StepReports == ASSUME VInv, [Next]_vars PROVE VInv'
<1>1. RInv' /\ IInv
  BY StepSuits DEF VInv, RInv
<1>2. ASSUME NEW c \in Clients, RequestGoesOn(c) PROVE VInv'
  BY <1>1, <1>2, ValidateStoresReports, IssuesDeletedReports, IssuesSavedReports,
     IssuesFailReports, GoesOnElsewhere
<1>3. ASSUME NEW c \in Clients, RequestStarts(c) PROVE VInv'
  <2>1. ASSUME NEW kind \in {"correlate", "convert"}, GatherStarts(c, kind) PROVE VInv'
    BY <1>1, <2>1, GatherStartsDoes, ElsewhereReports DEF Free, Validating, GatherStarts
  <2>2. CASE PersistStarts(c)
    <3>1. Others(c) /\ Free(c) /\ req'[c].pc \in {"opening", "loading"}
      BY <1>1, <2>2, PersistStartsDoes
    <3>. QED
      BY <1>1, <2>2, <3>1, ElsewhereReports DEF Free, Validating, PersistStarts
  <2>. QED
    BY <1>1, <1>3, <2>1, <2>2, ValidateStartsReports DEF RequestStarts
<1>4. CASE Restart
  BY <1>1, <1>4, RestartReports
<1>5. CASE ~Restart /\ ~(\E c \in Clients : RequestStarts(c) \/ RequestGoesOn(c))
  <2>1. Unmoved /\ UNCHANGED <<issues, lost>>
    BY <1>1, <1>5, OtherSteps DEF Unmoved
  <2>2. \A f \in FileSet : session'.validation[f] = session.validation[f]
                           \/ session'.validation[f] = None
    BY <1>1, <1>5, ValidationsGo
  <2>. QED
    BY <1>1, <2>1, <2>2, UnmovedReports
<1>. QED
  BY <1>2, <1>3, <1>4, <1>5

LEMMA InitReports == ASSUME Init PROVE VInv
<1>1. RInv
  BY InitSuits
<1>2. DOMAIN issues = FileSet /\ \A f \in FileSet : session.validation[f] = None
  BY DEF Init, Uploaded
<1>3. ReadersAreTorn
  BY DEF Init, Idle, ReadersAreTorn
<1>. QED
  BY <1>1, <1>2, <1>3 DEF VInv, Reports

\* While no validation of a sheet is under way, the rows of import_validation_issues are those of
\* the result that is shown, whatever the validations before it left: unless it overlapped with
\* another one or with a change, a statement of it failed, or a restart interrupted it or did not
\* find it in the row; validating the sheet again repairs that
\* (ImportReportingService.saveValidation).
THEOREM ReportsAreWhole == Spec => []ReportOfValidation
<1>1. Init => VInv
  BY InitReports
<1>2. VInv /\ [Next]_vars => VInv'
  BY StepReports
<1>3. VInv => ReportOfValidation
  <2> SUFFICES ASSUME VInv, NEW f \in FileSet, session.validation[f] # None,
                      \A c \in Busy("validate") : req[c].file # f
               PROVE  \/ session.validation[f].torn \/ f \in lost.reports
                      \/ \E c \in Clients : issues[f] = {<<c, session.validation[f].of>>}
    BY DEF ReportOfValidation
  <2>1. OnFile(f) = {}
    BY DEF OnFile, VInv, RInv, Suits, Validating, Persisting, Busy, Free
  <2>. QED
    BY <2>1 DEF VInv, Reports, Reported
<1>. QED
  BY <1>1, <1>2, <1>3, PTL DEF Spec

------------------------------------------------------------------------------
(***************************************************************************)
(* A correlation and a conversion cover the sheets as they are.            *)
(*                                                                         *)
(* Records are gathered over the live list of files, across awaits.  A     *)
(* change and a file that is parsed in one go mark every request and drop  *)
(* what was computed; a file that is parsed in chunks does neither, and is *)
(* the only one a result may miss.  The invariant says this of the session,*)
(* of its row and of every write under way, and of a request that is not   *)
(* marked that it has read the files before its place in the list as they  *)
(* are.                                                                    *)
(***************************************************************************)

\* What the scenario fixes: the files that had sheets from the start, and those that a result
\* may miss.
First == Uploaded.parsed
Joined == IF budget.parses = "chunks" THEN FileSet \ First ELSE {}

BudgetKnown ==
    /\ DOMAIN budget = {"changes", "validate", "correlate", "convert", "persist", "faults",
                        "crashes", "neo4j", "parses", "offered"}
    /\ budget.neo4j \in BOOLEAN

Covers(s, f, of) == <<f, <<s.class[f], s.mapping[f]>>>> \in of

\* What was read is of files that have sheets, and misses none but those that joined.
ReadOf(s, joined, of) ==
    /\ \A x \in of : \E f \in ToSet(s.files) \cap s.parsed : x = <<f, <<s.class[f], s.mapping[f]>>>>
    /\ \A f \in ToSet(s.files) \cap s.parsed : f \notin joined => Covers(s, f, of)

CurrentIn(s, joined, first) ==
    /\ s.files \in Seq(FileSet) /\ first \subseteq s.parsed
    /\ \A r \in {s.correlation, s.conversion} :
           r = None \/ r.torn \/ s.late \/ ReadOf(s, joined, r.of)

StoresCurrent(joined, first) ==
    /\ CurrentIn(rows["import"], joined, first)
    /\ \A w \in pending : w.row = "import" => CurrentIn(w.value, joined, first)

\* A request has read the files before its place.
HasRead(r, s, joined) ==
    /\ r.at \in Nat \ {0}
    /\ \A x \in r.of : \E f \in ToSet(s.files) \cap s.parsed : x = <<f, <<s.class[f], s.mapping[f]>>>>
    /\ \A i \in DOMAIN s.files :
           i < r.at /\ s.files[i] \in s.parsed /\ s.files[i] \notin joined => Covers(s, s.files[i], r.of)

Gathering(r, s, joined) ==
    /\ r.pc = "gathering" => r.torn \/ HasRead(r, s, joined)
    /\ r.pc \in {"replacing", "converted"} => r.torn \/ ReadOf(s, joined, r.of)

WorkerAt == worker.at \in Nat /\ (worker # NoWork => worker.file \in FileSet)

CInv == /\ RInv /\ BudgetKnown /\ WorkerAt
        /\ CurrentIn(session, Joined, First) /\ StoresCurrent(Joined, First)
        /\ \A c \in Clients : Gathering(req[c], session, Joined)

------------------------------------------------------------------------------
(* What the scenario fixes stays                                           *)

LEMMA BudgetStep ==
    ASSUME BudgetKnown, [Next]_vars
    PROVE  /\ BudgetKnown' /\ UNCHANGED <<Joined, First>>
           /\ budget'.neo4j = budget.neo4j /\ budget'.parses = budget.parses
<1> DEFINE Bounds == {"changes", "validate", "correlate", "convert", "persist", "faults", "crashes"}
           Moves == UNCHANGED budget \/ \E x : \E k \in Bounds : budget' = [budget EXCEPT ![k] = x]
<1>1. Moves => /\ BudgetKnown' /\ budget'.neo4j = budget.neo4j /\ budget'.parses = budget.parses
               /\ budget'.offered = budget.offered
  BY DEF BudgetKnown
<1>2. ASSUME NEW next, Change(next) PROVE Moves
  BY <1>2 DEF Change
<1>3. ASSUME NEW f \in FileSet, ApplyMappings(f) \/ Classify(f) \/ RemoveFile(f) PROVE Moves
  BY <1>2, <1>3 DEF ApplyMappings, Classify, RemoveFile
<1>4. ASSUME NEW c \in Clients, RequestStarts(c) PROVE Moves
  <2>1. ASSUME NEW kind \in Bounds, Asked(c, kind) PROVE Moves
    BY <2>1 DEF Asked
  <2>. HIDE DEF Moves
  <2>. QED
    BY <1>4, <2>1 DEF RequestStarts, ValidateStarts, GatherStarts, PersistStarts
<1>5. ASSUME NEW c \in Clients, RequestGoesOn(c) PROVE Moves
  <2>1. ApplyFails(c) \/ IssuesFail(c) => Moves
    BY DEF ApplyFails, IssuesFail
  <2>2. RequestGoesOn(c) /\ ~ApplyFails(c) /\ ~IssuesFail(c) => UNCHANGED budget
    BY DEF RequestGoesOn, ValidateStores, IssuesDeleted, IssuesSaved, Gather, Correlate, Convert,
           ChunksReplaced, ConversionStored, ConvertEnds, LoadNodes, LoadLinks, RiskSaved, Refresh,
           VersionOpens, TransactionCommits, ApplyCompletes
  <2>. QED
    BY <1>5, <2>1, <2>2
<1>6. ASSUME NEW w \in pending, WriteLands(w) \/ WriteFails(w) PROVE Moves
  BY <1>6 DEF WriteLands, WriteFails
<1>7. (\E f \in FileSet : WorkerStarts(f)) \/ ParsedInChunks \/ ParsedInline \/ UNCHANGED vars => Moves
  BY DEF WorkerStarts, ParsedInChunks, ParsedInline, vars
<1>8. Restart => Moves
  BY DEF Restart
<1>9. Moves
  <2>. HIDE DEF Moves
  <2>. QED
    BY <1>3, <1>4, <1>5, <1>6, <1>7, <1>8 DEF Next
<1>10. UNCHANGED First
  BY <1>1, <1>9 DEF First, Uploaded
<1>. QED
  BY <1>1, <1>9, <1>10 DEF Joined

LEMMA LargestOfTwo ==
    ASSUME NEW a \in Nat, NEW b \in Nat
    PROVE  Max({a, b}) \in {a, b} /\ Max({a, b}) >= a /\ Max({a, b}) >= b
<1>1. \E x \in {a, b} : \A y \in {a, b} : x >= y
  OBVIOUS
<1>. QED
  BY <1>1 DEF Max

LEMMA LeastOfTwo ==
    ASSUME NEW a \in Nat, NEW b \in Nat
    PROVE  Min({a, b}) \in {a, b} /\ Min({a, b}) <= a /\ Min({a, b}) <= b
<1>1. \E x \in {a, b} : \A y \in {a, b} : x <= y
  OBVIOUS
<1>. QED
  BY <1>1 DEF Min

LEMMA InitCurrent == ASSUME Init PROVE CInv
<1> USE ResultsAssumption
<1>1. RInv /\ BudgetKnown /\ budget.offered \in Seq(Upload)
  BY InitSuits DEF Init, BudgetKnown
<1>2. Uploaded.files \in Seq(FileSet)
  <2> DEFINE n == Min({MaxFiles, Len(budget.offered)})
             taken == SubSeq(budget.offered, 1, n)
  <2>1. n \in Nat /\ n <= Len(budget.offered)
    BY <1>1, LeastOfTwo
  <2> HIDE DEF n
  <2>2. taken \in Seq(Upload)
    BY <1>1, <2>1
  <2>3. Uploaded.files = [i \in DOMAIN taken |-> taken[i].name]
    BY DEF Uploaded, n
  <2> HIDE DEF taken
  <2>4. \A i \in DOMAIN taken : taken[i] \in Upload
    BY <2>2
  <2>5. \A i \in DOMAIN taken : taken[i].name \in FileSet
    BY <2>4 DEF Upload
  <2>. QED
    BY <2>2, <2>3, <2>5
<1>3. CurrentIn(Uploaded, Joined, First)
  BY <1>2 DEF CurrentIn, Uploaded, First
<1>4. \A c \in Clients : Gathering(req[c], session, Joined)
  BY DEF Init, Idle, Gathering
<1>. QED
  BY <1>1, <1>3, <1>4 DEF Init, CInv, StoresCurrent, WorkerAt, NoWork

------------------------------------------------------------------------------
(* Steps that leave what is current as it is                               *)

\* A session that is saved leaves the stores as they were.
LEMMA SnapshotCurrent ==
    ASSUME NEW joined, NEW first, StoresCurrent(joined, first), CurrentIn(session', joined, first),
           NEW owner, Snapshot(owner), UNCHANGED rows
    PROVE  StoresCurrent(joined, first)'
BY DEF StoresCurrent, Snapshot, Save

LEMMA GraphSavedCurrent ==
    ASSUME NEW joined, NEW first, StoresCurrent(joined, first), UNCHANGED rows,
           UNCHANGED pending \/ \E owner, g : Save(owner, "imported", g)
    PROVE  StoresCurrent(joined, first)'
BY DEF StoresCurrent, Save

\* The requests that are marked at most have read what they had.
LEMMA SameGathers ==
    ASSUME NEW r, NEW q, NEW s, NEW joined, Gathering(r, s, joined), Same(r, q)
    PROVE  Gathering(q, s, joined)
BY DEF Gathering, Same, HasRead

\* A step of one request that keeps the session.
LEMMA QuietCurrent ==
    ASSUME CInv, [Next]_vars, RInv', UNCHANGED <<session, worker>>, StoresCurrent(Joined, First)',
           NEW c \in Clients, Others(c), Gathering(req'[c], session, Joined)
    PROVE  CInv'
<1>1. BudgetKnown' /\ UNCHANGED <<Joined, First>>
  BY BudgetStep DEF CInv
<1>2. \A d \in Clients : Gathering(req'[d], session, Joined)
  BY SameGathers DEF CInv, Others
<1>. QED
  BY <1>1, <1>2 DEF CInv, WorkerAt

\* The files, the configurations and what was read from them.
Alike(s, t) ==
    /\ t.files = s.files /\ t.parsed = s.parsed /\ t.class = s.class /\ t.mapping = s.mapping
    /\ t.late = s.late

\* A step of one request that stores results.
LEMMA StoresCurrentResults ==
    ASSUME CInv, [Next]_vars, RInv', NEW owner, Snapshot(owner), UNCHANGED <<rows, worker>>,
           Alike(session, session'),
           \A r \in {session'.correlation, session'.conversion} :
               \/ r \in {None, session.correlation, session.conversion}
               \/ r.torn \/ ReadOf(session, Joined, r.of),
           NEW c \in Clients, Others(c), Gathering(req'[c], session, Joined)
    PROVE  CInv'
<1>1. BudgetKnown' /\ UNCHANGED <<Joined, First>>
  BY BudgetStep DEF CInv
<1>2. \A of : ReadOf(session, Joined, of) => ReadOf(session', Joined, of)
  BY DEF Alike, ReadOf, Covers
<1>3. CurrentIn(session', Joined, First)
  BY <1>2 DEF CInv, CurrentIn, Alike
<1>4. StoresCurrent(Joined, First)'
  <2>1. ASSUME NEW joined, joined = Joined, NEW first, first = First PROVE StoresCurrent(joined, first)'
    BY <1>3, <2>1, SnapshotCurrent DEF CInv
  <2>. QED
    BY <1>1, <2>1 DEF StoresCurrent
<1>5. \A r : Gathering(r, session, Joined) => Gathering(r, session', Joined)
  BY <1>2 DEF Gathering, HasRead, Alike, Covers
<1>6. \A d \in Clients : Gathering(req'[d], session', Joined)
  BY <1>5, SameGathers DEF CInv, Others
<1>. QED
  BY <1>1, <1>3, <1>4, <1>6 DEF CInv, WorkerAt

\* A change drops the results and marks every request.
LEMMA ChangeCurrent ==
    ASSUME CInv, [Next]_vars, RInv', NEW owner, Snapshot(owner), UNCHANGED rows, WorkerAt',
           session'.files \in Seq(FileSet), session.parsed \subseteq session'.parsed,
           session'.correlation = None, session'.conversion = None, req' = Torn(Clients)
    PROVE  CInv'
<1>1. BudgetKnown' /\ UNCHANGED <<Joined, First>>
  BY BudgetStep DEF CInv
<1>2. CurrentIn(session', Joined, First)
  BY DEF CInv, CurrentIn
<1>3. StoresCurrent(Joined, First)'
  <2>1. ASSUME NEW joined, joined = Joined, NEW first, first = First PROVE StoresCurrent(joined, first)'
    BY <1>2, <2>1, SnapshotCurrent DEF CInv
  <2>. QED
    BY <1>1, <2>1 DEF StoresCurrent
<1>4. \A d \in Clients : Gathering(req'[d], session', Joined)
  BY AllMarked DEF CInv, RInv, Same, Free, Gathering
<1>. QED
  BY <1>1, <1>2, <1>3, <1>4 DEF CInv

\* A session whose results are dropped.
LEMMA DroppedResults ==
    ASSUME NEW s, Formed(s)
    PROVE  /\ \A f : /\ Invalidated(s, f).correlation = None /\ Invalidated(s, f).conversion = None
                     /\ Invalidated(s, f).files = s.files /\ Invalidated(s, f).parsed = s.parsed
           /\ AllInvalidated(s).correlation = None /\ AllInvalidated(s).conversion = None
           /\ AllInvalidated(s).files = s.files /\ AllInvalidated(s).parsed = s.parsed
BY DEF Invalidated, AllInvalidated, Formed

LEMMA RemovedFile ==
    ASSUME NEW s \in Seq(FileSet), NEW i \in DOMAIN s
    PROVE  RemoveAt(s, i) \in Seq(FileSet)
BY DEF RemoveAt

LEMMA ChangesCurrent ==
    ASSUME CInv, [Next]_vars, RInv', NEW f \in FileSet, UNCHANGED worker,
           ApplyMappings(f) \/ Classify(f) \/ RemoveFile(f)
    PROVE  CInv'
<1>0. Formed(session) /\ session.files \in Seq(FileSet) /\ WorkerAt'
  BY DEF CInv, RInv, IInv, Sound, CurrentIn, WorkerAt
<1>1. ASSUME NEW t, Formed(t), t.files \in Seq(FileSet), t.parsed = session.parsed,
             Change(Invalidated(t, f)) \/ Change(AllInvalidated(t))
      PROVE  CInv'
  <2>1. /\ session'.files = t.files /\ session'.parsed = t.parsed
        /\ session'.correlation = None /\ session'.conversion = None
    BY <1>1, DroppedResults DEF Change
  <2>. QED
    BY <1>0, <1>1, <2>1, ChangeCurrent DEF Change
<1>2. CASE ApplyMappings(f)
  <2> DEFINE t == [session EXCEPT !.mapping[f] = budget.changes]
  <2>1. Formed(t) /\ t.files = session.files /\ t.parsed = session.parsed
    BY <1>0 DEF Formed
  <2>2. Change(Invalidated(t, f))
    BY <1>2 DEF ApplyMappings
  <2>. HIDE DEF t
  <2>. QED
    BY <1>0, <1>1, <2>1, <2>2
<1>3. CASE Classify(f)
  <2> DEFINE t == [session EXCEPT !.class[f] = 1 - @, !.mapping[f] = 0]
  <2>1. Formed(t) /\ t.files = session.files /\ t.parsed = session.parsed
    BY <1>0 DEF Formed
  <2>2. Change(Invalidated(t, f))
    BY <1>3 DEF Classify
  <2>. HIDE DEF t
  <2>. QED
    BY <1>0, <1>1, <2>1, <2>2
<1>4. CASE RemoveFile(f)
  <2> PICK i \in DOMAIN session.files :
               Change(AllInvalidated([session EXCEPT !.files = RemoveAt(@, i), !.mapping[f] = 0]))
    BY <1>4 DEF RemoveFile
  <2> DEFINE kept == RemoveAt(session.files, i)
             t == [session EXCEPT !.files = kept, !.mapping[f] = 0]
  <2>1. kept \in Seq(FileSet)
    BY <1>0, RemovedFile
  <2>2. Change(AllInvalidated(t))
    OBVIOUS
  <2> HIDE DEF kept
  <2>3. Formed(t) /\ t.files = kept /\ t.parsed = session.parsed
    BY <1>0 DEF Formed
  <2>. HIDE DEF t
  <2>. QED
    BY <1>1, <2>1, <2>2, <2>3
<1>. QED
  BY <1>2, <1>3, <1>4

------------------------------------------------------------------------------
(* The worker                                                              *)

LEMMA WorkerStartsCurrent ==
    ASSUME CInv, [Next]_vars, RInv', NEW f \in FileSet, WorkerStarts(f)
    PROVE  CInv'
<1>1. BudgetKnown' /\ UNCHANGED <<Joined, First>>
  BY BudgetStep DEF CInv
<1>2. UNCHANGED <<session, req, pending, rows>>
      /\ \E i \in DOMAIN session.files : worker' = [file |-> f, at |-> i]
  BY DEF WorkerStarts, storeVars
<1>3. WorkerAt'
  BY <1>2 DEF WorkerAt, CInv, CurrentIn
<1>. QED
  BY <1>1, <1>2, <1>3 DEF CInv, StoresCurrent

\* The file that is parsed in chunks is one that a result may miss.
LEMMA ParsedInChunksCurrent ==
    ASSUME CInv, [Next]_vars, RInv', ParsedInChunks
    PROVE  CInv'
<1>1. BudgetKnown' /\ UNCHANGED <<Joined, First>>
  BY BudgetStep DEF CInv
<1>2. /\ session'.files = session.files /\ session'.parsed = session.parsed \cup {worker.file}
      /\ session'.class = session.class /\ session'.mapping = session.mapping
      /\ session'.late = session.late
      /\ session'.correlation = session.correlation /\ session'.conversion = session.conversion
  BY DEF ParsedInChunks, CInv, RInv, IInv, Sound, Formed
<1>3. worker.file \in Joined \/ worker.file \in session.parsed
  BY DEF ParsedInChunks, CInv, CurrentIn, WorkerAt, Joined
<1>4. ASSUME NEW of, ReadOf(session, Joined, of) PROVE ReadOf(session', Joined, of)
  BY <1>2, <1>3, <1>4 DEF ReadOf, Covers
<1>5. CurrentIn(session', Joined, First)
  BY <1>2, <1>4 DEF CInv, CurrentIn
<1>6. StoresCurrent(Joined, First)'
  <2>1. ASSUME NEW joined, joined = Joined, NEW first, first = First PROVE StoresCurrent(joined, first)'
    BY <1>5, <2>1, SnapshotCurrent DEF CInv, ParsedInChunks
  <2>. QED
    BY <1>1, <2>1 DEF StoresCurrent
<1>7. ASSUME NEW r, HasRead(r, session, Joined) PROVE HasRead(r, session', Joined)
  BY <1>2, <1>3, <1>7 DEF HasRead, Covers
<1>8. \A d \in Clients : Gathering(req'[d], session', Joined)
  BY <1>4, <1>7 DEF ParsedInChunks, CInv, Gathering
<1>9. WorkerAt'
  BY DEF ParsedInChunks, NoWork, WorkerAt
<1>. QED
  BY <1>1, <1>5, <1>6, <1>8, <1>9 DEF CInv

LEMMA ParsedInlineCurrent ==
    ASSUME CInv, [Next]_vars, RInv', ParsedInline
    PROVE  CInv'
<1> DEFINE at == worker.at
           n == Max({at, Len(session.files)})
           files == [i \in 1..n |-> IF i = at THEN worker.file ELSE session.files[i]]
           t == [session EXCEPT !.files = files, !.parsed = @ \cup {worker.file},
                                !.mapping[worker.file] = 0]
<1>0. Formed(session) /\ session.files \in Seq(FileSet) /\ at \in Nat /\ worker.file \in FileSet
      /\ at <= Len(session.files) + 1
  BY DEF CInv, RInv, IInv, Sound, CurrentIn, WorkerAt, ParsedInline
<1>1. files \in Seq(FileSet)
  <2>1. n \in {at, Len(session.files)}
    BY <1>0, LargestOfTwo
  <2> HIDE DEF n
  <2>2. n \in Nat /\ \A i \in 1..n : (IF i = at THEN worker.file ELSE session.files[i]) \in FileSet
    BY <1>0, <2>1
  <2>. QED
    BY <2>2
<1>2. session' = AllInvalidated(t) /\ req' = Torn(Clients) /\ Snapshot(<<"worker", 1>>)
      /\ UNCHANGED rows /\ worker' = NoWork
  BY DEF ParsedInline
<1> HIDE DEF files
<1>3. Formed(t) /\ t.files = files /\ session.parsed \subseteq t.parsed
  BY <1>0 DEF Formed
<1> HIDE DEF t
<1>4. /\ session'.files = files /\ session.parsed \subseteq session'.parsed
      /\ session'.correlation = None /\ session'.conversion = None
  BY <1>2, <1>3, DroppedResults
<1>5. WorkerAt'
  BY <1>2 DEF WorkerAt, NoWork
<1>. QED
  BY <1>1, <1>2, <1>4, <1>5, ChangeCurrent

------------------------------------------------------------------------------
(* Correlations and conversions                                            *)

\* Whoever has come to the end of the list has read all of it.
LEMMA AllRead ==
    ASSUME CInv, NEW c \in Clients, NEW kind, AllGathered(c, kind)
    PROVE  req[c].torn \/ ReadOf(session, Joined, req[c].of)
<1> SUFFICES ASSUME ~req[c].torn PROVE ReadOf(session, Joined, req[c].of)
  OBVIOUS
<1>1. HasRead(req[c], session, Joined) /\ req[c].at > Len(session.files)
      /\ session.files \in Seq(FileSet)
  BY DEF CInv, Gathering, AllGathered, CurrentIn
<1>2. \A f \in ToSet(session.files) : \E i \in DOMAIN session.files : i < req[c].at /\ f = session.files[i]
  BY <1>1 DEF ToSet, HasRead
<1>. QED
  BY <1>1, <1>2 DEF HasRead, ReadOf

LEMMA GatherCurrent ==
    ASSUME CInv, [Next]_vars, RInv', UNCHANGED worker, NEW c \in Clients, Gather(c)
    PROVE  CInv'
<1> DEFINE r == req[c]
           q == req'[c]
           f == session.files[r.at]
<1>1. /\ Others(c) /\ r.pc = "gathering" /\ q.pc = "gathering" /\ q.torn = r.torn
      /\ q.of = Gathered(c, f) /\ q.at = r.at + 1
  BY GatherDoes DEF CInv, RInv
<1>2. UNCHANGED <<session, rows, pending>> /\ r.at <= Len(session.files)
  BY DEF Gather, storeVars
<1>3. session.files \in Seq(FileSet)
  BY DEF CInv, CurrentIn
<1>4. Gathered(c, f) = r.of \cup {<<g, Config(g)>> : g \in {f} \cap session.parsed}
  BY DEF Gathered
<1> HIDE DEF q
<1>5. ASSUME HasRead(r, session, Joined) PROVE HasRead(q, session, Joined)
  <2>1. r.at \in Nat \ {0} /\ q.at \in Nat \ {0}
    BY <1>1, <1>5 DEF HasRead
  <2>2. \A i \in DOMAIN session.files : i < q.at => i < r.at \/ i = r.at
    BY <1>1, <1>3, <2>1
  <2>3. \A x \in q.of : x \in r.of \/ (f \in session.parsed /\ x = <<f, Config(f)>>)
    BY <1>1, <1>4
  <2>4. f \in ToSet(session.files)
    BY <1>2, <1>3, <2>1 DEF ToSet
  <2>5. \A x \in q.of : \E g \in ToSet(session.files) \cap session.parsed :
            x = <<g, <<session.class[g], session.mapping[g]>>>>
    BY <1>5, <2>3, <2>4 DEF HasRead, Config
  <2>6. f \in session.parsed => Covers(session, f, q.of)
    BY <1>1, <1>4 DEF Covers, Config
  <2>7. \A g : Covers(session, g, r.of) => Covers(session, g, q.of)
    BY <1>1, <1>4 DEF Covers
  <2>. QED
    BY <1>5, <2>1, <2>2, <2>5, <2>6, <2>7 DEF HasRead
<1>6. Gathering(q, session, Joined)
  BY <1>1, <1>5 DEF Gathering, CInv
<1>7. StoresCurrent(Joined, First)'
  BY <1>2, BudgetStep DEF CInv, StoresCurrent
<1>. QED
  BY <1>1, <1>2, <1>6, <1>7, QuietCurrent DEF q

LEMMA CorrelateCurrent ==
    ASSUME CInv, [Next]_vars, RInv', UNCHANGED worker, NEW c \in Clients, Correlate(c)
    PROVE  CInv'
<1> DEFINE r == Result(req[c].of, 0, req[c].torn)
<1>1. Going(c, {"gathering"}, {"answered"})
  BY OnlyGoes DEF CInv, RInv
<1>2. /\ AllGathered(c, "correlate") /\ session' = Correlated(session, r)
      /\ Snapshot(<<c, "correlation">>) /\ UNCHANGED rows
  BY DEF Correlate
<1>3. r.torn \/ ReadOf(session, Joined, r.of)
  BY <1>2, AllRead DEF Result
<1> HIDE DEF r
<1>4. Alike(session, session') /\ session'.correlation = r /\ session'.conversion = None
  BY <1>2 DEF Correlated, CInv, RInv, IInv, Sound, Formed, Alike
<1>5. Others(c) /\ Gathering(req'[c], session, Joined)
  BY <1>1 DEF Going, Gathering
<1>. QED
  BY <1>2, <1>3, <1>4, <1>5, StoresCurrentResults

\* The correlation that is there is used, or the one that was gathered.
LEMMA ConvertCurrent ==
    ASSUME CInv, [Next]_vars, RInv', UNCHANGED worker, NEW c \in Clients, Convert(c)
    PROVE  CInv'
<1> DEFINE known == session.correlation
           own == Result(req[c].of, 0, req[c].torn)
           used == IF known.of # {} THEN known ELSE own
<1>1. /\ Others(c) /\ AllGathered(c, "convert") /\ session' = Correlated(session, used)
      /\ req'[c].pc = "replacing" /\ req'[c].of = req[c].of
      /\ req'[c].torn = (req[c].torn \/ used.torn)
  BY ConvertDoes DEF CInv, RInv
<1>2. Snapshot(<<c, "correlation">>) /\ UNCHANGED rows
  BY DEF Convert
<1>3. req[c].torn \/ ReadOf(session, Joined, req[c].of)
  BY <1>1, AllRead
<1>4. own.torn = req[c].torn /\ own.of = req[c].of
  BY DEF Result
<1>5. used = known \/ used = own
  OBVIOUS
<1> HIDE DEF own, used
<1>6. Alike(session, session') /\ session'.correlation = used /\ session'.conversion = None
  BY <1>1 DEF Correlated, CInv, RInv, IInv, Sound, Formed, Alike
<1>7. Gathering(req'[c], session, Joined)
  BY <1>1, <1>3 DEF Gathering
<1>8. \A r \in {session'.correlation, session'.conversion} :
               \/ r \in {None, session.correlation, session.conversion}
               \/ r.torn \/ ReadOf(session, Joined, r.of)
  BY <1>3, <1>4, <1>5, <1>6
<1>. QED
  BY <1>1, <1>2, <1>6, <1>7, <1>8, StoresCurrentResults

LEMMA ConversionStoredCurrent ==
    ASSUME CInv, [Next]_vars, RInv', UNCHANGED worker, NEW c \in Clients, ConversionStored(c)
    PROVE  CInv'
<1> DEFINE r == Result(req[c].of, req[c].n, req[c].torn)
<1>1. Others(c) /\ req[c].pc = "converted" /\ req'[c].pc = "saving"
  BY ConversionStoredDoes DEF CInv, RInv
<1>2. session' = [session EXCEPT !.conversion = r] /\ Snapshot(<<c, "conversion">>) /\ UNCHANGED rows
  BY DEF ConversionStored
<1>3. r.torn \/ ReadOf(session, Joined, r.of)
  BY <1>1 DEF Result, CInv, Gathering
<1> HIDE DEF r
<1>4. Alike(session, session') /\ session'.correlation = session.correlation /\ session'.conversion = r
  BY <1>2 DEF CInv, RInv, IInv, Sound, Formed, Alike
<1>5. Gathering(req'[c], session, Joined)
  BY <1>1 DEF Gathering
<1>. QED
  BY <1>1, <1>2, <1>3, <1>4, <1>5, StoresCurrentResults

LEMMA ChunksReplacedCurrent ==
    ASSUME CInv, [Next]_vars, RInv', UNCHANGED worker, NEW c \in Clients, ChunksReplaced(c)
    PROVE  CInv'
<1>1. /\ Others(c) /\ req[c].pc = "replacing" /\ req'[c].pc = "converted"
      /\ req'[c].of = req[c].of /\ req'[c].torn = req[c].torn
  BY ChunksReplacedDoes DEF CInv, RInv
<1>2. Gathering(req'[c], session, Joined)
  BY <1>1 DEF CInv, Gathering
<1>3. UNCHANGED <<session, rows, pending>>
  BY DEF ChunksReplaced, storeVars
<1>4. StoresCurrent(Joined, First)'
  BY <1>3, BudgetStep DEF CInv, StoresCurrent
<1>. QED
  BY <1>1, <1>2, <1>3, <1>4, QuietCurrent

------------------------------------------------------------------------------
(* The other requests                                                      *)

LEMMA ValidateStoresCurrent ==
    ASSUME CInv, [Next]_vars, RInv', UNCHANGED worker, NEW c \in Clients, ValidateStores(c)
    PROVE  CInv'
<1>1. Others(c) /\ Gathering(req'[c], session, Joined)
  BY OnlyGoes DEF CInv, RInv, Going, Gathering
<1>2. Alike(session, session') /\ session'.correlation = session.correlation
      /\ session'.conversion = session.conversion
  BY DEF ValidateStores, CInv, RInv, IInv, Sound, Formed, Alike
<1>. QED
  BY <1>1, <1>2, StoresCurrentResults DEF ValidateStores

\* A step of one request to an await that is none of a conversion's.
LEMMA ElsewhereCurrent ==
    ASSUME CInv, [Next]_vars, RInv', UNCHANGED <<session, worker, rows>>, NEW c \in Clients, Others(c),
           req'[c].pc \notin {"gathering", "replacing", "converted"},
           UNCHANGED pending \/ \E owner, g : Save(owner, "imported", g)
    PROVE  CInv'
<1>1. Gathering(req'[c], session, Joined)
  BY DEF Gathering
<1>2. UNCHANGED <<Joined, First>>
  BY BudgetStep DEF CInv
<1>3. StoresCurrent(Joined, First)'
  <2>1. ASSUME NEW joined, joined = Joined, NEW first, first = First PROVE StoresCurrent(joined, first)'
    BY <2>1, GraphSavedCurrent DEF CInv
  <2>. QED
    BY <1>2, <2>1 DEF StoresCurrent
<1>. QED
  BY <1>1, <1>3, QuietCurrent

LEMMA GoesOnCurrent ==
    ASSUME CInv, [Next]_vars, RInv', UNCHANGED worker, NEW c \in Clients, RequestGoesOn(c)
    PROVE  CInv'
<1>0. IInv
  BY DEF CInv, RInv
<1> USE ElsewhereCurrent
<1>1. CASE IssuesDeleted(c)
  BY <1>0, <1>1, OnlyGoes DEF Going, IssuesDeleted, storeVars
<1>2. CASE IssuesSaved(c) \/ IssuesFail(c)
  BY <1>0, <1>2, OnlyGoes DEF Going, IssuesSaved, IssuesFail, storeVars
<1>3. CASE ConvertEnds(c)
  BY <1>0, <1>3, OnlyGoes DEF Going, ConvertEnds
<1>4. CASE Refresh(c)
  BY <1>0, <1>4, OnlyGoes DEF Going, Refresh, storeVars
<1>5. CASE TransactionCommits(c)
  BY <1>0, <1>5, OnlyGoes DEF Going, TransactionCommits, storeVars
<1>6. CASE ApplyFails(c)
  BY <1>0, <1>6, OnlyGoes DEF Going, ApplyFails, storeVars
<1>7. CASE ApplyCompletes(c)
  BY <1>0, <1>7, OnlyGoes DEF Going, ApplyCompletes, storeVars
<1>8. CASE RiskSaved(c)
  <2>1. Others(c) /\ req'[c].pc \in {"refreshing", "refused"}
    BY <1>0, <1>8, OnlyGoes DEF Going
  <2>2. UNCHANGED <<session, rows>> /\ (UNCHANGED pending \/ SetImportedGraph(c, req[c].graph))
    BY <1>8 DEF RiskSaved
  <2>. QED
    BY <2>1, <2>2 DEF SetImportedGraph
<1>9. CASE LoadNodes(c)
  BY <1>0, <1>9, LoadNodesDoes DEF LoadNodes, storeVars
<1>10. CASE VersionOpens(c)
  BY <1>0, <1>10, VersionOpensDoes DEF VersionOpens, storeVars
<1>11. CASE LoadLinks(c)
  <2>1. Others(c) /\ req'[c].pc \in {"committing", "flushing"}
        /\ (UNCHANGED pending \/ \E g : SetMemoryGraph(c, g))
    BY <1>0, <1>11, LoadLinksDoes
  <2>2. UNCHANGED <<session, rows>>
    BY <1>11 DEF LoadLinks
  <2>. QED
    BY <2>1, <2>2 DEF SetMemoryGraph
<1>. QED
  BY <1>1, <1>2, <1>3, <1>4, <1>5, <1>6, <1>7, <1>8, <1>9, <1>10, <1>11, GatherCurrent,
     CorrelateCurrent, ConvertCurrent, ConversionStoredCurrent, ChunksReplacedCurrent,
     ValidateStoresCurrent DEF RequestGoesOn

LEMMA StartsCurrent ==
    ASSUME CInv, [Next]_vars, RInv', UNCHANGED worker, NEW c \in Clients, RequestStarts(c)
    PROVE  CInv'
<1>0. IInv
  BY DEF CInv, RInv
<1>1. ASSUME NEW f \in FileSet, ValidateStarts(c, f) PROVE CInv'
  BY <1>0, <1>1, ValidateStartsDoes, ElsewhereCurrent DEF ValidateStarts, storeVars
<1>2. CASE PersistStarts(c)
  <2>1. Others(c) /\ req'[c].pc \in {"opening", "loading"}
    BY <1>0, <1>2, PersistStartsDoes
  <2>. QED
    BY <1>2, <2>1, ElsewhereCurrent DEF PersistStarts, storeVars
<1>3. ASSUME NEW kind \in {"correlate", "convert"}, GatherStarts(c, kind) PROVE CInv'
  <2>1. Others(c) /\ req'[c].pc \in {"gathering", "refused"} /\ req'[c].at = 1 /\ req'[c].of = {}
    BY <1>0, <1>3, GatherStartsDoes
  <2>2. UNCHANGED <<session, rows, pending>>
    BY <1>3 DEF GatherStarts, storeVars
  <2>3. StoresCurrent(Joined, First)'
    BY <2>2, BudgetStep DEF CInv, StoresCurrent
  <2>4. Gathering(req'[c], session, Joined)
    <3>1. \A i \in DOMAIN session.files : ~(i < 1)
      BY DEF CInv, CurrentIn
    <3>. QED
      BY <2>1, <3>1 DEF Gathering, HasRead
  <2>. QED
    BY <2>1, <2>2, <2>3, <2>4, QuietCurrent
<1>. QED
  BY <1>1, <1>2, <1>3 DEF RequestStarts

------------------------------------------------------------------------------
(* The rows and a restart                                                  *)

\* A session that is sent late is marked, or it is the one of the call.
LEMMA LateCurrent ==
    ASSUME CInv, NEW w \in pending, w.row = "import"
    PROVE  CurrentIn(Late(w), Joined, First)
<1> DEFINE v == w.value
           late == v.late \/ v.files # session.files \/ v.parsed # session.parsed
                          \/ v.class # session.class
<1>1. Formed(v) /\ CurrentIn(v, Joined, First) /\ CurrentIn(session, Joined, First)
  BY DEF CInv, RInv, IInv, StoresSound, Sound, StoresCurrent
<1>2. Late(w) = [v EXCEPT !.files = session.files, !.parsed = session.parsed,
                          !.class = session.class, !.late = late]
  BY DEF Late
<1>3. ~late => ~v.late /\ v.files = session.files /\ v.parsed = session.parsed
               /\ v.class = session.class
  OBVIOUS
<1> HIDE DEF late, v
<1>4. /\ Late(w).files = session.files /\ Late(w).parsed = session.parsed
      /\ Late(w).class = session.class /\ Late(w).mapping = v.mapping /\ Late(w).late = late
      /\ Late(w).correlation = v.correlation /\ Late(w).conversion = v.conversion
  BY <1>1, <1>2 DEF Formed
<1>5. ASSUME ~late, NEW of, ReadOf(v, Joined, of) PROVE ReadOf(Late(w), Joined, of)
  BY <1>3, <1>4, <1>5 DEF ReadOf, Covers
<1>. QED
  BY <1>1, <1>3, <1>4, <1>5 DEF CurrentIn

LEMMA WritesCurrent ==
    ASSUME CInv, [Next]_vars, RInv', UNCHANGED worker,
           NEW w \in pending, WriteLands(w) \/ WriteFails(w)
    PROVE  CInv'
<1>1. BudgetKnown' /\ UNCHANGED <<Joined, First>>
  BY BudgetStep DEF CInv
<1>2. UNCHANGED <<session, req>> /\ pending' = pending \ {w} /\ DOMAIN rows = {"import", "imported"}
  BY DEF WriteLands, WriteFails, Lands, Fails, CInv, RInv, IInv, StoresSound
<1>3. \/ rows'["import"] = rows["import"]
      \/ w.row = "import" /\ rows'["import"] \in {w.value, Late(w)}
  <2>1. CASE WriteFails(w)
    BY <2>1 DEF WriteFails, Fails
  <2>2. CASE WriteLands(w)
    BY <1>2, <2>2 DEF WriteLands, Lands
  <2>. QED
    BY <2>1, <2>2
<1>4. CurrentIn(rows'["import"], Joined, First)
  BY <1>3, LateCurrent DEF CInv, StoresCurrent
<1>5. StoresCurrent(Joined, First)'
  BY <1>1, <1>2, <1>4 DEF CInv, StoresCurrent
<1>. QED
  BY <1>1, <1>2, <1>5 DEF CInv, WorkerAt

LEMMA RestartCurrent ==
    ASSUME CInv, [Next]_vars, RInv', Restart
    PROVE  CInv'
<1>1. BudgetKnown' /\ UNCHANGED <<Joined, First>>
  BY BudgetStep DEF CInv
<1>2. UNCHANGED rows /\ session' = rows["import"] /\ pending' = {} /\ worker' = NoWork
      /\ \A d \in Clients : req'[d].pc = "idle"
  BY RestartDoes DEF Restart
<1>. QED
  BY <1>1, <1>2 DEF CInv, StoresCurrent, WorkerAt, NoWork, Gathering

LEMMA StepCurrent == ASSUME CInv, [Next]_vars PROVE CInv'
<1>1. RInv'
  BY StepSuits DEF CInv
<1>2. CASE UNCHANGED vars
  <2>1. UNCHANGED <<session, worker, req, pending, rows>>
    BY <1>2 DEF vars
  <2>2. BudgetKnown' /\ UNCHANGED <<Joined, First>>
    BY BudgetStep DEF CInv
  <2>. QED
    BY <1>1, <2>1, <2>2 DEF CInv, StoresCurrent, WorkerAt
<1>. QED
  BY <1>1, <1>2, ChangesCurrent, StartsCurrent, GoesOnCurrent, WritesCurrent, WorkerStartsCurrent,
     ParsedInChunksCurrent, ParsedInlineCurrent, RestartCurrent DEF Next

\* A correlation and a conversion that are shown cover exactly the sheets of the import, with the
\* mapping and the classification in effect, but for a file that is parsed in chunks: whatever
\* requests, changes, late writes and restarts there are (buildCorrelationRecords,
\* setCorrelationResult, invalidateAllDerived, persistSnapshot).
THEOREM ResultsCover == Spec => []ResultsAreCurrent
<1>1. Init => CInv
  BY InitCurrent
<1>2. CInv /\ [Next]_vars => CInv'
  BY StepCurrent
<1>3. CInv => ResultsAreCurrent
  BY DEF CInv, CurrentIn, ReadOf, Covers, ResultsAreCurrent, Parsed, Present, Config, Joined, First
<1>. QED
  BY <1>1, <1>2, <1>3, PTL DEF Spec

------------------------------------------------------------------------------
(***************************************************************************)
(* What the persists leave in Neo4j and in the memory of the risk engine.  *)
(*                                                                         *)
(* A persist that meets no other one and no fault is alone from its first  *)
(* step on (Alone).  Its version is the last one that was opened, its      *)
(* transaction the last that has committed; without Neo4j, its flush waits *)
(* for every write of an earlier graph, so that the writes of its own are  *)
(* the last.                                                               *)
(***************************************************************************)

Persists == {c \in Clients : req[c].pc \in Persisting}
Sole == split \subseteq {"convert"}
Alone == Sole => \A c, d \in Persists : c = d

\* The steps with Neo4j and those without it.
WithNeo == {"opening", "committing", "completing"}
WithoutNeo == {"flushing", "refreshing"}
Moded ==
    \A c \in Clients : /\ budget.neo4j => req[c].pc \notin WithoutNeo
                       /\ ~budget.neo4j => req[c].pc \notin WithNeo

SInv == RInv /\ BudgetKnown /\ Alone /\ Moded

\* Persists that are marked at most.
PersistsStay == \A d \in Clients :
    req[d].pc \in Persisting \/ req'[d].pc \in Persisting => Same(req[d], req'[d])

LEMMA BusyPersists == ASSUME RInv PROVE Busy("persist") = Persists
BY DEF RInv, Suits, Busy, Free, Persists, Persisting, Validating

\* A step that is none of a persist.
NoPersist ==
    /\ ~(\E c \in Clients : \/ PersistStarts(c) \/ LoadNodes(c) \/ LoadLinks(c) \/ RiskSaved(c)
                            \/ Refresh(c) \/ VersionOpens(c) \/ TransactionCommits(c)
                            \/ ApplyFails(c) \/ ApplyCompletes(c))
    /\ ~Restart

LEMMA OthersStay ==
    ASSUME IInv, NEW c \in Clients, Others(c), req[c].pc \notin Persisting,
           req'[c].pc \notin Persisting
    PROVE  PersistsStay
BY DEF PersistsStay, Others

\* It leaves the persists and what they work on, but for the chunks, which it notes.
LEMMA NoPersistStays ==
    ASSUME RInv, [Next]_vars, NoPersist
    PROVE  /\ PersistsStay /\ UNCHANGED <<risk, versions, applied>>
           /\ \/ UNCHANGED <<chunks, split>>
              \/ UNCHANGED chunks /\ split' = split \cup {"fault"}
              \/ UNCHANGED pending /\ split' = IF \E d \in Clients : req[d].pc = "linking"
                                               THEN split \cup {"convert"} ELSE split
<1>0. IInv
  BY DEF RInv
<1> DEFINE Goal == /\ PersistsStay /\ UNCHANGED <<risk, versions, applied>>
                   /\ \/ UNCHANGED <<chunks, split>>
                      \/ UNCHANGED chunks /\ split' = split \cup {"fault"}
                      \/ UNCHANGED pending /\ split' = IF \E d \in Clients : req[d].pc = "linking"
                                                       THEN split \cup {"convert"} ELSE split
<1>1. ASSUME NEW c \in Clients, RequestGoesOn(c) PROVE Goal
  <2>1. PersistsStay
    <3> USE <1>0, OthersStay DEF Persisting
    <3>1. \/ ValidateStores(c) \/ IssuesDeleted(c) \/ IssuesSaved(c) \/ IssuesFail(c)
          \/ Correlate(c) \/ ConvertEnds(c)
          => PersistsStay
      BY OnlyGoes DEF Going
    <3>2. Gather(c) => PersistsStay
      BY GatherDoes
    <3>3. Convert(c) => PersistsStay
      BY ConvertDoes DEF AllGathered
    <3>4. ChunksReplaced(c) => PersistsStay
      BY ChunksReplacedDoes
    <3>5. ConversionStored(c) => PersistsStay
      BY ConversionStoredDoes
    <3>. QED
      BY <1>1, <3>1, <3>2, <3>3, <3>4, <3>5 DEF RequestGoesOn, NoPersist
  <2>2. ChunksReplaced(c) => Goal
    BY <2>1 DEF ChunksReplaced, memories, neo, storeVars
  <2>3. ~ChunksReplaced(c) => UNCHANGED <<risk, versions, applied, chunks, split>>
    BY <1>1 DEF RequestGoesOn, NoPersist, ValidateStores, IssuesDeleted, IssuesSaved, IssuesFail, Gather,
       Correlate, Convert, ConversionStored, ConvertEnds, graphVars
  <2>. QED
    BY <2>1, <2>2, <2>3
<1>2. ASSUME NEW c \in Clients, RequestStarts(c) PROVE Goal
  <2>1. ASSUME NEW f \in FileSet, ValidateStarts(c, f) PROVE Goal
    <3>1. PersistsStay
      BY <1>0, <2>1, ValidateStartsDoes, OthersStay DEF Free, Persisting
    <3>. QED
      BY <2>1, <3>1 DEF ValidateStarts, graphVars
  <2>2. ASSUME NEW kind \in {"correlate", "convert"}, GatherStarts(c, kind) PROVE Goal
    <3>1. PersistsStay
      BY <1>0, <2>2, GatherStartsDoes, OthersStay DEF Free, Persisting
    <3>. QED
      BY <2>2, <3>1 DEF GatherStarts, graphVars
  <2> HIDE DEF Goal
  <2>. QED
    BY <1>2, <2>1, <2>2 DEF RequestStarts, NoPersist
<1>3. ASSUME ~(\E c \in Clients : RequestStarts(c) \/ RequestGoesOn(c)) PROVE Goal
  <2>1. PersistsStay /\ UNCHANGED <<chunks, risk, versions, applied>>
    BY <1>0, <1>3, OtherSteps DEF PersistsStay, NoPersist
  <2>2. UNCHANGED split \/ split' = split \cup {"fault"}
    BY <1>3 DEF Next, NoPersist, ApplyMappings, Classify, RemoveFile, Change, WriteLands, WriteFails,
       Faulty, WorkerStarts, ParsedInChunks, ParsedInline, vars
  <2>. QED
    BY <2>1, <2>2
<1> HIDE DEF Goal
<1>4. Goal
  BY <1>1, <1>2, <1>3
<1>. QED
  BY <1>4 DEF Goal

LEMMA StayingPersists ==
    ASSUME PersistsStay
    PROVE  /\ Persists' = Persists
           /\ \A d \in Clients : req'[d].pc \in Persisting => Same(req[d], req'[d])
           /\ \A d \in Persists : Same(req[d], req'[d])
BY DEF PersistsStay, Persists, Same

\* Only a persist that finds no other one forgets what the others met.
LEMMA SoleStays == ASSUME [Next]_vars, Sole', ~Sole PROVE \E c \in Clients : PersistStarts(c)
<1>1. ASSUME NEW c \in Clients, RequestGoesOn(c) PROVE split \subseteq split'
  BY <1>1 DEF RequestGoesOn, ValidateStores, IssuesDeleted, IssuesSaved, IssuesFail, Gather,
     Correlate, Convert, ChunksReplaced, ConversionStored, ConvertEnds, LoadNodes, LoadLinks, RiskSaved, Refresh,
     VersionOpens, TransactionCommits, ApplyFails, ApplyCompletes, Faulty
<1>2. ASSUME NEW c \in Clients, RequestStarts(c), ~PersistStarts(c) PROVE split \subseteq split'
  BY <1>2 DEF RequestStarts, ValidateStarts, GatherStarts
<1>3. ~(\E c \in Clients : RequestStarts(c) \/ RequestGoesOn(c)) => split \subseteq split'
  BY DEF Next, ApplyMappings, Classify, RemoveFile, Change, WriteLands, WriteFails,
     Faulty, WorkerStarts, ParsedInChunks, ParsedInline, Restart, vars
<1>. QED
  BY <1>1, <1>2, <1>3 DEF Sole

\* The steps of a persist.
LEMMA PersistStep ==
    ASSUME RInv, NEW c \in Clients
    PROVE  /\ LoadNodes(c) => Others(c) /\ req[c].pc = "loading" /\ req'[c].pc = "linking"
                              /\ req'[c].n = req[c].n
           /\ LoadLinks(c) => Others(c) /\ req[c].pc = "linking" /\ req'[c].n = req[c].n
                              /\ req'[c].pc = IF budget.neo4j THEN "committing" ELSE "flushing"
           /\ VersionOpens(c) => Others(c) /\ req[c].pc = "opening" /\ req'[c].pc = "loading"
BY LoadNodesDoes, LoadLinksDoes, VersionOpensDoes DEF RInv

LEMMA StepAlone == ASSUME SInv, [Next]_vars PROVE SInv'
<1>0. RInv' /\ BudgetKnown' /\ budget'.neo4j = budget.neo4j /\ IInv
  BY StepSuits, BudgetStep DEF SInv, RInv
<1>1. CASE NoPersist
  <2>1. PersistsStay
    BY <1>1, NoPersistStays DEF SInv
  <2>2. Alone'
    BY <1>1, <2>1, StayingPersists, SoleStays DEF SInv, Alone, NoPersist
  <2>3. Moded'
    BY <1>0, <2>1, StayingPersists DEF SInv, Moded, Same, WithNeo, WithoutNeo, Persisting
  <2>. QED
    BY <1>0, <2>2, <2>3 DEF SInv
<1>2. ASSUME NEW c \in Clients, Others(c), c \in Persists, ~(\E d \in Clients : PersistStarts(d)),
             \/ budget.neo4j /\ req'[c].pc \notin WithoutNeo
             \/ ~budget.neo4j /\ req'[c].pc \notin WithNeo
      PROVE  SInv'
  <2>1. \A d \in Persists' : d \in Persists
    BY <1>2 DEF Others, Same, Persists
  <2>2. Alone'
    BY <1>2, <2>1, SoleStays DEF SInv, Alone
  <2>3. Moded'
    BY <1>0, <1>2 DEF SInv, Moded, Others, Same
  <2>. QED
    BY <1>0, <2>2, <2>3 DEF SInv
<1>3. ASSUME NEW c \in Clients, PersistStarts(c) PROVE SInv'
  <2>1. /\ Others(c) /\ Free(c) /\ req'[c].pc = IF budget.neo4j THEN "opening" ELSE "loading"
    BY <1>0, <1>3, PersistStartsDoes
  <2>2. split' = IF Persists = {} THEN {} ELSE split \cup {"persist"}
    BY <1>3, BusyPersists DEF PersistStarts, SInv
  <2>3. Alone'
    BY <2>1, <2>2 DEF Alone, Sole, Persists, Others, Same
  <2>4. Moded'
    BY <1>0, <2>1 DEF SInv, Moded, Others, Same, WithNeo, WithoutNeo
  <2>. QED
    BY <1>0, <2>3, <2>4 DEF SInv
<1>4. ASSUME ~(\E d \in Clients : PersistStarts(d)), NEW c \in Clients,
             \/ LoadNodes(c) \/ LoadLinks(c) \/ RiskSaved(c) \/ Refresh(c) \/ VersionOpens(c)
             \/ TransactionCommits(c) \/ ApplyFails(c) \/ ApplyCompletes(c)
      PROVE  SInv'
  <2>1. LoadNodes(c) \/ LoadLinks(c) \/ VersionOpens(c) => SInv'
    BY <1>2, <1>4, PersistStep DEF SInv, BudgetKnown, Persists, Persisting, WithNeo, WithoutNeo
  <2>2. RiskSaved(c) \/ Refresh(c) => SInv'
    BY <1>0, <1>2, <1>4, OnlyGoes DEF SInv, Going, Moded, Persists, Persisting, WithNeo, WithoutNeo
  <2>3. TransactionCommits(c) \/ ApplyFails(c) \/ ApplyCompletes(c) => SInv'
    BY <1>0, <1>2, <1>4, OnlyGoes DEF SInv, Going, Moded, Persists, Persisting, WithNeo, WithoutNeo
  <2>. QED
    BY <1>4, <2>1, <2>2, <2>3
<1>5. CASE Restart
  <2>1. \A d \in Clients : req'[d].pc = "idle"
    BY <1>5, RestartDoes
  <2>. QED
    BY <1>0, <2>1 DEF SInv, Alone, Moded, Persists, Persisting, WithNeo, WithoutNeo
<1>. QED
  BY <1>1, <1>3, <1>4, <1>5 DEF NoPersist

LEMMA InitAlone == ASSUME Init PROVE SInv
BY InitSuits, ResultsAssumption DEF Init, Idle, SInv, BudgetKnown, Alone, Moded, Persists, Persisting,
   WithNeo, WithoutNeo

------------------------------------------------------------------------------
(* The versions of Neo4j                                                   *)

Applying == {"loading", "linking", "committing", "completing"}

Committed(v) == \E i \in DOMAIN applied : applied[i].version = v

Versions == Seq([status : {"APPLYING", "COMPLETED", "FAILED"}])

\* What is applied is a version, and a version is completed after it has been applied.
HistoryKept ==
    /\ \A i \in DOMAIN applied : applied[i].version \in DOMAIN versions
    /\ \A v \in DOMAIN versions : versions[v].status = "COMPLETED" => Committed(v)
    /\ \A c \in Clients : /\ budget.neo4j /\ req[c].pc \in Applying => req[c].n \in DOMAIN versions
                          /\ req[c].pc = "completing" => Committed(req[c].n)

\* A persist that is alone applies the last version; when there is none, the last one applied
\* is the latest that is completed.
LastIsLatest ==
    Sole => /\ \A c \in Clients :
                   /\ budget.neo4j /\ req[c].pc \in Applying => req[c].n = Len(versions)
                   /\ req[c].pc = "completing" => Last(applied).version = req[c].n
            /\ applied # <<>> /\ Persists = {} => Last(applied).version = LatestVersion

HInv == /\ SInv /\ versions \in Versions /\ DOMAIN applied = 1..Len(applied) /\ Len(applied) \in Nat
        /\ applied \in Seq(ToSet(applied)) /\ (~budget.neo4j => applied = <<>>)
        /\ HistoryKept /\ LastIsLatest

LEMMA Appended ==
    ASSUME NEW s, s \in Seq(ToSet(s)), NEW e
    PROVE  LET t == Append(s, e)
           IN  /\ t \in Seq(ToSet(t)) /\ DOMAIN t = 1..Len(t) /\ Len(t) \in Nat
               /\ t # <<>> /\ Last(t) = e /\ \E i \in DOMAIN t : t[i] = e
               /\ \A i \in DOMAIN s : i \in DOMAIN t /\ t[i] = s[i]
               /\ \A i \in DOMAIN t : t[i] = e \/ \E j \in DOMAIN s : t[i] = s[j]
<1> DEFINE t == Append(s, e)
           S == ToSet(s) \cup {e}
<1>1. s \in Seq(S)
  <2>1. \A i \in DOMAIN s : s[i] \in S
    BY DEF ToSet
  <2>2. Len(s) \in Nat /\ DOMAIN s = 1..Len(s) /\ s = [i \in 1..Len(s) |-> s[i]]
    OBVIOUS
  <2>. QED
    BY <2>1, <2>2
<1> HIDE DEF S
<1>0. e \in S
  BY DEF S
<1> HIDE DEF t
<1>2. /\ t \in Seq(S) /\ Len(t) = Len(s) + 1 /\ DOMAIN t = 1..Len(t) /\ t[Len(t)] = e
      /\ \A i \in 1..Len(s) : t[i] = s[i]
      /\ Len(s) \in Nat /\ DOMAIN s = 1..Len(s)
  <2>1. Append(s, e) \in Seq(S) /\ Len(Append(s, e)) = Len(s) + 1
    BY <1>0, <1>1
  <2>2. Len(s) \in Nat /\ DOMAIN s = 1..Len(s)
    BY <1>1
  <2>3. DOMAIN Append(s, e) = 1..Len(Append(s, e))
    BY <2>1
  <2>4. Append(s, e)[Len(s) + 1] = e
    BY <1>0, <1>1
  <2>5. \A i \in 1..Len(s) : Append(s, e)[i] = s[i]
    BY <1>0, <1>1
  <2>. QED
    BY <2>1, <2>2, <2>3, <2>4, <2>5 DEF t
<1>3. \A i \in DOMAIN t : i \in DOMAIN s \/ i = Len(t)
  BY <1>2
<1>4. t \in Seq(ToSet(t))
  <2>1. \A i \in 1..Len(t) : t[i] \in ToSet(t)
    BY <1>2 DEF ToSet
  <2>2. t = [i \in 1..Len(t) |-> t[i]] /\ Len(t) \in Nat
    BY <1>2
  <2>. QED
    BY <2>1, <2>2
<1>5. Len(t) \in DOMAIN t /\ t # <<>>
  BY <1>2
<1>. QED
  BY <1>2, <1>3, <1>4, <1>5 DEF Last, t

LEMMA RowAt ==
    ASSUME NEW S, NEW s \in Seq(S), NEW i \in DOMAIN s
    PROVE  s[i] \in S
OBVIOUS

LEMMA RowReplaced ==
    ASSUME NEW S, NEW s \in Seq(S), NEW i \in DOMAIN s, NEW e \in S
    PROVE  LET t == [s EXCEPT ![i] = e]
           IN  /\ t \in Seq(S) /\ DOMAIN t = DOMAIN s /\ Len(t) = Len(s)
               /\ t[i] = e /\ \A j \in DOMAIN s \ {i} : t[j] = s[j]
OBVIOUS

\* The highest version that is completed.
LatestOf(vs) ==
    LET completed == {v \in DOMAIN vs : vs[v].status = "COMPLETED"}
    IN IF completed = {} THEN 0 ELSE CHOOSE v \in completed : \A w \in completed : w <= v

LEMMA LatestIs ==
    ASSUME NEW S, NEW vs \in Seq(S), NEW v \in DOMAIN vs, v = Len(vs), vs[v].status = "COMPLETED"
    PROVE  LatestOf(vs) = v
<1> DEFINE completed == {u \in DOMAIN vs : vs[u].status = "COMPLETED"}
<1>1. v \in completed /\ \A u \in completed : u \in Nat /\ u <= v
  OBVIOUS
<1>2. \A u \in completed : (\A w \in completed : w <= u) => u = v
  BY <1>1
<1> HIDE DEF completed
<1>3. (CHOOSE u \in completed : \A w \in completed : w <= u) = v
  BY <1>1, <1>2
<1>4. completed # {}
  BY <1>1
<1>. QED
  BY <1>3, <1>4 DEF LatestOf, completed

LEMMA SameLatest == ASSUME UNCHANGED versions PROVE LatestVersion' = LatestVersion
BY DEF LatestVersion

------------------------------------------------------------------------------
(* Each step                                                               *)

\* A step of one request that neither opens, commits nor ends a version.
LEMMA SameVersions ==
    ASSUME HInv, SInv', budget'.neo4j = budget.neo4j, UNCHANGED <<versions, applied>>,
           \A d \in Clients : /\ req'[d].pc \in Applying => req[d].pc \in Applying /\ req'[d].n = req[d].n
                              /\ req'[d].pc = "completing" => req[d].pc = "completing",
           Sole' => Sole /\ (Persists' = {} => Persists = {} \/ ~budget.neo4j)
    PROVE  HInv'
<1>1. HistoryKept'
  BY DEF HInv, HistoryKept, Committed, Applying
<1>2. LastIsLatest'
  BY SameLatest DEF HInv, LastIsLatest, Applying
<1>. QED
  BY <1>1, <1>2 DEF HInv

LEMMA NoPersistHistory ==
    ASSUME HInv, [Next]_vars, SInv', NoPersist
    PROVE  HInv'
<1>1. PersistsStay /\ UNCHANGED <<versions, applied>> /\ budget'.neo4j = budget.neo4j
  BY NoPersistStays, BudgetStep DEF HInv, SInv
<1>2. Persists' = Persists /\ (Sole' => Sole)
  BY <1>1, StayingPersists, SoleStays DEF NoPersist
<1>3. ASSUME NEW d \in Clients
      PROVE  /\ req'[d].pc \in Applying => req[d].pc \in Applying /\ req'[d].n = req[d].n
             /\ req'[d].pc = "completing" => req[d].pc = "completing"
  <2>1. req'[d].pc \in Persisting => Same(req[d], req'[d])
    BY <1>1, StayingPersists
  <2>. QED
    BY <2>1 DEF Same, Applying, Persisting
<1>. QED
  BY <1>1, <1>2, <1>3, SameVersions

\* A persist that finds no other one starts over what the last of them left.
LEMMA PersistStartsHistory ==
    ASSUME HInv, [Next]_vars, SInv', NEW c \in Clients, PersistStarts(c)
    PROVE  HInv'
<1>1. /\ Others(c) /\ req'[c].pc = IF budget.neo4j THEN "opening" ELSE "loading"
  BY PersistStartsDoes DEF HInv, SInv, RInv
<1>2. UNCHANGED <<versions, applied>> /\ budget'.neo4j = budget.neo4j
  BY BudgetStep DEF HInv, SInv, PersistStarts, graphVars
<1>3. split' = IF Persists = {} THEN {} ELSE split \cup {"persist"}
  BY BusyPersists DEF PersistStarts, HInv, SInv
<1>4. HistoryKept'
  BY <1>1, <1>2 DEF HInv, HistoryKept, Committed, Applying, Others, Same
<1>5. LastIsLatest'
  <2> SUFFICES ASSUME Sole' PROVE LastIsLatest'
    BY DEF LastIsLatest
  <2>1. Persists = {}
    BY <1>3 DEF Sole
  <2>2. c \in Persists'
    BY <1>1 DEF Persists, Persisting
  <2>3. \A d \in Clients : d # c => req'[d].pc \notin Persisting
    BY <1>1, <2>1 DEF Persists, Others, Same
  <2>4. \A d \in Clients : /\ budget.neo4j => req'[d].pc \notin Applying
                           /\ req'[d].pc # "completing"
    BY <1>1, <2>3 DEF Applying, Persisting
  <2>. QED
    BY <1>2, <2>2, <2>4 DEF LastIsLatest
<1>. QED
  BY <1>2, <1>4, <1>5 DEF HInv

LEMMA LoadsHistory ==
    ASSUME HInv, [Next]_vars, SInv', ~(\E d \in Clients : PersistStarts(d)),
           NEW c \in Clients, LoadNodes(c) \/ LoadLinks(c)
    PROVE  HInv'
<1>1. /\ Others(c) /\ req[c].pc \in {"loading", "linking"}
      /\ req'[c].pc \in {"linking", "committing", "flushing"} /\ req'[c].n = req[c].n
  BY PersistStep DEF HInv, SInv
<1>2. UNCHANGED <<versions, applied>> /\ budget'.neo4j = budget.neo4j
  BY BudgetStep DEF HInv, SInv, LoadNodes, LoadLinks, graphVars, neo
<1>3. ((Sole' => Sole) /\ Persists' # {}) \/ ~budget.neo4j
  <2>1. budget.neo4j => req'[c].pc \in Persisting
    BY <1>1 DEF Persisting
  <2>. QED
    BY <2>1, SoleStays DEF Persists
<1>. QED
  BY <1>1, <1>2, <1>3, SoleStays, SameVersions DEF Others, Same, Applying

\* Without Neo4j nothing is applied.
LEMMA MemoryHistory ==
    ASSUME HInv, [Next]_vars, SInv', ~(\E d \in Clients : PersistStarts(d)),
           NEW c \in Clients, RiskSaved(c) \/ Refresh(c)
    PROVE  HInv'
<1>1. Going(c, {"flushing", "refreshing"}, {"refreshing", "refused", "answered"})
  BY OnlyGoes DEF HInv, SInv, RInv, Going
<1>2. UNCHANGED <<versions, applied>> /\ budget'.neo4j = budget.neo4j
  BY BudgetStep DEF HInv, SInv, RiskSaved, Refresh, neo
<1>3. ~budget.neo4j
  BY <1>1 DEF HInv, SInv, Moded, WithoutNeo, Going
<1>. QED
  BY <1>1, <1>2, <1>3, SoleStays, SameVersions DEF Others, Same, Applying, Going

\* The row of a version, the last one.
LEMMA VersionOpensHistory ==
    ASSUME HInv, [Next]_vars, SInv', ~(\E d \in Clients : PersistStarts(d)),
           NEW c \in Clients, VersionOpens(c)
    PROVE  HInv'
<1> DEFINE row == [status |-> "APPLYING"]
<1>1. Others(c) /\ req[c].pc = "opening" /\ req'[c].pc = "loading" /\ req'[c].n = Len(versions')
  BY VersionOpensDoes DEF HInv, SInv, RInv
<1>2. versions' = Append(versions, row) /\ UNCHANGED applied /\ budget'.neo4j = budget.neo4j
  BY BudgetStep DEF HInv, SInv, VersionOpens, VersionSaved
<1>3. /\ versions' \in Versions /\ Len(versions') = Len(versions) + 1 /\ Len(versions) \in Nat
      /\ DOMAIN versions' = 1..Len(versions') /\ DOMAIN versions = 1..Len(versions)
      /\ versions'[Len(versions')] = row /\ \A v \in DOMAIN versions : versions'[v] = versions[v]
  <2>1. row \in [status : {"APPLYING", "COMPLETED", "FAILED"}]
    OBVIOUS
  <2>2. versions \in Seq([status : {"APPLYING", "COMPLETED", "FAILED"}])
    BY DEF HInv, Versions
  <2> HIDE DEF row
  <2>. QED
    BY <1>2, <2>1, <2>2 DEF Versions
<1>4. /\ \A v \in DOMAIN versions : v \in DOMAIN versions'
      /\ \A v \in DOMAIN versions' : v \in DOMAIN versions \/ v = Len(versions')
      /\ Len(versions') \in DOMAIN versions'
  BY <1>3
<1>5. HistoryKept'
  <2>1. \A v \in DOMAIN versions' : versions'[v].status = "COMPLETED" => v \in DOMAIN versions
    BY <1>3, <1>4
  <2>2. \A v \in DOMAIN versions' : versions'[v].status = "COMPLETED" => Committed(v)'
    BY <1>2, <1>3, <2>1 DEF HInv, HistoryKept, Committed
  <2>3. \A i \in DOMAIN applied' : applied'[i].version \in DOMAIN versions'
    BY <1>2, <1>4 DEF HInv, HistoryKept
  <2>4. ASSUME NEW d \in Clients
        PROVE  /\ budget'.neo4j /\ req'[d].pc \in Applying => req'[d].n \in DOMAIN versions'
               /\ req'[d].pc = "completing" => Committed(req[d].n)' /\ req'[d].n = req[d].n
    BY <1>1, <1>2, <1>4 DEF HInv, HistoryKept, Committed, Others, Same, Applying
  <2>5. \A d \in Clients : req'[d].pc = "completing" => \E i \in DOMAIN applied' : applied'[i].version = req'[d].n
    BY <2>4 DEF Committed
  <2>. QED
    BY <2>2, <2>3, <2>4, <2>5 DEF HistoryKept, Committed
<1>6. LastIsLatest'
  <2> SUFFICES ASSUME Sole' PROVE LastIsLatest'
    BY DEF LastIsLatest
  <2>1. Sole /\ c \in Persists
    BY <1>1, SoleStays DEF Persists, Persisting
  <2>2. \A d \in Clients : d # c => req'[d].pc \notin Persisting
    BY <1>1, <2>1 DEF HInv, SInv, Alone, Persists, Others, Same
  <2>3. c \in Persists'
    BY <1>1 DEF Persists, Persisting
  <2>. QED
    BY <1>1, <2>2, <2>3 DEF LastIsLatest, Applying, Persisting
<1>. QED
  BY <1>2, <1>3, <1>5, <1>6 DEF HInv

LEMMA TransactionCommitsHistory ==
    ASSUME HInv, [Next]_vars, SInv', ~(\E d \in Clients : PersistStarts(d)),
           NEW c \in Clients, TransactionCommits(c)
    PROVE  HInv'
<1> DEFINE n == req[c].n
           e == [version |-> n, graph |-> req[c].graph]
<1>1. Going(c, {"committing"}, {"completing"})
  BY OnlyGoes DEF HInv, SInv, RInv
<1>2. applied' = Append(applied, e) /\ UNCHANGED versions /\ budget'.neo4j = budget.neo4j
  BY BudgetStep DEF HInv, SInv, TransactionCommits, Commits
<1>3. e.version = n
  OBVIOUS
<1> HIDE DEF e
<1>4. /\ applied' \in Seq(ToSet(applied')) /\ DOMAIN applied' = 1..Len(applied') /\ Len(applied') \in Nat
      /\ Last(applied') = e /\ \E i \in DOMAIN applied' : applied'[i] = e
      /\ \A i \in DOMAIN applied : i \in DOMAIN applied' /\ applied'[i] = applied[i]
      /\ \A i \in DOMAIN applied' : applied'[i] = e \/ \E j \in DOMAIN applied : applied'[i] = applied[j]
  BY <1>2, Appended DEF HInv
<1>5. /\ budget.neo4j /\ n \in DOMAIN versions /\ req'[c].n = n
      /\ Others(c) /\ req[c].pc = "committing" /\ req'[c].pc = "completing"
  BY <1>1 DEF HInv, SInv, Moded, BudgetKnown, WithNeo, HistoryKept, Applying, Going, Rest
<1>6. HistoryKept'
  <2>1. \A v : Committed(v) => Committed(v)'
    BY <1>4 DEF Committed
  <2>2. \A i \in DOMAIN applied' : applied'[i].version \in DOMAIN versions'
    BY <1>2, <1>3, <1>4, <1>5 DEF HInv, HistoryKept
  <2>3. \A v \in DOMAIN versions' : versions'[v].status = "COMPLETED" => Committed(v)'
    BY <1>2, <2>1 DEF HInv, HistoryKept
  <2>4. ASSUME NEW d \in Clients
        PROVE  /\ budget'.neo4j /\ req'[d].pc \in Applying => req'[d].n \in DOMAIN versions'
               /\ req'[d].pc = "completing" => Committed(req[d].n)' /\ req'[d].n = req[d].n
    <3>1. CASE d = c
      <4>0. \E i \in DOMAIN applied' : applied'[i].version = n
        BY <1>3, <1>4
      <4>1. Committed(req[d].n)'
        BY <1>5, <3>1, <4>0 DEF Committed, n
      <4>. QED
        BY <1>2, <1>5, <3>1, <4>1
    <3>2. CASE d # c
      BY <1>2, <1>5, <2>1, <3>2 DEF HInv, HistoryKept, Others, Same, Applying
    <3>. QED
      BY <3>1, <3>2
  <2>5. \A d \in Clients : req'[d].pc = "completing" => \E i \in DOMAIN applied' : applied'[i].version = req'[d].n
    BY <2>4 DEF Committed
  <2>. QED
    BY <2>2, <2>3, <2>4, <2>5 DEF HistoryKept, Committed
<1>7. LastIsLatest'
  <2> SUFFICES ASSUME Sole' PROVE LastIsLatest'
    BY DEF LastIsLatest
  <2>1. Sole /\ c \in Persists
    BY <1>5, SoleStays DEF Persists, Persisting
  <2>2. \A d \in Clients : d # c => req'[d].pc \notin Persisting
    BY <1>5, <2>1 DEF HInv, SInv, Alone, Persists, Others, Same
  <2>3. c \in Persists' /\ n = Len(versions)
    BY <1>5, <2>1 DEF HInv, LastIsLatest, Applying, Persists, Persisting
  <2>. QED
    BY <1>2, <1>3, <1>4, <1>5, <2>2, <2>3 DEF LastIsLatest, Applying, Persisting
<1>. QED
  BY <1>2, <1>4, <1>5, <1>6, <1>7 DEF HInv

\* A version is completed by the persist that has applied it, or has failed.
LEMMA VersionEndsHistory ==
    ASSUME HInv, [Next]_vars, SInv', ~(\E d \in Clients : PersistStarts(d)),
           NEW c \in Clients, NEW status \in {"COMPLETED", "FAILED"}, UNCHANGED applied,
           Going(c, {"committing", "completing"}, {"answered", "refused"}),
           versions' = [versions EXCEPT ![req[c].n].status = status],
           status = "COMPLETED" => req[c].pc = "completing", status = "FAILED" => ~Sole'
    PROVE  HInv'
<1> DEFINE n == req[c].n
           row == [versions[n] EXCEPT !.status = status]
<1>1. budget'.neo4j = budget.neo4j
  BY BudgetStep DEF HInv, SInv
<1>2. budget.neo4j /\ n \in DOMAIN versions /\ req[c].pc \in Applying
  BY DEF HInv, SInv, Moded, BudgetKnown, WithNeo, HistoryKept, Applying, Going
<1>5. versions' = [versions EXCEPT ![n] = row]
  OBVIOUS
<1> HIDE DEF n, row
<1>3. versions[n] \in [status : {"APPLYING", "COMPLETED", "FAILED"}]
  <2>1. versions \in Seq([status : {"APPLYING", "COMPLETED", "FAILED"}])
    BY DEF HInv, Versions
  <2>. QED
    BY <1>2, <2>1, RowAt
<1>4. row \in [status : {"APPLYING", "COMPLETED", "FAILED"}] /\ row.status = status
  BY <1>3 DEF row
<1>6. /\ versions' \in Versions /\ DOMAIN versions' = DOMAIN versions /\ Len(versions') = Len(versions)
      /\ versions'[n] = row /\ \A v \in DOMAIN versions \ {n} : versions'[v] = versions[v]
  <2>1. versions \in Seq([status : {"APPLYING", "COMPLETED", "FAILED"}])
    BY DEF HInv, Versions
  <2> DEFINE S == [status : {"APPLYING", "COMPLETED", "FAILED"}]
  <2>2. versions \in Seq(S) /\ row \in S /\ n \in DOMAIN versions
    BY <1>2, <1>4, <2>1
  <2> HIDE DEF S
  <2> DEFINE t == [versions EXCEPT ![n] = row]
  <2>3. /\ t \in Seq(S) /\ DOMAIN t = DOMAIN versions /\ Len(t) = Len(versions)
        /\ t[n] = row /\ \A v \in DOMAIN versions \ {n} : t[v] = versions[v]
    BY <2>2, RowReplaced
  <2>4. versions' = t
    BY <1>5
  <2> HIDE DEF t
  <2>. QED
    BY <2>3, <2>4 DEF Versions, S
<1>7. Others(c) /\ req'[c].pc \notin Persisting
  BY DEF Going, Persisting
<1>8. HistoryKept'
  <2>1. \A v \in DOMAIN versions' : versions'[v].status = "COMPLETED" => Committed(v)'
    BY <1>4, <1>6 DEF HInv, HistoryKept, Committed
  <2>2. ASSUME NEW d \in Clients
        PROVE  /\ budget'.neo4j /\ req'[d].pc \in Applying => req'[d].n \in DOMAIN versions'
               /\ req'[d].pc = "completing" => Committed(req[d].n)' /\ req'[d].n = req[d].n
    BY <1>1, <1>6, <1>7 DEF HInv, HistoryKept, Committed, Others, Same, Applying, Persisting
  <2>3. \A d \in Clients : req'[d].pc = "completing" => \E i \in DOMAIN applied' : applied'[i].version = req'[d].n
    BY <2>2 DEF Committed
  <2>. QED
    BY <1>6, <2>1, <2>2, <2>3 DEF HInv, HistoryKept, Committed
<1>9. LastIsLatest'
  <2> SUFFICES ASSUME Sole' PROVE LastIsLatest'
    BY DEF LastIsLatest
  <2>1. Sole /\ c \in Persists /\ status = "COMPLETED" /\ req[c].pc = "completing"
    BY <1>2, SoleStays DEF Persists, Persisting, Applying
  <2>2. \A d \in Clients : req'[d].pc \notin Persisting
    BY <1>7, <2>1 DEF HInv, SInv, Alone, Persists, Others, Same
  <2>3. n = Len(versions) /\ Last(applied).version = n
    BY <1>2, <2>1 DEF HInv, LastIsLatest, n
  <2>4. LatestVersion' = n
    <3>1. /\ versions' \in Seq([status : {"APPLYING", "COMPLETED", "FAILED"}])
          /\ n \in DOMAIN versions' /\ n = Len(versions') /\ versions'[n].status = "COMPLETED"
      BY <1>2, <1>4, <1>6, <2>1, <2>3 DEF Versions
    <3>2. LatestOf(versions') = n
      BY <3>1, LatestIs
    <3>. QED
      BY <3>2 DEF LatestVersion, LatestOf
  <2>. QED
    BY <2>2, <2>3, <2>4 DEF LastIsLatest, Applying, Persisting
<1>. QED
  BY <1>1, <1>6, <1>8, <1>9 DEF HInv

LEMMA StepHistory == ASSUME HInv, [Next]_vars PROVE HInv'
<1>1. SInv'
  BY StepAlone DEF HInv
<1>2. CASE Restart
  <2>1. \A d \in Clients : req'[d].pc = "idle"
    BY <1>2, RestartDoes
  <2>2. UNCHANGED <<versions, applied>> /\ ~Sole' /\ budget'.neo4j = budget.neo4j
    BY <1>2, BudgetStep DEF Restart, neo, Faulty, Sole, HInv, SInv
  <2>. QED
    BY <1>1, <2>1, <2>2 DEF HInv, HistoryKept, LastIsLatest, Committed, Applying
<1>3. ASSUME NEW c \in Clients, PersistStarts(c) PROVE HInv'
  BY <1>1, <1>3, PersistStartsHistory
<1>4. ASSUME ~(\E d \in Clients : PersistStarts(d)), NEW c \in Clients, ApplyFails(c) PROVE HInv'
  <2>1. Going(c, {"committing", "completing"}, {"refused"})
    BY <1>4, OnlyGoes DEF HInv, SInv, RInv
  <2>2. versions' = [versions EXCEPT ![req[c].n].status = "FAILED"] /\ UNCHANGED applied /\ ~Sole'
    BY <1>4 DEF ApplyFails, VersionEnds, Faulty, Sole
  <2>. QED
    BY <1>1, <1>4, <2>1, <2>2, VersionEndsHistory DEF Going
<1>5. ASSUME ~(\E d \in Clients : PersistStarts(d)), NEW c \in Clients, ApplyCompletes(c) PROVE HInv'
  <2>1. Going(c, {"completing"}, {"answered"})
    BY <1>5, OnlyGoes DEF HInv, SInv, RInv
  <2>2. versions' = [versions EXCEPT ![req[c].n].status = "COMPLETED"] /\ UNCHANGED applied
    BY <1>5 DEF ApplyCompletes, VersionEnds
  <2>. QED
    BY <1>1, <1>5, <2>1, <2>2, VersionEndsHistory DEF Going
<1>6. CASE NoPersist
  BY <1>1, <1>6, NoPersistHistory
<1>. QED
  BY <1>1, <1>2, <1>3, <1>4, <1>5, <1>6, LoadsHistory, MemoryHistory, VersionOpensHistory,
     TransactionCommitsHistory DEF NoPersist

LEMMA InitHistory == ASSUME Init PROVE HInv
<1>1. SInv
  BY InitAlone
<1>2. versions = <<>> /\ applied = <<>> /\ \A c \in Clients : req[c].pc = "idle"
  BY DEF Init, GraphInit, Idle
<1>3. HistoryKept /\ LastIsLatest
  BY <1>2 DEF HistoryKept, LastIsLatest, Applying
<1>. QED
  BY <1>1, <1>2, <1>3 DEF HInv, Versions

\* Neo4j holds what its version history says: only recorded versions are applied, a completed one
\* has been, and after persists that met no other one and no fault the latest of them was
\* applied last (EnterpriseGraphService.applySources).
THEOREM HistoryIsTrue == Spec => []HistoryOfGraph
<1>1. Init => HInv
  BY InitHistory
<1>2. HInv /\ [Next]_vars => HInv'
  BY StepHistory
<1>3. HInv => HistoryOfGraph
  BY BusyPersists DEF HInv, SInv, HistoryKept, LastIsLatest, Committed, HistoryOfGraph, Undisturbed, Sole
<1>. QED
  BY <1>1, <1>2, <1>3, PTL DEF Spec

------------------------------------------------------------------------------
(* The memory of the risk engine and its row                               *)

Imported == {w \in pending : w.row = "imported"}

\* Every graph that is under way to the row is the one in memory; the row holds it when none is.
Settled == /\ \A w \in Imported : w.value = risk
           /\ Imported = {} => rows["imported"] = risk

MixedIsNoted == risk.nodes # risk.links => "convert" \in split

NoMemory == budget.neo4j => risk = NoGraph /\ rows["imported"] = NoGraph /\ Imported = {}

Graphed == \A c \in Persists : DOMAIN req[c].graph = {"nodes", "links"}

\* What a persist that is alone has done up to its awaits, and leaves behind it.
MemoryKept ==
    Sole => /\ Persists = {} => Settled /\ MixedIsNoted
            /\ \A c \in Clients :
                   /\ req[c].pc = "linking" => req[c].graph.nodes = chunks \/ "convert" \in split
                   /\ req[c].pc = "flushing" => /\ risk = req[c].graph /\ MixedIsNoted
                                                /\ \A w \in Imported : Key(w) \in req[c].awaits
                   /\ req[c].pc = "refreshing" => Settled /\ MixedIsNoted

MInv == SInv /\ DOMAIN rows = {"import", "imported"} /\ NoMemory /\ Graphed /\ MemoryKept

\* A step that is none of a persist: the rows stay, one is written, or a write has failed.
LEMMA NoPersistWrites ==
    ASSUME [Next]_vars, NoPersist, DOMAIN rows = {"import", "imported"}
    PROVE  /\ Imported' \subseteq Imported
           /\ \/ Imported' = Imported /\ UNCHANGED rows
              \/ split' = split \cup {"fault"} /\ UNCHANGED rows
              \/ Imported' = Imported /\ rows'["imported"] = rows["imported"]
              \/ \E w \in Imported : Imported' = Imported \ {w} /\ rows'["imported"] = w.value
<1> DEFINE Stay == Imported' = Imported /\ UNCHANGED rows
           Wrote == \/ Imported' = Imported /\ rows'["imported"] = rows["imported"]
                    \/ \E w \in Imported : Imported' = Imported \ {w} /\ rows'["imported"] = w.value
<1>1. UNCHANGED <<pending, rows>> => Stay
  BY DEF Imported
<1>2. ASSUME NEW owner, Snapshot(owner), UNCHANGED rows PROVE Stay
  <2> DEFINE w == [owner |-> owner, row |-> "import", value |-> session']
  <2>1. pending' = pending \cup {w} /\ w.row = "import"
    BY <1>2 DEF Snapshot, Save
  <2> HIDE DEF w
  <2>2. Imported' = Imported
    BY <2>1 DEF Imported
  <2>. QED
    BY <1>2, <2>2
<1>3. ASSUME NEW f \in FileSet, ApplyMappings(f) \/ Classify(f) \/ RemoveFile(f) PROVE Stay
  <2>1. (\E owner : Snapshot(owner)) /\ UNCHANGED rows
    BY <1>3 DEF ApplyMappings, Classify, RemoveFile, Change
  <2>. HIDE DEF Stay
  <2>. QED
    BY <1>2, <2>1
<1>4. ASSUME NEW c \in Clients, RequestGoesOn(c) PROVE Stay
  <2>1. ValidateStores(c) \/ Correlate(c) \/ Convert(c) \/ ConversionStored(c)
        => (\E owner : Snapshot(owner)) /\ UNCHANGED rows
    BY DEF ValidateStores, Correlate, Convert, ConversionStored
  <2>2. \/ IssuesDeleted(c) \/ IssuesSaved(c) \/ IssuesFail(c)
        \/ Gather(c) \/ ChunksReplaced(c) \/ ConvertEnds(c)
        => UNCHANGED <<pending, rows>>
    BY DEF IssuesDeleted, IssuesSaved, IssuesFail, Gather, ChunksReplaced, ConvertEnds, storeVars
  <2>. HIDE DEF Stay
  <2>. QED
    BY <1>1, <1>2, <1>4, <2>1, <2>2 DEF RequestGoesOn, NoPersist
<1>5. ASSUME NEW c \in Clients, RequestStarts(c) PROVE Stay
  <2>1. UNCHANGED <<pending, rows>>
    BY <1>5 DEF RequestStarts, NoPersist, ValidateStarts, GatherStarts, storeVars
  <2>. QED
    BY <1>1, <2>1
<1>6. ASSUME NEW w \in pending, WriteLands(w) PROVE Imported' \subseteq Imported /\ Wrote
  <2>1. pending' = pending \ {w}
    BY <1>6 DEF WriteLands, Lands
  <2>2. CASE w.row = "imported"
    <3>1. rows' = [rows EXCEPT ![w.row] = w.value]
      BY <1>6, <2>2 DEF WriteLands, Lands
    <3>2. rows'["imported"] = w.value
      BY <2>2, <3>1
    <3>3. w \in Imported /\ Imported' = Imported \ {w}
      BY <2>1, <2>2 DEF Imported
    <3>. QED
      BY <3>2, <3>3
  <2>3. CASE w.row # "imported"
    <3>1. rows'["imported"] = rows["imported"]
      BY <1>6, <2>3 DEF WriteLands, Lands
    <3>2. Imported' = Imported
      BY <2>1, <2>3 DEF Imported
    <3>. QED
      BY <3>1, <3>2
  <2>. QED
    BY <2>2, <2>3
<1>7. ASSUME NEW w \in pending, WriteFails(w)
      PROVE  Imported' \subseteq Imported /\ split' = split \cup {"fault"} /\ UNCHANGED rows
  BY <1>7 DEF WriteFails, Fails, Faulty, Imported
<1>8. ASSUME NEW f \in FileSet, WorkerStarts(f) PROVE Stay
  BY <1>1, <1>8 DEF WorkerStarts, storeVars
<1>9. ParsedInChunks \/ ParsedInline => Stay
  <2>1. ParsedInChunks \/ ParsedInline => (\E owner : Snapshot(owner)) /\ UNCHANGED rows
    BY DEF ParsedInChunks, ParsedInline
  <2>. HIDE DEF Stay
  <2>. QED
    BY <1>2, <2>1
<1>10. UNCHANGED vars => Stay
  BY <1>1 DEF vars
<1>11. \/ Stay
       \/ Imported' \subseteq Imported /\ Wrote
       \/ Imported' \subseteq Imported /\ split' = split \cup {"fault"} /\ UNCHANGED rows
  <2>. HIDE DEF Stay, Wrote
  <2>. QED
    BY <1>3, <1>4, <1>5, <1>6, <1>7, <1>8, <1>9, <1>10 DEF Next, NoPersist
<1>. QED
  BY <1>11

LEMMA RowsNamed ==
    ASSUME SInv'
    PROVE  DOMAIN rows' = {"import", "imported"}
BY DEF SInv, RInv, IInv, StoresSound

LEMMA NoPersistMemory ==
    ASSUME MInv, [Next]_vars, SInv', NoPersist
    PROVE  MInv'
<1>1. /\ PersistsStay /\ UNCHANGED risk /\ budget'.neo4j = budget.neo4j
      /\ \/ UNCHANGED <<chunks, split>>
         \/ UNCHANGED chunks /\ split' = split \cup {"fault"}
         \/ UNCHANGED pending /\ split' = IF \E d \in Clients : req[d].pc = "linking"
                                          THEN split \cup {"convert"} ELSE split
  BY NoPersistStays, BudgetStep DEF MInv, SInv
<1>2. /\ Imported' \subseteq Imported
      /\ \/ Imported' = Imported /\ UNCHANGED rows
         \/ split' = split \cup {"fault"} /\ UNCHANGED rows
         \/ Imported' = Imported /\ rows'["imported"] = rows["imported"]
         \/ \E w \in Imported : Imported' = Imported \ {w} /\ rows'["imported"] = w.value
  BY NoPersistWrites DEF MInv
<1>3. /\ Persists' = Persists /\ (Sole' => Sole)
      /\ \A d \in Clients : req'[d].pc \in Persisting => Same(req[d], req'[d])
      /\ \A d \in Persists : Same(req[d], req'[d])
  BY <1>1, StayingPersists, SoleStays DEF NoPersist
<1>4. NoMemory'
  BY <1>1, <1>2 DEF MInv, NoMemory
<1>5. Graphed'
  BY <1>3 DEF MInv, Graphed, Same
<1>6. MemoryKept'
  <2> SUFFICES ASSUME Sole' PROVE MemoryKept'
    BY DEF MemoryKept
  <2>1. Sole /\ split \subseteq split' /\ "fault" \notin split'
    BY <1>1, <1>3 DEF Sole
  <2>2. Settled => Settled'
    BY <1>1, <1>2, <2>1 DEF Settled
  <2>3. MixedIsNoted => MixedIsNoted'
    BY <1>1, <2>1 DEF MixedIsNoted
  <2>4. ASSUME NEW d \in Clients, req'[d].pc = "linking"
        PROVE  req'[d].graph.nodes = chunks' \/ "convert" \in split'
    <3>1. Same(req[d], req'[d])
      BY <1>3, <2>4 DEF Persisting
    <3>. QED
      BY <1>1, <2>1, <2>4, <3>1 DEF MInv, MemoryKept, Same
  <2>5. ASSUME NEW d \in Clients, req'[d].pc = "flushing"
        PROVE  risk' = req'[d].graph /\ MixedIsNoted' /\ \A w \in Imported' : Key(w) \in req'[d].awaits
    <3>1. Same(req[d], req'[d])
      BY <1>3, <2>5 DEF Persisting
    <3>. QED
      BY <1>1, <1>2, <2>1, <2>3, <2>5, <3>1 DEF MInv, MemoryKept, Same
  <2>6. ASSUME NEW d \in Clients, req'[d].pc = "refreshing" PROVE Settled' /\ MixedIsNoted'
    <3>1. Same(req[d], req'[d])
      BY <1>3, <2>6 DEF Persisting
    <3>. QED
      BY <2>1, <2>2, <2>3, <2>6, <3>1 DEF MInv, MemoryKept, Same
  <2>7. Persists' = {} => Settled' /\ MixedIsNoted'
    BY <1>3, <2>1, <2>2, <2>3 DEF MInv, MemoryKept
  <2>. QED
    BY <2>4, <2>5, <2>6, <2>7 DEF MemoryKept
<1>. QED
  BY <1>4, <1>5, <1>6, RowsNamed DEF MInv

\* A step of the persist that is alone: what it has to show of itself.
LEMMA PersistMemory ==
    ASSUME MInv, SInv', NoMemory', NEW c \in Clients, Others(c),
           c \in Persists' => DOMAIN req'[c].graph = {"nodes", "links"},
           Sole' => /\ \A d \in Persists' : d = c
                    /\ req'[c].pc \notin Persisting => Settled' /\ MixedIsNoted'
                    /\ req'[c].pc = "linking" => req'[c].graph.nodes = chunks' \/ "convert" \in split'
                    /\ req'[c].pc = "flushing" => /\ risk' = req'[c].graph /\ MixedIsNoted'
                                                  /\ \A w \in Imported' : Key(w) \in req'[c].awaits
                    /\ req'[c].pc = "refreshing" => Settled' /\ MixedIsNoted'
    PROVE  MInv'
<1>1. \A d \in Clients \ {c} : d \in Persists' => d \in Persists /\ req'[d].graph = req[d].graph
  BY DEF Others, Same, Persists
<1>2. Graphed'
  BY <1>1 DEF MInv, Graphed, Persists
<1>3. MemoryKept'
  <2> SUFFICES ASSUME Sole' PROVE MemoryKept'
    BY DEF MemoryKept
  <2>1. \A d \in Clients : req'[d].pc \in Persisting => d = c
    BY DEF Persists
  <2>2. Persists' = {} => Settled' /\ MixedIsNoted'
    BY DEF Persists
  <2>3. \A d \in Clients : req'[d].pc \in {"linking", "flushing", "refreshing"} => d = c
    BY <2>1 DEF Persisting
  <2>. QED
    BY <2>2, <2>3 DEF MemoryKept
<1>. QED
  BY <1>2, <1>3, RowsNamed DEF MInv

LEMMA PersistStartsMemory ==
    ASSUME MInv, [Next]_vars, SInv', NEW c \in Clients, PersistStarts(c)
    PROVE  MInv'
<1>1. /\ Others(c) /\ Free(c) /\ req'[c].graph = NoGraph
      /\ req'[c].pc = IF budget.neo4j THEN "opening" ELSE "loading"
  BY PersistStartsDoes DEF MInv, SInv, RInv
<1>2. UNCHANGED <<pending, rows, risk>> /\ budget'.neo4j = budget.neo4j
  BY BudgetStep DEF MInv, SInv, PersistStarts, graphVars, storeVars
<1>3. split' = IF Persists = {} THEN {} ELSE split \cup {"persist"}
  BY BusyPersists DEF PersistStarts, MInv, SInv
<1>4. NoMemory'
  BY <1>2 DEF MInv, NoMemory, Imported
<1>5. Sole' => \A d \in Persists' : d = c
  BY <1>1, <1>3 DEF Sole, Persists, Others, Same
<1>6. req'[c].pc \in {"opening", "loading"}
  BY <1>1
<1>. QED
  BY <1>1, <1>4, <1>5, <1>6, PersistMemory DEF NoGraph, Persisting

\* The persist that is alone stays so.
LEMMA StaysAlone ==
    ASSUME MInv, [Next]_vars, ~(\E d \in Clients : PersistStarts(d)),
           NEW c \in Clients, Others(c), req[c].pc \in Persisting, Sole'
    PROVE  Sole /\ c \in Persists /\ \A d \in Persists' : d = c
<1>1. Sole /\ c \in Persists
  BY SoleStays DEF Persists
<1>2. \A d \in Clients : d # c => req[d].pc \notin Persisting
  BY <1>1 DEF MInv, SInv, Alone, Persists
<1>. QED
  BY <1>1, <1>2 DEF Others, Same, Persists

LEMMA LoadNodesMemory ==
    ASSUME MInv, [Next]_vars, SInv', ~(\E d \in Clients : PersistStarts(d)),
           NEW c \in Clients, LoadNodes(c)
    PROVE  MInv'
<1> DEFINE g == [req[c].graph EXCEPT !.nodes = chunks]
<1>1. /\ Others(c) /\ req[c].pc = "loading" /\ req'[c].pc = "linking" /\ req'[c].graph = g
  BY LoadNodesDoes DEF MInv, SInv, RInv
<1>2. UNCHANGED <<pending, rows, risk, chunks>> /\ budget'.neo4j = budget.neo4j
  BY BudgetStep DEF MInv, SInv, LoadNodes, graphVars, storeVars
<1>3. c \in Persists
  BY <1>1 DEF Persists, Persisting
<1>4. DOMAIN g = {"nodes", "links"} /\ g.nodes = chunks
  BY <1>3 DEF MInv, Graphed
<1> HIDE DEF g
<1>5. NoMemory'
  BY <1>2 DEF MInv, NoMemory, Imported
<1>6. Sole' => \A d \in Persists' : d = c
  BY <1>1, StaysAlone DEF Persisting
<1>. QED
  BY <1>1, <1>2, <1>4, <1>5, <1>6, PersistMemory DEF Persisting

LEMMA LoadLinksMemory ==
    ASSUME MInv, [Next]_vars, SInv', ~(\E d \in Clients : PersistStarts(d)),
           NEW c \in Clients, LoadLinks(c)
    PROVE  MInv'
<1> DEFINE g == [req[c].graph EXCEPT !.links = chunks]
<1>1. /\ Others(c) /\ req[c].pc = "linking" /\ req'[c].graph = g
      /\ IF budget.neo4j THEN req'[c].pc = "committing" /\ UNCHANGED <<risk, pending>>
         ELSE req'[c].pc = "flushing" /\ SetMemoryGraph(c, g) /\ req'[c].awaits = {Key(w) : w \in pending'}
  BY LoadLinksDoes DEF MInv, SInv, RInv
<1>2. UNCHANGED <<rows, chunks, split>> /\ budget'.neo4j = budget.neo4j
  BY BudgetStep DEF MInv, SInv, LoadLinks, graphVars, storeVars
<1>3. c \in Persists
  BY <1>1 DEF Persists, Persisting
<1>4. DOMAIN g = {"nodes", "links"} /\ g.links = chunks /\ g.nodes = req[c].graph.nodes
  BY <1>3 DEF MInv, Graphed
<1> HIDE DEF g
<1>5. NoMemory'
  BY <1>1, <1>2 DEF MInv, NoMemory, Imported
<1>6. Sole' => Sole /\ \A d \in Persists' : d = c
  BY <1>1, StaysAlone DEF Persisting
<1>7. CASE budget.neo4j
  BY <1>1, <1>4, <1>5, <1>6, <1>7, PersistMemory DEF Persisting
<1>8. CASE ~budget.neo4j
  <2>1. Sole' => risk' = req'[c].graph /\ MixedIsNoted'
    BY <1>1, <1>2, <1>4, <1>6, <1>8 DEF MInv, MemoryKept, MixedIsNoted, SetMemoryGraph
  <2>2. \A w \in Imported' : Key(w) \in req'[c].awaits
    BY <1>1, <1>8 DEF Imported
  <2>. QED
    BY <1>1, <1>4, <1>5, <1>6, <1>8, <2>1, <2>2, PersistMemory DEF Persisting
<1>. QED
  BY <1>7, <1>8

\* The flush has returned: every earlier graph has been written, and the one of the context
\* is the same as that of the risk engine.
LEMMA RiskSavedMemory ==
    ASSUME MInv, [Next]_vars, SInv', ~(\E d \in Clients : PersistStarts(d)),
           NEW c \in Clients, RiskSaved(c)
    PROVE  MInv'
<1>1. Going(c, {"flushing"}, {"refreshing", "refused"})
  BY OnlyGoes DEF MInv, SInv, RInv
<1>2. /\ Others(c) /\ req[c].pc = "flushing" /\ req'[c].graph = req[c].graph
      /\ req'[c].pc \in {"refreshing", "refused"}
  BY <1>1 DEF Going, Rest
<1>3. UNCHANGED <<rows, risk>> /\ budget'.neo4j = budget.neo4j /\ ~budget.neo4j
  BY <1>2, BudgetStep DEF MInv, SInv, Moded, WithoutNeo, RiskSaved
<1>4. NoMemory'
  BY <1>3 DEF NoMemory
<1>5. c \in Persists
  BY <1>2 DEF Persists, Persisting
<1>6. Sole' => Sole /\ \A d \in Persists' : d = c
  BY <1>2, StaysAlone DEF Persisting
<1>7. Flushed(req[c].awaits) /\ IInv /\ c \in DOMAIN req
  BY DEF RiskSaved, Ended, MInv, SInv, RInv, IInv, RequestsSound
<1>8. Sole' => Settled' /\ MixedIsNoted' /\ req'[c].pc = "refreshing"
  <2> SUFFICES ASSUME Sole' PROVE Settled' /\ MixedIsNoted' /\ req'[c].pc = "refreshing"
    OBVIOUS
  <2>1. ~Faulty
    BY DEF Faulty, Sole
  <2>2. SetImportedGraph(c, req[c].graph) /\ Goes(c, "refreshing") /\ UNCHANGED split
    BY <2>1 DEF RiskSaved
  <2>3. req'[c].pc = "refreshing"
    BY <1>7, <2>2, GoesDoes
  <2>4. risk = req[c].graph /\ MixedIsNoted /\ \A w \in Imported : Key(w) \in req[c].awaits
    BY <1>2, <1>6 DEF MInv, MemoryKept
  <2>5. Imported = {}
    BY <1>7, <2>4 DEF Flushed, Imported
  <2>6. PICK w : w.value = req[c].graph /\ w.row = "imported" /\ pending' = pending \cup {w}
    BY <2>2 DEF SetImportedGraph, Save
  <2>7. Imported' = {w}
    BY <2>5, <2>6 DEF Imported
  <2>8. Settled'
    BY <1>3, <2>4, <2>6, <2>7 DEF Settled
  <2>. QED
    BY <1>3, <2>2, <2>3, <2>4, <2>8 DEF MixedIsNoted
<1>9. DOMAIN req'[c].graph = {"nodes", "links"}
  BY <1>2, <1>5 DEF MInv, Graphed
<1>. QED
  BY <1>2, <1>4, <1>6, <1>8, <1>9, PersistMemory DEF Persisting

LEMMA RefreshMemory ==
    ASSUME MInv, [Next]_vars, SInv', ~(\E d \in Clients : PersistStarts(d)),
           NEW c \in Clients, Refresh(c)
    PROVE  MInv'
<1>1. Going(c, {"refreshing"}, {"answered"})
  BY OnlyGoes DEF MInv, SInv, RInv
<1>2. Others(c) /\ req[c].pc = "refreshing" /\ req'[c].pc = "answered"
  BY <1>1 DEF Going
<1>3. UNCHANGED <<pending, rows, risk, split>> /\ budget'.neo4j = budget.neo4j
  BY BudgetStep DEF MInv, SInv, Refresh, storeVars
<1>4. NoMemory' /\ (Settled => Settled') /\ (MixedIsNoted => MixedIsNoted')
  BY <1>3 DEF MInv, NoMemory, Settled, MixedIsNoted, Imported
<1>5. Sole' => Sole /\ \A d \in Persists' : d = c
  BY <1>2, StaysAlone DEF Persisting
<1>6. Sole' => Settled' /\ MixedIsNoted'
  BY <1>2, <1>4, <1>5 DEF MInv, MemoryKept
<1>. QED
  BY <1>2, <1>4, <1>5, <1>6, PersistMemory DEF Persists, Persisting

\* With Neo4j nothing is kept in memory.
LEMMA NeoMemory ==
    ASSUME MInv, [Next]_vars, SInv', ~(\E d \in Clients : PersistStarts(d)), NEW c \in Clients,
           VersionOpens(c) \/ TransactionCommits(c) \/ ApplyFails(c) \/ ApplyCompletes(c)
    PROVE  MInv'
<1>0. IInv
  BY DEF MInv, SInv, RInv
<1>1. /\ Others(c) /\ req[c].pc \in WithNeo /\ req'[c].graph = req[c].graph
      /\ req'[c].pc \in {"loading", "completing", "refused", "answered"}
  <2>1. VersionOpens(c) => Others(c) /\ req[c].pc = "opening" /\ req'[c].pc = "loading"
                           /\ req'[c].graph = req[c].graph
    BY <1>0, VersionOpensDoes
  <2>. QED
    BY <1>0, <2>1, OnlyGoes DEF Going, Rest, WithNeo
<1>2. UNCHANGED <<pending, rows, risk>> /\ budget'.neo4j = budget.neo4j
  BY BudgetStep DEF MInv, SInv, VersionOpens, TransactionCommits, ApplyFails, ApplyCompletes, storeVars,
     memories
<1>3. budget.neo4j
  BY <1>1 DEF MInv, SInv, Moded, BudgetKnown
<1>4. NoMemory'
  BY <1>2 DEF MInv, NoMemory, Imported
<1>5. Settled' /\ MixedIsNoted'
  BY <1>2, <1>3, <1>4 DEF NoMemory, Settled, MixedIsNoted, NoGraph
<1>6. c \in Persists /\ req[c].pc \in Persisting
  BY <1>1 DEF Persists, Persisting, WithNeo
<1>7. DOMAIN req'[c].graph = {"nodes", "links"}
  BY <1>1, <1>6 DEF MInv, Graphed
<1>8. Sole' => \A d \in Persists' : d = c
  BY <1>1, <1>6, StaysAlone
<1>. QED
  BY <1>1, <1>4, <1>5, <1>7, <1>8, PersistMemory

LEMMA StepMemory == ASSUME MInv, [Next]_vars PROVE MInv'
<1>1. SInv'
  BY StepAlone DEF MInv
<1>2. CASE Restart
  <2>1. \A d \in Clients : req'[d].pc = "idle"
    BY <1>2, RestartDoes
  <2>2. /\ UNCHANGED rows /\ risk' = rows["imported"] /\ pending' = {} /\ ~Sole'
        /\ budget'.neo4j = budget.neo4j
    BY <1>2, BudgetStep DEF Restart, Faulty, Sole, MInv, SInv
  <2>3. NoMemory'
    BY <2>2 DEF MInv, NoMemory, Imported
  <2>4. Graphed' /\ MemoryKept'
    BY <2>1, <2>2 DEF Graphed, MemoryKept, Persists, Persisting
  <2>. QED
    BY <1>1, <2>3, <2>4, RowsNamed DEF MInv
<1>3. ASSUME NEW c \in Clients, PersistStarts(c) PROVE MInv'
  BY <1>1, <1>3, PersistStartsMemory
<1>4. CASE NoPersist
  BY <1>1, <1>4, NoPersistMemory
<1>. QED
  BY <1>1, <1>2, <1>3, <1>4, LoadNodesMemory, LoadLinksMemory, RiskSavedMemory, RefreshMemory, NeoMemory
     DEF NoPersist

LEMMA InitMemory == ASSUME Init PROVE MInv
<1>1. SInv
  BY InitAlone
<1>2. /\ pending = {} /\ risk = NoGraph /\ rows = [import |-> session, imported |-> NoGraph]
      /\ \A c \in Clients : req[c].pc = "idle"
  BY DEF Init, GraphInit, Idle
<1>3. NoMemory /\ Settled /\ MixedIsNoted
  BY <1>2 DEF NoMemory, Settled, MixedIsNoted, Imported, NoGraph
<1>4. Graphed /\ MemoryKept
  BY <1>2, <1>3 DEF Graphed, MemoryKept, Persists, Persisting
<1>. QED
  BY <1>1, <1>2, <1>3, <1>4 DEF MInv

\* After persists that met no other one and no fault, once every write has landed, the risk engine
\* holds the graph a restart finds in the row; it is whole unless a conversion replaced the chunks
\* while they were read (RiskGraphSourceService.setMemoryGraph, GraphContextService.setImportedGraph).
THEOREM GraphIsKept == Spec => []PersistedIsKept
<1>1. Init => MInv
  BY InitMemory
<1>2. MInv /\ [Next]_vars => MInv'
  BY StepMemory
<1>3. MInv => PersistedIsKept
  <2>1. MInv => Busy("persist") = Persists
    BY BusyPersists DEF MInv, SInv
  <2>. QED
    BY <2>1 DEF MInv, MemoryKept, PersistedIsKept, Undisturbed, Sole, Settled, MixedIsNoted, Imported
<1>. QED
  BY <1>1, <1>2, <1>3, PTL DEF Spec
===============================================================================
