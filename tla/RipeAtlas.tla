----------------------------- MODULE RipeAtlas -----------------------------
(***************************************************************************)
(* The RIPE Atlas half of the internet latency collector                   *)
(* (controlplane/internet-latency-collector/internal/ripeatlas).  Two      *)
(* goroutines share one MeasurementState: the management loop (mgr), which *)
(* keeps one measurement per target location alive at RIPE Atlas, and the  *)
(* export loop (exp), which copies new results to the exporter.            *)
(*                                                                         *)
(* Locations are 1 .. mode.locs in alphabetical order; Near and Fallback   *)
(* give the anchors and the other probes of a location, nearest first.  A  *)
(* unit of `now' is one hour, the staleness limit; hour 0 is "never".      *)
(* Every call may fail while left.faults lasts.  RIPE Atlas itself (api,   *)
(* results) is external; a probe may answer or stay silent.                *)
(***************************************************************************)
EXTENDS Integers, Sequences, FiniteSets, FiniteSetsExt, Functions

CONSTANTS
    Near,       \* location -> probes GetProbesForLocations returns
    Fallback,   \* location -> non-anchor probes of GetProbesInRadius
    MaxId,      \* bound: measurements ever created
    MaxHour,    \* bound: hours
    Mode        \* environments; one is picked at the start

ASSUME AtlasAssumption ==
    /\ MaxId \in Nat \ {0}
    /\ MaxHour \in Nat \ {0}
    /\ Mode # {}
    /\ \A m \in Mode : /\ DOMAIN Near = DOMAIN Fallback
                       /\ 1 .. m.locs \subseteq DOMAIN Near

VARIABLES
    mode,       \* the environment, never changes
    left,       \* what is left of the environment's faults
    now,        \* the hour
    api,        \* measurements at RIPE Atlas, by id: [spec, on]
    results,    \* id -> results available, [time, src, late]
    exported,   \* <<id, result>> handed to the exporter
    meta,       \* MetadataTracker.Metadata
    dead,       \* MetadataTracker.UnresponsiveProbes, expired ones left out
    disk,       \* the state file: [ok, meta, dead]
    mgr,        \* the management goroutine
    exp         \* the export goroutine

vars == <<mode, left, now, api, results, exported, meta, dead, disk,
          mgr, exp>>

Hour == 0 .. MaxHour
Id == 1 .. MaxId
\* A state file Load cannot read leaves the tracker empty.
Corrupt == [ok |-> FALSE, meta |-> <<>>, dead |-> {}]
Probe == UNION {Range(Near[l]) \cup Range(Fallback[l]) : l \in DOMAIN Near}
NoProbe == 0

\* What UpdateTimestamp leaves for a measurement whose metadata is gone.
Bare == [target |-> 0, probe |-> NoProbe, sources |-> <<>>]

\* Measurements are handled in the order they are listed, oldest first if any.
Listed(i, ids) == i \in ids /\ (mode.ordered => i = Min(ids))

Active == {i \in DOMAIN api : api[i].on}
Idle(g) == g.pc = "idle"
MgrIdle == [pc |-> "idle", match |-> <<>>, want |-> {}, list |-> {},
            remove |-> {}, save |-> FALSE, create |-> {}, id |-> 0, got |-> {}]
ExpIdle == [pc |-> "idle", ids |-> {}, id |-> 0, last |-> 0, got |-> {}]

----------------------------------------------------------------------------
\* Calls that may fail, and the state file.

Calls(n) == /\ left.faults >= n
            /\ left' = [left EXCEPT !.faults = @ - n]

\* Save: the file is truncated and written; a failure is only logged.
Save(m, d) ==
    \/ disk' = [ok |-> TRUE, meta |-> m, dead |-> d] /\ left' = left
    \/ disk' \in {disk, Corrupt} /\ Calls(1)

----------------------------------------------------------------------------
\* What is wanted.

Pick(probes, d) ==
    LET up == SelectSeq(probes, LAMBDA p : p \notin d)
    IN  IF up = <<>> THEN NoProbe ELSE Head(up)

\* fetchFallbackProbesForUnresponsiveLocations looks further here.
Dark == {l \in 1 .. mode.locs : Near[l] # <<>> /\ Pick(Near[l], dead) = NoProbe}

\* generateWantedMeasurements: one per target, from the later locations.
Wanted(match, d) ==
    LET Locs == {l \in 1 .. mode.locs : Pick(match[l], d) # NoProbe}
        Spec(l) == [target |-> l, probe |-> Pick(match[l], d),
                    sources |-> [s \in {s \in Locs : s > l} |-> Pick(match[s], d)]]
    IN  {Spec(l) : l \in {l \in Locs : \E s \in Locs : s > l}}

----------------------------------------------------------------------------
\* Staleness: nothing for more than an hour.

Old(t) == t < now - 1

TargetStale(m) == \/ m.last = 0 /\ m.made > 0 /\ Old(m.made)
                  \/ m.last > 0 /\ Old(m.last)

SourceStale(m, s) == /\ m.made > 0 /\ Old(m.made)
                     /\ m.resp[s] > 0 /\ Old(m.resp[s])

\* The target probes to mark, then the sources, given the dead so far.
StaleTargets(ids) == {meta[i].spec.probe : i \in {i \in ids : TargetStale(meta[i])}}
StaleSources(ids, d) ==
    UNION {{meta[i].spec.sources[s] :
                s \in {s \in DOMAIN meta[i].resp : SourceStale(meta[i], s)}} :
           i \in {i \in ids : meta[i].spec.probe \notin d}}

----------------------------------------------------------------------------
\* Export of one measurement: the first half asks for the results from the
\* last timestamp on and notes which sources answered, the second half
\* writes the records and moves the timestamp.

Results(i) == {r \in results[i] : r.time >= meta[i].last}

UpdateSourceProbeResponse(i, got) ==
    [meta EXCEPT ![i].resp = [s \in DOMAIN @ |->
        Max({@[s]} \cup {r.time : r \in {r \in got : r.src = meta[i].spec.sources[s]}})]]

UpdateTimestamp(i, t) ==
    IF i \in DOMAIN meta
    THEN [meta EXCEPT ![i].last = t]
    ELSE [j \in DOMAIN meta \cup {i} |->
            IF j = i THEN [spec |-> Bare, made |-> 0, last |-> t, resp |-> <<>>]
            ELSE meta[j]]

Newest(got) == Max({0} \cup {r.time : r \in got})
Export(i, got) == exported' = exported \cup {<<i, r>> : r \in got}

\* WriteRecords looks up the epoch of each record as it comes to it, and may
\* fail when some are in the buffer already.
ExportFails(i, got) == \E part \in SUBSET got : part # got /\ Export(i, part)

----------------------------------------------------------------------------
\* The export goroutine.

\* ExportMeasurementResults: the active measurements, or an error.
ExportMeasurementResults ==
    /\ Idle(exp)
    /\ \/ /\ Active # {}
          /\ exp' = [exp EXCEPT !.pc = "fetch", !.ids = Active]
          /\ UNCHANGED left
       \/ Calls(1) /\ UNCHANGED exp
    /\ UNCHANGED <<mode, now, api, results, exported, meta, dead, disk, mgr>>

\* exportSingleMeasurementResults up to WriteRecords.
FetchResults(i) ==
    LET rest == [exp EXCEPT !.ids = @ \ {i}]
    IN  /\ exp.pc = "fetch" /\ Listed(i, exp.ids)
        /\ \/ /\ i \in DOMAIN meta => Results(i) = {}
              /\ exp' = rest /\ UNCHANGED <<meta, left>>
           \/ /\ i \in DOMAIN meta
              /\ exp' = rest /\ Calls(1) /\ UNCHANGED meta
           \/ /\ i \in DOMAIN meta /\ Results(i) # {}
              /\ exp' = [rest EXCEPT !.pc = "write", !.id = i,
                                     !.last = meta[i].last, !.got = Results(i)]
              /\ meta' = UpdateSourceProbeResponse(i, Results(i))
              /\ UNCHANGED left
        /\ UNCHANGED <<mode, now, api, results, exported, dead, disk, mgr>>

\* WriteRecords; the timestamp moves only when they were accepted.
WriteRecords ==
    /\ exp.pc = "write"
    /\ \/ /\ Export(exp.id, exp.got)
          /\ meta' = IF Newest(exp.got) > exp.last
                     THEN UpdateTimestamp(exp.id, Newest(exp.got)) ELSE meta
          /\ UNCHANGED left
       \/ Calls(1) /\ ExportFails(exp.id, exp.got) /\ UNCHANGED meta
    /\ exp' = [exp EXCEPT !.pc = "fetch", !.id = 0, !.last = 0, !.got = {}]
    /\ UNCHANGED <<mode, now, api, results, dead, disk, mgr>>

SaveTimestamps ==
    /\ exp.pc = "fetch" /\ exp.ids = {}
    /\ Save(meta, dead)
    /\ exp' = ExpIdle
    /\ UNCHANGED <<mode, now, api, results, exported, meta, dead, mgr>>

----------------------------------------------------------------------------
\* The management goroutine.

\* A round ends; after the first one Run starts the export goroutine.
EndRound == /\ mgr' = MgrIdle
            /\ exp' = IF exp.pc = "off" THEN ExpIdle ELSE exp

\* RunRipeAtlasMeasurementCreation up to the list of measurements.  Without
\* the probes the round is over; without fallback probes a location keeps the
\* ones it has; without a list the round goes on as if there were none.
Survey ==
    /\ Idle(mgr)
    /\ \/ Calls(1) /\ EndRound
       \/ \E found \in SUBSET Dark, list \in {Active, {}} :
            LET match == [l \in 1 .. mode.locs |->
                            IF l \in found /\ Fallback[l] # <<>>
                            THEN Fallback[l] ELSE Near[l]]
            IN  /\ mgr' = [mgr EXCEPT !.pc = "plan", !.match = match,
                             !.want = Wanted(match, dead), !.list = list]
                /\ Calls(Cardinality(Dark \ found) + IF list = Active THEN 0 ELSE 1)
                /\ UNCHANGED exp
    /\ UNCHANGED <<mode, now, api, results, exported, meta, dead, disk>>

\* existingByTarget: of several measurements of a target the last listed one.
Existing == {f \in [{api[i].spec.target : i \in mgr.list} -> mgr.list] :
                \A t \in DOMAIN f :
                    LET same == {i \in mgr.list : api[i].spec.target = t}
                    IN  f[t] \in same /\ (mode.ordered => f[t] = Max(same))}

\* configureMeasurements up to the first removal: mark stale probes, save and
\* choose again if any were, then compare what exists with what is wanted.
Diff(want, by) ==
    LET Targets == {w.target : w \in want}
        Known(w) == w.target \in DOMAIN by /\ by[w.target] \in DOMAIN meta
        Match(w) == Known(w) /\ meta[by[w.target]].spec = w
        Redo == {w.target : w \in {w \in want : Known(w) /\ ~Match(w)}}
    IN  mgr' = [mgr EXCEPT !.pc = "remove",
            !.create = {w \in want : ~Match(w)},
            !.remove = {i \in mgr.list :
                            \/ i \notin DOMAIN meta
                            \/ api[i].spec.target \notin Targets
                            \/ api[i].spec.target \in Redo}]

\* Mutant: only measurements that never exported count as stale.
PlanNeverExported ==
    LET known == mgr.list \cap DOMAIN meta
        targets == {meta[i].spec.probe : i \in {i \in known : meta[i].last = 0 /\ TargetStale(meta[i])}}
        sources == StaleSources(known, dead \cup targets) \ (dead \cup targets)
        newDead == dead \cup targets \cup sources
    IN  /\ mgr.pc = "plan"
        /\ dead' = newDead
        /\ IF targets \cup sources = {} THEN UNCHANGED <<disk, left>> ELSE Save(meta, newDead)
        /\ \E by \in Existing :
             Diff(IF targets \cup sources = {} THEN mgr.want ELSE Wanted(mgr.match, newDead), by)
        /\ UNCHANGED <<mode, now, api, results, exported, meta, exp>>

Plan ==
    LET known == mgr.list \cap DOMAIN meta
        targets == StaleTargets(known)
        sources == StaleSources(known, dead \cup targets) \ (dead \cup targets)
        newDead == dead \cup targets \cup sources
    IN  /\ mgr.pc = "plan"
        /\ dead' = newDead
        /\ IF targets \cup sources = {} THEN UNCHANGED <<disk, left>> ELSE Save(meta, newDead)
        /\ \E by \in Existing :
             Diff(IF targets \cup sources = {} THEN mgr.want ELSE Wanted(mgr.match, newDead), by)
        /\ UNCHANGED <<mode, now, api, results, exported, meta, exp>>

\* Export before removal, first half; a failure does not stop the removal.
FetchBeforeRemoval(i) ==
    /\ mgr.pc = "remove" /\ Listed(i, mgr.remove)
    /\ \/ /\ i \in DOMAIN meta
          /\ mgr' = [mgr EXCEPT !.pc = "stop", !.id = i, !.got = Results(i)]
          /\ meta' = UpdateSourceProbeResponse(i, Results(i))
          /\ UNCHANGED left
       \/ /\ IF i \in DOMAIN meta THEN Calls(1) ELSE UNCHANGED left
          /\ mgr' = [mgr EXCEPT !.pc = "stop", !.id = i]
          /\ UNCHANGED meta
    /\ UNCHANGED <<mode, now, api, results, exported, dead, disk, exp>>

\* WriteRecords, StopMeasurement and RemoveMetadata: the metadata goes even
\* if RIPE Atlas did not stop the measurement.
StopMeasurement ==
    /\ mgr.pc = "stop"
    /\ \E written, stopped \in BOOLEAN :
         /\ IF written THEN Export(mgr.id, mgr.got) ELSE ExportFails(mgr.id, mgr.got)
         /\ api' = IF stopped THEN [api EXCEPT ![mgr.id].on = FALSE] ELSE api
         /\ Calls(Cardinality({b \in {1} : ~written}) + Cardinality({b \in {1} : ~stopped}))
    /\ meta' = Restrict(meta, DOMAIN meta \ {mgr.id})
    /\ mgr' = [mgr EXCEPT !.pc = "remove", !.remove = @ \ {mgr.id},
                          !.save = TRUE, !.id = 0, !.got = {}]
    /\ UNCHANGED <<mode, now, results, dead, disk, exp>>


\* The state is saved after removals, then metadata of measurements that were
\* not listed is dropped and the state saved again.
CleanUp ==
    LET kept == Restrict(meta, DOMAIN meta \cap mgr.list)
    IN  /\ mgr.pc = "remove" /\ mgr.remove = {}
        /\ meta' = kept
        /\ IF mgr.save \/ kept # meta THEN Save(kept, dead) ELSE UNCHANGED <<disk, left>>
        /\ mgr' = [mgr EXCEPT !.pc = "create"]
        /\ UNCHANGED <<mode, now, api, results, exported, dead, exp>>

\* CreateMeasurement, or its failure, which is only logged.
CreateMeasurement(w) ==
    /\ mgr.pc = "create" /\ w \in mgr.create
    /\ \A v \in mgr.create : w.target <= v.target
    /\ \/ LET i == Cardinality(DOMAIN api) + 1
          IN  /\ i <= MaxId
              /\ api' = [j \in 1 .. i |-> IF j = i THEN [spec |-> w, on |-> TRUE] ELSE api[j]]
              /\ mgr' = [mgr EXCEPT !.pc = "book", !.create = @ \ {w}, !.id = i]
              /\ UNCHANGED left
       \/ /\ Calls(1)
          /\ mgr' = [mgr EXCEPT !.create = @ \ {w}]
          /\ UNCHANGED api
    /\ UNCHANGED <<mode, now, results, exported, meta, dead, disk, exp>>

SetMetadata ==
    LET m == [j \in DOMAIN meta \cup {mgr.id} |->
                IF j = mgr.id
                THEN [spec |-> api[j].spec, made |-> now, last |-> 0,
                      resp |-> [s \in DOMAIN api[j].spec.sources |-> 0]]
                ELSE meta[j]]
    IN  /\ mgr.pc = "book"
        /\ meta' = m
        /\ Save(m, dead)
        /\ mgr' = [mgr EXCEPT !.pc = "create", !.id = 0]
        /\ UNCHANGED <<mode, now, api, results, exported, dead, exp>>

Created ==
    /\ mgr.pc = "create" /\ mgr.create = {}
    /\ EndRound
    /\ UNCHANGED <<mode, left, now, api, results, exported, meta, dead, disk>>

----------------------------------------------------------------------------
\* The process stops, at any point; a crash inside Save leaves half a file.
\* Run starts again from what Load can read.

Saving == mgr.pc \in {"plan", "remove", "book"} \/ exp.pc = "fetch"

Crash ==
    /\ left.crashes > 0 /\ mgr.pc # "down"
    /\ left' = [left EXCEPT !.crashes = @ - 1]
    /\ disk' \in {disk} \cup {Corrupt : b \in {b \in {1} : Saving}}
    /\ mgr' = [MgrIdle EXCEPT !.pc = "down"]
    /\ exp' = [ExpIdle EXCEPT !.pc = "off"]
    /\ meta' = <<>> /\ dead' = {}
    /\ UNCHANGED <<mode, now, api, results, exported>>

Run ==
    /\ mgr.pc = "down"
    /\ mgr' = MgrIdle
    /\ meta' = disk.meta /\ dead' = disk.dead
    /\ UNCHANGED <<mode, left, now, api, results, exported, disk, exp>>

----------------------------------------------------------------------------
\* RIPE Atlas and time.  In a calm environment they move between rounds only.

Calm == mode.calm => Idle(mgr) /\ Idle(exp)

\* An active measurement gets a result of this hour or, late, of the last.
Answer(i) ==
    /\ i \in Active /\ left.answers > 0 /\ Calm
    /\ left' = [left EXCEPT !.answers = @ - 1]
    /\ \E s \in DOMAIN api[i].spec.sources, late \in {FALSE, mode.late} :
         LET t == IF late THEN now - 1 ELSE now
             r == [time |-> t, src |-> api[i].spec.sources[s], late |-> late]
         IN  /\ t > 0 /\ r \notin results[i]
             /\ results' = [results EXCEPT ![i] = @ \cup {r}]
    /\ UNCHANGED <<mode, now, api, exported, meta, dead, disk, mgr, exp>>

Elapse ==
    /\ now < mode.hours /\ Calm
    /\ now' = now + 1
    /\ UNCHANGED <<mode, left, api, results, exported, meta, dead, disk, mgr, exp>>

\* UnresponsiveProbeExpiry passes: the mark on a probe no longer counts.
Expire(p) ==
    /\ left.expiries > 0 /\ p \in dead
    /\ left' = [left EXCEPT !.expiries = @ - 1]
    /\ dead' = dead \ {p}
    /\ disk' = [disk EXCEPT !.dead = @ \ {p}]
    /\ UNCHANGED <<mode, now, api, results, exported, meta, mgr, exp>>

----------------------------------------------------------------------------
Init ==
    /\ mode \in Mode
    /\ left = [faults |-> mode.faults, crashes |-> mode.crashes,
               answers |-> mode.answers, expiries |-> mode.expiries]
    /\ now = 1
    /\ api = <<>>
    /\ results = [i \in Id |-> {}]
    /\ exported = {}
    /\ meta = <<>> /\ dead = {}
    /\ disk = [ok |-> TRUE, meta |-> <<>>, dead |-> {}]
    /\ mgr = MgrIdle
    /\ exp = [ExpIdle EXCEPT !.pc = "off"]

Manage == \/ Survey \/ Plan \/ StopMeasurement \/ CleanUp \/ SetMetadata \/ Created
          \/ \E i \in mgr.remove : FetchBeforeRemoval(i)
          \/ \E w \in mgr.create : CreateMeasurement(w)

ExportLoop == \/ ExportMeasurementResults \/ WriteRecords \/ SaveTimestamps
              \/ \E i \in exp.ids : FetchResults(i)

Next == \/ Manage \/ ExportLoop \/ Crash \/ Run \/ Elapse
        \/ \E i \in DOMAIN api : Answer(i)
        \/ \E p \in dead : Expire(p)

\* Both goroutines run on tickers; a stopped process is started again.
Spec == Init /\ [][Next]_vars /\ WF_vars(Manage) /\ WF_vars(ExportLoop) /\ WF_vars(Run)

----------------------------------------------------------------------------
MetaOK(m) ==
    /\ DOMAIN m \subseteq DOMAIN api
    /\ \A i \in DOMAIN m : /\ m[i].spec \in {Bare, api[i].spec}
                           /\ DOMAIN m[i].resp = DOMAIN m[i].spec.sources
                           /\ m[i].made \in Hour /\ m[i].last \in Hour

\* The state is well formed: metadata, in memory and on disk, is about
\* measurements that exist and records a response time for every source, and
\* the goroutines work on measurements they were listed.
TypeOK ==
    /\ mode \in Mode /\ now \in 1 .. MaxHour
    /\ DOMAIN api \subseteq Id
    /\ dead \subseteq Probe \cup {NoProbe}
    /\ MetaOK(meta)
    /\ MetaOK(disk.meta)
    /\ mgr.remove \subseteq mgr.list /\ mgr.list \subseteq DOMAIN api
    /\ exp.ids \subseteq DOMAIN api
    /\ \A e \in exported : e[2] \in results[e[1]]

\* The state is well formed, and no result is passed over: a result that was
\* there within its hour and is older than the last export timestamp of its
\* measurement has been handed to the exporter, whatever failed, crashed or was
\* exported twice (exportSingleMeasurementResults asks from that timestamp on).
\* A result that arrives late may be.
NothingPassedOver ==
    TypeOK /\ \A i \in DOMAIN meta, r \in UNION {results[j] : j \in Id} :
        (r \in results[i] /\ ~r.late /\ r.time < meta[i].last) => <<i, r>> \in exported

Unknown == \E i \in Active \cap DOMAIN meta : meta[i].spec = Bare

\* What the management loop aims at: one running measurement per wanted
\* target, each with its metadata, and no other metadata.
Settled ==
    LET match == [l \in 1 .. mode.locs |->
                    IF l \in Dark /\ Fallback[l] # <<>> THEN Fallback[l] ELSE Near[l]]
    IN  /\ {api[i].spec : i \in Active} = Wanted(match, dead)
        /\ \A i, j \in Active : api[i].spec.target = api[j].spec.target => i = j
        /\ DOMAIN meta = Active
        /\ \A i \in Active : meta[i].spec = api[i].spec

Stale(i) == /\ i \in Active \cap DOMAIN meta /\ meta[i].spec # Bare
            /\ \/ TargetStale(meta[i])
               \/ \E s \in DOMAIN meta[i].resp : SourceStale(meta[i], s)

\* A running measurement whose target, or one of whose sources, has not
\* answered for an hour does not stay that way: it answers again or the probe
\* is marked and the measurement replaced.
StaleReplaced == \A i \in Id : []<>(mode.ordered => ~Stale(i) \/ Unknown)
=============================================================================
