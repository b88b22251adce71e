----------------------------- MODULE Wheresitup -----------------------------
(***************************************************************************)
(* The Wheresitup half of the internet latency collector                   *)
(* (controlplane/internet-latency-collector/internal/wheresitup).  One     *)
(* goroutine creates a ping job for every pair of locations, notes the     *)
(* jobs in a state file, and later exports those that have finished.       *)
(*                                                                         *)
(* Locations are 1 .. wmode.locs, in the order of the ledger and of the    *)
(* alphabet; WNear gives the sources of a location, nearest first.  A unit *)
(* of wnow is one hour.  Every call may fail while wleft.faults lasts.     *)
(* Circuits in the state file only feed metrics and are left out.          *)
(***************************************************************************)
EXTENDS Integers, Sequences, FiniteSets, FiniteSetsExt, Functions

CONSTANTS
    WNear,      \* location -> sources GetNearestSources returns
    WMode       \* environments; one is picked at the start

ASSUME WheresitupAssumption ==
    /\ WMode # {}
    /\ \A m \in WMode : 1 .. m.locs \subseteq DOMAIN WNear

VARIABLES
    wmode,      \* the environment, never changes; its bound wmode.jobs is
                \* on the jobs ever created: beyond it creation fails
    wleft,      \* what is left of the environment's faults
    wnow,       \* the hour
    jobs,       \* jobs at Wheresitup, by id: [src, tgt, state]
    wfile,      \* the state file: job id -> CreatedAt; empty if unreadable
    sent,       \* records the exporter was given: [id, src, tgt]
    loop,       \* the goroutine
    noted       \* history: id -> CreatedAt of the jobs ever in the file
                \* that no failed or interrupted Save has destroyed

wvars == <<wmode, wleft, wnow, jobs, wfile, sent, loop, noted>>

Locations == 1 .. wmode.locs
Nowhere == 0               \* the location "Unknown"
MaxJobAge == 2
LoopIdle == [pc |-> "idle", pairs |-> {}, new |-> {}, by |-> <<>>,
             ids |-> {}, recs |-> {}, done |-> {}]

WCalls(n) == /\ wleft.faults >= n
             /\ wleft' = [wleft EXCEPT !.faults = @ - n]

----------------------------------------------------------------------------
\* The state file.

\* A job that has not reached MaxJobAge.
Young(made) == made > wnow - MaxJobAge

Fresh(entries) == Restrict(entries, {i \in DOMAIN entries : Young(entries[i])})

\* Load and Save of AddJobIDs and RemoveJobIDs.  Load may fail; Save truncates
\* the file before it writes.  All errors are only logged.
Rewrite(entries) ==
    \/ wfile' = Fresh(entries) /\ UNCHANGED wleft
       /\ noted' = [i \in DOMAIN noted \cup DOMAIN entries |->
                       IF i \in DOMAIN entries THEN entries[i] ELSE noted[i]]
    \/ WCalls(1) /\ UNCHANGED <<wfile, noted>>
    \/ WCalls(1) /\ wfile' = <<>>
       /\ noted' = Restrict(noted, DOMAIN noted \ DOMAIN wfile)

----------------------------------------------------------------------------
\* RunJobCreation.

\* GetNearestSourcesForLocations: a location whose call fails has no sources.
Sources(found) == WCalls(Cardinality(Locations \ found))

\* If the ledger cannot be read there are no locations, nothing is created and
\* the export follows; fewer than two locations with sources end the round.
RunJobCreation ==
    /\ loop.pc = "idle"
    /\ \/ WCalls(1) /\ loop' = [loop EXCEPT !.pc = "export"]
       \/ \E found \in SUBSET Locations :
            LET with == {l \in found : WNear[l] # <<>>}
            IN  /\ Sources(found)
                /\ loop' = IF Cardinality(with) < 2 THEN loop
                           ELSE [loop EXCEPT !.pc = "create",
                                   !.pairs = {p \in with \X with : p[1] < p[2]}]
    /\ UNCHANGED <<wmode, wnow, jobs, wfile, sent, noted>>

\* One call of CreateJobWithRequest; a failure, or an answer without an id,
\* passes over the pair.
CreateJob(p) ==
    /\ loop.pc = "create" /\ p \in loop.pairs
    /\ \A q \in loop.pairs : p[1] < q[1] \/ (p[1] = q[1] /\ p[2] <= q[2])
    /\ \/ /\ Len(jobs) < wmode.jobs
          /\ jobs' = Append(jobs, [src |-> p[1], tgt |-> p[2], state |-> "running"])
          /\ loop' = [loop EXCEPT !.pairs = @ \ {p}, !.new = @ \cup {Len(jobs) + 1}]
          /\ UNCHANGED wleft
       \/ /\ IF Len(jobs) < wmode.jobs THEN WCalls(1) ELSE UNCHANGED wleft
          /\ loop' = [loop EXCEPT !.pairs = @ \ {p}]
          /\ UNCHANGED jobs
    /\ UNCHANGED <<wmode, wnow, wfile, sent, noted>>

AddJobIDs ==
    /\ loop.pc = "create" /\ loop.pairs = {}
    /\ IF loop.new = {} THEN UNCHANGED <<wfile, wleft, noted>>
       ELSE Rewrite([i \in DOMAIN wfile \cup loop.new |->
                        IF i \in loop.new THEN wnow ELSE wfile[i]])
    /\ loop' = [loop EXCEPT !.pc = "export", !.new = {}]
    /\ UNCHANGED <<wmode, wnow, jobs, sent>>

----------------------------------------------------------------------------
\* ExportJobResults.

\* buildLocationMapping: a source near several locations is that of the last.
LocationOf(source, found) ==
    Max({Nowhere} \cup {l \in found : source \in Range(WNear[l])})

\* The mapping is built, from no locations if the ledger cannot be read, and
\* the file loaded.
BeginExport ==
    /\ loop.pc = "export"
    /\ \E found \in SUBSET Locations :
         /\ Sources(found) \/ (found = {} /\ WCalls(1))
         /\ loop' = IF wfile = <<>> THEN LoopIdle
                    ELSE [loop EXCEPT !.pc = "get", !.ids = DOMAIN wfile,
                            !.by = [l \in Locations |->
                                IF WNear[l] = <<>> THEN Nowhere
                                ELSE LocationOf(Head(WNear[l]), found)]]
    /\ UNCHANGED <<wmode, wnow, jobs, wfile, sent, noted>>

\* The file cannot be opened: the export is over.
LoadFails ==
    /\ loop.pc = "export" /\ WCalls(1)
    /\ loop' = LoopIdle
    /\ UNCHANGED <<wmode, wnow, jobs, wfile, sent, noted>>

\* One job: an error (also for an expired job), a job in progress, or a latency
\* that cannot be parsed leaves it in the file; one without a result is done;
\* one with a result makes a record.
GetJobResults(i) ==
    LET rest == [loop EXCEPT !.ids = @ \ {i}]
        rec == [id |-> i, src |-> loop.by[jobs[i].src], tgt |-> loop.by[jobs[i].tgt]]
    IN  /\ loop.pc = "get" /\ i \in loop.ids /\ i = Min(loop.ids)
        /\ \/ WCalls(1) /\ loop' = rest
           \/ /\ UNCHANGED wleft
              /\ loop' = CASE jobs[i].state \in {"running", "unreadable"} -> rest
                           [] jobs[i].state = "void" -> [rest EXCEPT !.done = @ \cup {i}]
                           [] jobs[i].state = "result" ->
                                [rest EXCEPT !.done = @ \cup {i}, !.recs = @ \cup {rec}]
        /\ UNCHANGED <<wmode, wnow, jobs, wfile, sent, noted>>


\* WriteRecords takes the records in order and may fail after some of them;
\* then no job is removed.
WriteJobRecords ==
    /\ loop.pc = "get" /\ loop.ids = {}
    /\ \/ /\ sent' = sent \cup loop.recs
          /\ loop' = [loop EXCEPT !.pc = "remove", !.recs = {}]
          /\ UNCHANGED wleft
       \/ /\ WCalls(1)
          /\ \E failed \in loop.recs :
                sent' = sent \cup {r \in loop.recs : r.id < failed.id}
          /\ loop' = LoopIdle
    /\ UNCHANGED <<wmode, wnow, jobs, wfile, noted>>

RemoveJobIDs ==
    /\ loop.pc = "remove"
    /\ IF loop.done = {} THEN UNCHANGED <<wfile, wleft, noted>>
       ELSE Rewrite(Restrict(wfile, DOMAIN wfile \ loop.done))
    /\ loop' = LoopIdle
    /\ UNCHANGED <<wmode, wnow, jobs, sent>>

----------------------------------------------------------------------------
\* The process stops at any point, also inside Save, and is started again.

WSaving == \/ loop.pc = "create" /\ loop.pairs = {} /\ loop.new # {}
           \/ loop.pc = "remove" /\ loop.done # {}

WCrash ==
    /\ wleft.crashes > 0 /\ loop.pc # "down"
    /\ wleft' = [wleft EXCEPT !.crashes = @ - 1]
    /\ loop' = [LoopIdle EXCEPT !.pc = "down"]
    /\ \/ UNCHANGED <<wfile, noted>>
       \/ /\ WSaving /\ wfile' = <<>>
          /\ noted' = Restrict(noted, DOMAIN noted \ DOMAIN wfile)
    /\ UNCHANGED <<wmode, wnow, jobs, sent>>

WRun ==
    /\ loop.pc = "down"
    /\ loop' = LoopIdle
    /\ UNCHANGED <<wmode, wleft, wnow, jobs, wfile, sent, noted>>

----------------------------------------------------------------------------
\* Wheresitup and time.

Finish(i) ==
    /\ jobs[i].state = "running"
    /\ \E s \in {"result", "void", "unreadable"} :
          jobs' = [jobs EXCEPT ![i].state = s]
    /\ UNCHANGED <<wmode, wleft, wnow, wfile, sent, loop, noted>>

WElapse ==
    /\ wnow < wmode.hours
    /\ wnow' = wnow + 1
    /\ UNCHANGED <<wmode, wleft, jobs, wfile, sent, loop, noted>>

----------------------------------------------------------------------------
WInit ==
    /\ wmode \in WMode
    /\ wleft = [faults |-> wmode.faults, crashes |-> wmode.crashes]
    /\ wnow = 1
    /\ jobs = <<>> /\ wfile = <<>> /\ sent = {} /\ noted = <<>>
    /\ loop = LoopIdle

Round == \/ RunJobCreation \/ AddJobIDs \/ BeginExport \/ LoadFails
         \/ WriteJobRecords \/ RemoveJobIDs
         \/ \E p \in loop.pairs : CreateJob(p)
         \/ \E i \in loop.ids : GetJobResults(i)

WNext == Round \/ WCrash \/ WRun \/ WElapse \/ (\E i \in DOMAIN jobs : Finish(i))

----------------------------------------------------------------------------
\* Two locations share a source: the mapping cannot tell them apart.
Shared(l) == \E k \in Locations \ {l} : Head(WNear[l]) \in Range(WNear[k])

Given(i) == \E r \in sent : r.id = i

\* A job that was noted leaves the state file only after the exporter was given
\* its record, because it ended without a result, or because it has reached
\* MaxJobAge, whatever calls fail and wherever the process stops (ExportJobResults
\* removes after WriteRecords; Save drops old jobs).  Only a Save that fails or
\* is cut short loses jobs.
JobsKept ==
    \A i \in DOMAIN noted :
        i \in DOMAIN wfile \/ Given(i) \/ jobs[i].state = "void" \/ ~Young(noted[i])

\* A record carries the locations its job was created for, or "Unknown", as
\* long as no two locations share a source; and "Unknown" only after a call
\* has failed (parseLocationInfoFromJobResults maps the names back through a
\* mapping made anew at export).
RightLocations ==
    \A r \in sent :
        /\ Shared(jobs[r.id].src) \/ r.src \in {Nowhere, jobs[r.id].src}
        /\ Shared(jobs[r.id].tgt) \/ r.tgt \in {Nowhere, jobs[r.id].tgt}
        /\ Nowhere \in {r.src, r.tgt} => wleft.faults < wmode.faults

\* No result waits: every job in the file whose result is ready was exported.
Collected == \A i \in DOMAIN wfile : jobs[i].state = "result" => Given(i)
=============================================================================
