------------------------- MODULE InternetCollector -------------------------
(***************************************************************************)
(* The process of the internet latency collector                           *)
(* (controlplane/internet-latency-collector/internal/collector/run.go),    *)
(* which runs the RIPE Atlas and the Wheresitup collector side by side.    *)
(* They have a state file each and share the exporter only, whose          *)
(* partitions are kept apart by the data provider; so one collector is     *)
(* followed at a time, and the other stays where it started.               *)
(***************************************************************************)
EXTENDS RipeAtlas, Wheresitup

VARIABLE provider       \* the collector that is followed; never changes

collectorVars == <<vars, wvars, provider>>

\* The first environment of the collector that is not followed will do.
CollectorInit ==
    /\ provider \in {"ripeatlas", "wheresitup"}
    /\ Init /\ WInit
    /\ IF provider = "ripeatlas" THEN wmode = CHOOSE m \in WMode : TRUE
                                 ELSE mode = CHOOSE m \in Mode : TRUE

Ripe(A) == provider = "ripeatlas" /\ A /\ UNCHANGED <<wvars, provider>>
Where(A) == provider = "wheresitup" /\ A /\ UNCHANGED <<vars, provider>>

CollectorNext == Ripe(Next) \/ Where(WNext)

\* The goroutines run on tickers, and a stopped process is started again.
CollectorSpec ==
    /\ CollectorInit /\ [][CollectorNext]_collectorVars
    /\ WF_collectorVars(Ripe(Manage)) /\ WF_collectorVars(Ripe(ExportLoop))
    /\ WF_collectorVars(Ripe(Run))
    /\ WF_collectorVars(Where(Round)) /\ WF_collectorVars(Where(WRun))

----------------------------------------------------------------------------

=============================================================================
