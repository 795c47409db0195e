------------------------------ MODULE MCEvents ------------------------------
(* Jobs that must get there, one part at a time: deliveries of webhooks, and *)
(* syncs of a connection through the GitHub App.  A behaviour is of the part *)
(* its first state picks; the other stays as it begins.                      *)
EXTENDS Webhooks

CONSTANTS Apps, Flows, Events, MaxPush, MaxFaults, MaxAudit

VARIABLES
  part,
  flow, made, installed, head, events, asked, app, audit, conn, syncJob, faults

H == INSTANCE GitHubApp WITH job <- syncJob

hVars == <<flow, made, installed, head, events, asked, app, audit, conn, syncJob, faults>>
all   == <<part, vars, hVars>>

MCInit == part \in {"webhooks", "app"} /\ Init /\ H!Init

InWebhooks(A) == part = "webhooks" /\ A /\ UNCHANGED <<part, hVars>>
InApp(A)      == part = "app"      /\ A /\ UNCHANGED <<part, vars>>

MCNext == InWebhooks(Next) \/ InApp(H!Next)

(* River works its jobs, and the minutely tick comes.                        *)
MCFairness ==
  /\ \A j \in Jobs : WF_all(InWebhooks(Work(j)))
  /\ WF_all(InApp(H!Tick)) /\ \A f \in BOOLEAN : WF_all(InApp(H!Sync(f)))

MCSpec == MCInit /\ [][MCNext]_all /\ MCFairness

-----------------------------------------------------------------------------
(* A delivery whose job River works reaches an end, whoever answers what,    *)
(* and a branch that stops moving is synced to its head whatever webhooks    *)
(* were lost and jobs failed (webhooks/worker.go, gitsync/jobs.go).          *)
WorkGetsThere == DeliveriesSettle /\ H!ReachesTheHead
=============================================================================
