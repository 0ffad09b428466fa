----------------------------- MODULE MCServices -----------------------------
(***************************************************************************)
(* The services beside the pipeline, on small instances.  A behaviour runs *)
(* the one named by part; the others stay where they start.                *)
(***************************************************************************)
EXTENDS AlertDispatcher, Integers, TLC

\* two notifiers, of which one supports every alert
MCsupports == {<<1, 1>>, <<1, 2>>, <<2, 1>>}
MCDelays == <<1, 2, 3, 4>>

VARIABLES part,
  disk, rotations, w, pc, fd, listed, n, out, walk, visits,          \* LogScan
  records, ring                                                      \* its second part

\* times of the lines; 0: the time of the line before, not shown
Live == {<<5>>, <<4, 5>>, <<4, 2, 5>>, <<5, 0>>, <<4, 2, 4, 2, 5>>}
Old1 == {<<4>>, <<3, 0>>, <<2, 3>>, <<3, 3>>, <<3, 1, 4>>, <<1, 2>>}
Old2 == {<<>>, <<1>>, <<1, 2, 2>>, <<1, 0, 3>>, <<3, 3>>}
Shown(ts) == {ts[i] : i \in DOMAIN ts} \ {0}
After(a, b) == b = <<>> \/ \A t \in Shown(b) : t <= a[1]

Stamped(ts, base) ==
  [i \in DOMAIN ts |-> [id |-> base + i, own |-> ts[i] # 0, size |-> 2,
                        time |-> IF ts[i] # 0 THEN ts[i] ELSE ts[i - 1]]]

Logs == {IF x[3] = <<>> THEN <<Stamped(x[1], 20), Stamped(x[2], 10)>>
         ELSE <<Stamped(x[1], 20), Stamped(x[2], 10), Stamped(x[3], 0)>> :
         x \in {y \in Live \X Old1 \X Old2 : After(y[1], y[2]) /\ After(y[2], y[3])}}

Rec(k, v, t, h) == [key |-> k, val |-> v, ts |-> t, hit |-> h]
MCRecords ==
  {Rec(1, 1, 1, TRUE), Rec(1, 2, 2, TRUE), Rec(1, 1, 2, TRUE), Rec(2, 1, 1, TRUE),
   Rec(2, 2, 0, TRUE), Rec(0, 1, 1, TRUE), Rec(1, 1, 0, FALSE), Rec(2, 1, 2, FALSE)}

LS == INSTANCE LogScan
        WITH Gz <- {2, 3}, Window <- {<<3, 4>>, <<2, 9>>}, Budgets <- {5, 9, 40},
             CHUNK <- 3, OLDER_STREAK_STOP <- 2, GZ_SKIP_FACTOR <- 1, Limit <- 3,
             MaxRotations <- 1,
             Record <- MCRecords, MaxRecords <- 4, MAX_GROUPS <- 1, DISTINCT_CAP <- 1,
             GLOBAL_DISTINCT_BUDGET <- 2, Top <- 1, JOURNAL_FETCH_CAP <- 3,
             JournalLimit <- 1, THREAT_BUFFER_SIZE <- 2

ls_vars == <<disk, rotations, w, pc, fd, listed, n, out, walk, visits>>
MCInit ==
  /\ part \in {"alerts", "scan", "views"}
  /\ Init
  /\ LS!Init /\ LS!ViewInit
  /\ part # "scan" => disk = (CHOOSE d \in Logs : TRUE) /\ w.since = 3 /\ w.budget = 5

MCNext ==
  /\ UNCHANGED part
  /\ IF part = "alerts" THEN Next ELSE UNCHANGED vars
  /\ IF part = "scan" THEN LS!Next ELSE UNCHANGED ls_vars
  /\ IF part = "views" THEN LS!ViewNext ELSE UNCHANGED <<records, ring>>

\* the fairness of AlertDispatcher
Fairness ==
  /\ WF_vars(part = "alerts" /\ Dispatch)
  /\ WF_vars(part = "alerts" /\ Tick)

MCSpec == MCInit /\ [][MCNext]_<<part, vars, ls_vars, records, ring>> /\ Fairness

-----------------------------------------------------------------------------
\* The conjuncts are stated and explained in LogScan.

(* log scan: within its budget, it has read all it claims to cover, and a   *)
(* query returns the newest matches in order.                               *)
ScanHonest ==
  LS!BudgetRespected /\ LS!CoverageHonest /\ LS!NewestInOrder /\ LS!CoveredBucketsExact

(* agent_logs.rs, agent_api.rs, ui_api.rs: answers under caps are never     *)
(* wrong: what is left out is said to be, and pages and the ring are whole. *)
AnswersHonest ==
  part = "views" => LS!StatsExact /\ LS!JournalHonest /\ LS!PagesComplete /\ LS!RingNewest
=============================================================================
