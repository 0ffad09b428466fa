------------------------- MODULE EnforcementProofs -------------------------
(***************************************************************************)
(* No interleaving of the tasks that change the ban store and the firewall *)
(* loses a ban or leaves a network blocked without a recorded cause, for   *)
(* every set of networks, every whitelist and any number of requests and   *)
(* failures.                                                               *)
(*                                                                         *)
(* The inductive invariant says which lock a task holds where (Locked),    *)
(* what its plan has to do with the store and the enforcer's cache while   *)
(* it holds it (Planned), and that cache, store and kernel agree up to the *)
(* recorded exceptions (Told, Caused, Cached).  Planned is the heart: the  *)
(* set a full sync is about to write is still right when nft runs because  *)
(* the state lock was kept since it was computed, and the set an apply or  *)
(* a removal writes is the cache as it is, because the enforcer lock was.  *)
(***************************************************************************)
EXTENDS Enforcement, NetProofs, TLAPS

\* First-order reasoning is left to Zenon; a leaf on numbers, sequences or records cites SMT.
USE Zenon

JobSet ==
  [at : {"idle", "checked", "batch", "wait", "exec"},
   op : {"none", "apply", "remove", "sync", "batch"},
   net : Nets, want : SUBSET Nets, rest : SUBSET Nets]

Typed ==
  /\ ban \in [Nets -> {"none", "live", "expired"}]
  /\ desired_bans \subseteq Nets /\ kernel \subseteq Nets
  /\ job \in [Tasks -> JobSet]

\* Where each task may be, and the locks it holds there.
Locked ==
  /\ ~up => job = [t \in Tasks |-> Idle]
  /\ \A t \in Tasks :
       /\ job[t].at = "checked" => t = "pipeline"
       /\ job[t].at = "batch" => t \in {"admin", "cluster"}
       /\ job[t].at # "idle" /\ t # "pipeline" => state_lock = t
       /\ job[t].at = "exec" \/ (job[t].at = "batch" /\ t = "cluster") => enf_lock = t

\* What a task that waits for the enforcer, or runs nft, is about to write.
PlannedFor(t) ==
  job[t].at \in {"wait", "exec"} =>
    /\ job[t].op # "none"
    /\ t = "pipeline" => job[t].op = "apply"
    /\ job[t].op = "batch" => t = "cluster"
    /\ job[t].op = "remove" => ban[job[t].net] = "none"
    /\ job[t].op = "sync" => /\ Desired(ban, whitelist) \subseteq job[t].want
                             /\ \A n \in job[t].want : ban[n] # "none"
    /\ job[t].at = "exec" =>
         \/ job[t].op = "apply" /\ job[t].want = desired_bans \cup {job[t].net}
         \/ job[t].op = "remove" /\ job[t].want = desired_bans \ {job[t].net}
         \/ job[t].op = "sync"
Planned == \A t \in Tasks : PlannedFor(t)

\* Every live ban was told to the enforcer, is on its way, or its loss recorded.
Told ==
  up => \A n \in Live(ban) : n \in desired_bans \cup owed \/ \E t \in Tasks : Carries(t, n)

\* Every network the enforcer holds has a ban, is on its way out, or is recorded.
Caused ==
  up => \A n \in desired_bans : ban[n] # "none" \/ n \in stray \/ \E t \in Tasks : Drops(t, n)

\* The enforcer's cache and the kernel block the same addresses.
Cached == up => unsure \/ Blocked(kernel) = Blocked(desired_bans)

IInv == Typed /\ Locked /\ Planned /\ Told /\ Caused /\ Cached

-----------------------------------------------------------------------------
(* Jobs.                                                                   *)

LEMMA AnyNetIsNet == AnyNet \in Nets
BY NetsAssumption DEF AnyNet

LEMMA JobTypes ==
  /\ Idle \in JobSet /\ Idle.at = "idle"
  /\ \A n \in Nets, R \in SUBSET Nets :
       /\ Applying(n, R) \in JobSet
       /\ Applying(n, R).at = "wait" /\ Applying(n, R).op = "apply" /\ Applying(n, R).net = n
  /\ \A n \in Nets :
       /\ Removing(n) \in JobSet
       /\ Removing(n).at = "wait" /\ Removing(n).op = "remove" /\ Removing(n).net = n
  /\ \A S \in SUBSET Nets :
       /\ Syncing(S) \in JobSet
       /\ Syncing(S).at = "wait" /\ Syncing(S).op = "sync" /\ Syncing(S).want = S
BY AnyNetIsNet DEF JobSet, Idle, Applying, Removing, Syncing, Job

LEMMA DedupInNets ==
  ASSUME NEW S \in SUBSET Nets
  PROVE  dedup_overlapping(S) \subseteq Nets /\ Blocked(dedup_overlapping(S)) = Blocked(S)
<1>1. S \subseteq Net /\ {trunc(m) : m \in S} \subseteq Nets
  BY NetsAssumption
<1> QED
  BY <1>1, DedupPushed, DedupBlocksSame

\* Goto moves one task and no other.
LEMMA GotoOne ==
  ASSUME Typed, NEW t \in Tasks, NEW j \in JobSet, Goto(t, j)
  PROVE  /\ job' \in [Tasks -> JobSet] /\ job'[t] = j
         /\ \A u \in Tasks \ {t} : job'[u] = job[u]
BY DEF Typed, Goto

LEMMA DesiredTyped == \A b, wl : Desired(b, wl) \in SUBSET Nets
BY DEF Desired, Live

LEMMA InitIInv == Init => IInv
<1> SUFFICES ASSUME Init PROVE IInv
  OBVIOUS
<1>1. Typed
  BY JobTypes DEF Init, Typed
<1>2. Locked
  BY JobTypes DEF Init, Locked
<1>3. Planned
  BY JobTypes DEF Init, Planned, PlannedFor
<1>4. Told /\ Caused /\ Cached
  BY DEF Init, Told, Caused, Cached
<1> QED
  BY <1>1, <1>2, <1>3, <1>4 DEF IInv

-----------------------------------------------------------------------------
(* A step that only moves one task, which is not on its way to the         *)
(* enforcer, and leaves store and firewall alone.                          *)

LEMMA QuietStep ==
  ASSUME IInv, NEW t \in Tasks, NEW j \in JobSet, Goto(t, j), up, up',
         UNCHANGED <<store, firewall, history>>,
         job[t].at \notin {"wait", "exec"}, j.at # "exec",
         j.at = "wait" => j.op = "batch" /\ t = "cluster"
  PROVE  Typed' /\ Planned' /\ Told' /\ Caused' /\ Cached'
<1>1. /\ job' \in [Tasks -> JobSet] /\ job'[t] = j
      /\ \A u \in Tasks \ {t} : job'[u] = job[u]
  BY GotoOne DEF IInv
<1>2. Typed'
  BY <1>1 DEF IInv, Typed, store, firewall
<1>3. Planned'
  BY <1>1, SMT DEF IInv, Planned, PlannedFor, store, firewall, Desired, Live
<1>4. Told'
  BY <1>1, SMT DEF IInv, Told, store, firewall, history, Carries, Live
<1>5. Caused'
  BY <1>1, SMT DEF IInv, Caused, store, firewall, history, Drops
<1>6. Cached'
  BY DEF IInv, Cached, firewall, history
<1> QED
  BY <1>2, <1>3, <1>4, <1>5, <1>6

LEMMA PipelineCheck ==
  ASSUME IInv, NEW n \in Nets, pipeline_check(n)
  PROVE  IInv'
<1> DEFINE j == Job("checked", "apply", n, {}, {})
<1>1. j \in JobSet /\ j.at = "checked" /\ "pipeline" \in Tasks
  BY DEF JobSet, Job, Tasks
<1>2. Goto("pipeline", j) /\ up /\ up' /\ UNCHANGED <<store, firewall, history, locks>>
      /\ job["pipeline"].at = "idle"
  BY DEF pipeline_check, Ready
<1> HIDE DEF j
<1>3. Typed' /\ Planned' /\ Told' /\ Caused' /\ Cached'
  BY <1>1, <1>2, QuietStep
<1>4. Locked'
  BY <1>1, <1>2, GotoOne, SMT DEF IInv, Locked, locks
<1> QED
  BY <1>3, <1>4 DEF IInv

LEMMA AdmitSkipped ==
  ASSUME IInv, admit_skipped
  PROVE  IInv'
<1>1. "pipeline" \in Tasks /\ up
  BY JobTypes, SMT DEF Tasks, admit_skipped, IInv, Locked
<1>2. Goto("pipeline", Idle) /\ up' /\ UNCHANGED <<store, firewall, history, locks>>
      /\ job["pipeline"].at = "checked"
  BY <1>1 DEF admit_skipped
<1>3. Typed' /\ Planned' /\ Told' /\ Caused' /\ Cached'
  BY <1>1, <1>2, QuietStep, JobTypes
<1>4. Locked'
  BY <1>1, <1>2, GotoOne, JobTypes, SMT DEF IInv, Locked, locks
<1> QED
  BY <1>3, <1>4 DEF IInv

LEMMA BanBegins ==
  ASSUME IInv, NEW list \in SUBSET Nets, Ban(list)
  PROVE  IInv'
<1> DEFINE j == Job("batch", "apply", AnyNet, {}, list)
<1>1. j \in JobSet /\ j.at = "batch" /\ "admin" \in Tasks
  BY AnyNetIsNet DEF JobSet, Job, Tasks
<1>2. Goto("admin", j) /\ up /\ up' /\ UNCHANGED <<store, firewall, history, enf_lock>>
      /\ job["admin"].at = "idle" /\ state_lock = "free" /\ state_lock' = "admin"
  BY DEF Ban, Ready
<1> HIDE DEF j
<1>3. Typed' /\ Planned' /\ Told' /\ Caused' /\ Cached'
  BY <1>1, <1>2, QuietStep
<1>4. Locked'
  BY <1>1, <1>2, GotoOne, SMT DEF IInv, Locked, Tasks
<1> QED
  BY <1>3, <1>4 DEF IInv

LEMMA BanRefused ==
  ASSUME IInv, NEW n \in Nets, ban_refused(n)
  PROVE  IInv'
<1> DEFINE rest == job["admin"].rest \ {n}
           j == IF rest = {} THEN Idle ELSE [job["admin"] EXCEPT !.rest = rest]
<1>1. "admin" \in Tasks /\ job["admin"] \in JobSet /\ job["admin"].at = "batch"
  BY DEF Tasks, ban_refused, IInv, Typed
<1>2. j \in JobSet /\ j.at = IF rest = {} THEN "idle" ELSE "batch"
  BY <1>1, JobTypes DEF JobSet
<1>3. up /\ state_lock = "admin"
  BY <1>1, JobTypes, SMT DEF IInv, Locked
<1>4. Goto("admin", j) /\ up' /\ UNCHANGED <<store, firewall, history, enf_lock>>
      /\ state_lock' = IF rest = {} THEN "free" ELSE "admin"
  BY <1>3 DEF ban_refused
<1> HIDE DEF j, rest
<1>5. Typed' /\ Planned' /\ Told' /\ Caused' /\ Cached'
  BY <1>1, <1>2, <1>3, <1>4, QuietStep
<1>6. Locked'
  BY <1>1, <1>2, <1>3, <1>4, GotoOne, SMT DEF IInv, Locked, Tasks
<1> QED
  BY <1>5, <1>6 DEF IInv

LEMMA ApplyBans ==
  ASSUME IInv, NEW records \in SUBSET Nets, apply_bans(records)
  PROVE  IInv'
<1> DEFINE j == Job("wait", "batch", AnyNet, {}, records)
<1>1. j \in JobSet /\ j.at = "wait" /\ j.op = "batch" /\ "cluster" \in Tasks
  BY AnyNetIsNet DEF JobSet, Job, Tasks
<1>2. Goto("cluster", j) /\ up /\ up' /\ UNCHANGED <<store, firewall, history, enf_lock>>
      /\ job["cluster"].at = "idle" /\ state_lock = "free" /\ state_lock' = "cluster"
  BY DEF apply_bans, Ready
<1> HIDE DEF j
<1>3. Typed' /\ Planned' /\ Told' /\ Caused' /\ Cached'
  BY <1>1, <1>2, QuietStep
<1>4. Locked'
  BY <1>1, <1>2, GotoOne, SMT DEF IInv, Locked, Tasks
<1> QED
  BY <1>3, <1>4 DEF IInv

LEMMA RemoteSkipped ==
  ASSUME IInv, NEW n \in Nets, remote_skipped(n)
  PROVE  IInv'
<1> DEFINE j == [job["cluster"] EXCEPT !.rest = @ \ {n}]
<1>1. "cluster" \in Tasks /\ job["cluster"] \in JobSet /\ job["cluster"].at = "batch"
  BY DEF Tasks, remote_skipped, IInv, Typed
<1>2. j \in JobSet /\ j.at = "batch"
  BY <1>1 DEF JobSet
<1>3. up
  BY <1>1, JobTypes, SMT DEF IInv, Locked
<1>4. Goto("cluster", j) /\ up' /\ UNCHANGED <<store, firewall, history, locks>>
  BY <1>3 DEF remote_skipped
<1> HIDE DEF j
<1>5. Typed' /\ Planned' /\ Told' /\ Caused' /\ Cached'
  BY <1>1, <1>2, <1>3, <1>4, QuietStep
<1>6. Locked'
  BY <1>1, <1>2, <1>3, <1>4, GotoOne, SMT DEF IInv, Locked, locks
<1> QED
  BY <1>5, <1>6 DEF IInv

LEMMA RemoteDone ==
  ASSUME IInv, remote_done
  PROVE  IInv'
<1>1. "cluster" \in Tasks /\ job["cluster"].at = "batch"
  BY DEF Tasks, remote_done
<1>2. up /\ state_lock = "cluster" /\ enf_lock = "cluster"
  BY <1>1, JobTypes, SMT DEF IInv, Locked
<1>3. Goto("cluster", Idle) /\ up' /\ UNCHANGED <<store, firewall, history>>
      /\ state_lock' = "free" /\ enf_lock' = "free"
  BY <1>2 DEF remote_done
<1>4. Typed' /\ Planned' /\ Told' /\ Caused' /\ Cached'
  BY <1>1, <1>2, <1>3, QuietStep, JobTypes
<1>5. Locked'
  BY <1>1, <1>2, <1>3, GotoOne, JobTypes, SMT DEF IInv, Locked, Tasks
<1> QED
  BY <1>4, <1>5 DEF IInv

-----------------------------------------------------------------------------
(* Steps that store a ban, under the state lock.  No other task has a plan *)
(* that the state lock protects, so every plan stays right.                *)

LEMMA StoreStep ==
  ASSUME IInv, NEW t \in Tasks, NEW n \in Nets, NEW j \in JobSet, Goto(t, j), up, up',
         state_lock \in {"free", t}, job[t].at \notin {"wait", "exec"},
         ban' = [ban EXCEPT ![n] = "live"], UNCHANGED <<whitelist, firewall, history>>,
         j.at \in {"wait", "exec"}, j.op = "apply", j.net = n,
         j.at = "exec" => j.want = desired_bans \cup {n}
  PROVE  Typed' /\ Planned' /\ Told' /\ Caused' /\ Cached'
<1>1. /\ job' \in [Tasks -> JobSet] /\ job'[t] = j
      /\ \A u \in Tasks \ {t} : job'[u] = job[u]
  BY GotoOne DEF IInv
<1>2. ban \in [Nets -> {"none", "live", "expired"}]
  BY DEF IInv, Typed
<1>3. Typed'
  BY <1>1, <1>2 DEF IInv, Typed, firewall
<1>4. ASSUME NEW u \in Tasks \ {t}, job[u].at \in {"wait", "exec"}
      PROVE  job[u].op = "apply"
  <2>1. u = "pipeline"
    BY <1>4 DEF IInv, Locked, Tasks
  <2>2. Planned /\ u \in Tasks
    BY DEF IInv
  <2> QED
    BY <1>4, <2>1, <2>2 DEF Planned, PlannedFor
<1>5. Planned'
  BY <1>1, <1>4, SMT DEF IInv, Planned, PlannedFor, firewall
<1>6. Told'
  <2>1. Carries(t, n)'
    BY <1>1 DEF Carries
  <2>2. ASSUME NEW m \in Nets, m # n, m \in Live(ban)'
        PROVE  m \in (desired_bans \cup owed)' \/ \E u \in Tasks : Carries(u, m)'
    <3>1. m \in Live(ban)
      BY <1>2, <2>2 DEF Live
    <3> QED
      BY <1>1, <3>1, SMT DEF IInv, Told, Carries, firewall, history
  <2> QED
    BY <2>1, <2>2 DEF Told, Live
<1>7. Caused'
  BY <1>1, <1>2, SMT DEF IInv, Caused, firewall, history, Drops, Typed
<1>8. Cached'
  BY DEF IInv, Cached, firewall, history
<1> QED
  BY <1>3, <1>5, <1>6, <1>7, <1>8

LEMMA AdmitAdded ==
  ASSUME IInv, admit_added
  PROVE  IInv'
<1> DEFINE n == job["pipeline"].net
<1>1. "pipeline" \in Tasks /\ job["pipeline"].at = "checked" /\ n \in Nets
  BY DEF Tasks, admit_added, IInv, Typed, JobSet
<1>2. up
  BY <1>1, JobTypes, SMT DEF IInv, Locked
<1>3. /\ Goto("pipeline", Applying(n, {})) /\ up' /\ UNCHANGED <<whitelist, firewall, history, locks>>
      /\ ban' = [ban EXCEPT ![n] = "live"] /\ state_lock = "free"
  BY <1>2 DEF admit_added
<1>4. /\ Applying(n, {}) \in JobSet /\ Applying(n, {}).at = "wait"
      /\ Applying(n, {}).op = "apply" /\ Applying(n, {}).net = n
  BY <1>1, JobTypes, SMT
<1> HIDE DEF n
<1>5. Typed' /\ Planned' /\ Told' /\ Caused' /\ Cached'
  BY <1>1, <1>2, <1>3, <1>4, StoreStep
<1>6. Locked'
  BY <1>1, <1>2, <1>3, <1>4, GotoOne, SMT DEF IInv, Locked, locks
<1> QED
  BY <1>5, <1>6 DEF IInv

LEMMA BanStored ==
  ASSUME IInv, NEW n \in Nets, ban_stored(n)
  PROVE  IInv'
<1> DEFINE rest == job["admin"].rest \ {n}
<1>1. "admin" \in Tasks /\ job["admin"].at = "batch" /\ rest \in SUBSET Nets
  BY DEF Tasks, ban_stored, IInv, Typed, JobSet
<1>2. up /\ state_lock = "admin"
  BY <1>1, JobTypes, SMT DEF IInv, Locked
<1>3. /\ Goto("admin", Applying(n, rest)) /\ up' /\ UNCHANGED <<whitelist, firewall, history, locks>>
      /\ ban' = [ban EXCEPT ![n] = "live"]
  BY <1>2 DEF ban_stored
<1> HIDE DEF rest
<1>4. /\ Applying(n, rest) \in JobSet /\ Applying(n, rest).at = "wait"
      /\ Applying(n, rest).op = "apply" /\ Applying(n, rest).net = n
  BY <1>1, JobTypes, ZenonT(40)
<1>5. Typed' /\ Planned' /\ Told' /\ Caused' /\ Cached'
  BY <1>1, <1>2, <1>3, <1>4, StoreStep
<1>6. Locked'
  BY <1>1, <1>2, <1>3, <1>4, GotoOne, SMT DEF IInv, Locked, locks
<1> QED
  BY <1>5, <1>6 DEF IInv

LEMMA RemoteStored ==
  ASSUME IInv, NEW n \in Nets, remote_stored(n)
  PROVE  IInv'
<1> DEFINE j == Job("exec", "apply", n, desired_bans \cup {n}, job["cluster"].rest \ {n})
<1>1. "cluster" \in Tasks /\ job["cluster"].at = "batch" /\ job["cluster"].rest \in SUBSET Nets
  BY DEF Tasks, remote_stored, IInv, Typed, JobSet
<1>2. up /\ state_lock = "cluster" /\ enf_lock = "cluster"
  BY <1>1, JobTypes, SMT DEF IInv, Locked
<1>3. /\ Goto("cluster", j) /\ up' /\ UNCHANGED <<whitelist, firewall, history, locks>>
      /\ ban' = [ban EXCEPT ![n] = "live"]
  BY <1>2 DEF remote_stored
<1>4. /\ j \in JobSet /\ j.at = "exec" /\ j.op = "apply" /\ j.net = n
      /\ j.want = desired_bans \cup {n}
  BY <1>1 DEF JobSet, Job, IInv, Typed
<1> HIDE DEF j
<1>5. Typed' /\ Planned' /\ Told' /\ Caused' /\ Cached'
  BY <1>1, <1>2, <1>3, <1>4, StoreStep
<1>6. Locked'
  BY <1>1, <1>2, <1>3, <1>4, GotoOne, SMT DEF IInv, Locked, locks
<1> QED
  BY <1>5, <1>6 DEF IInv

-----------------------------------------------------------------------------
(* Steps of the store that end with the state lock held for a removal or a *)
(* full sync: bans only go, and the plan is computed from what is left.    *)

\* b is the store with some bans gone.
Fewer(b) == /\ b \in [Nets -> {"none", "live", "expired"}]
            /\ \A n \in Nets : b[n] \in {ban[n], "none"}

LEMMA RevokeStep ==
  ASSUME IInv, NEW t \in Tasks, t # "pipeline", NEW j \in JobSet, Goto(t, j), up, up',
         state_lock = "free", state_lock' = t, job[t].at = "idle", Fewer(ban'),
         UNCHANGED <<firewall, enf_lock, history>>,
         j.at = "wait",
         \/ /\ j.op = "remove" /\ ban'[j.net] = "none"
            /\ \A n \in Nets \ {j.net} : ban'[n] = ban[n]
         \/ /\ j.op = "sync" /\ Desired(ban', whitelist') \subseteq j.want
            /\ \A n \in j.want : ban'[n] # "none"
  PROVE  IInv'
<1>1. /\ job' \in [Tasks -> JobSet] /\ job'[t] = j
      /\ \A u \in Tasks \ {t} : job'[u] = job[u]
  BY GotoOne DEF IInv
<1>2. ban \in [Nets -> {"none", "live", "expired"}] /\ desired_bans \subseteq Nets
  BY DEF IInv, Typed
<1>3. Typed'
  BY <1>1, <1>2 DEF IInv, Typed, firewall, Fewer
<1>4. Locked'
  BY <1>1, ZenonT(60) DEF IInv, Locked, Tasks
<1>5. ASSUME NEW u \in Tasks \ {t}, job[u].at \in {"wait", "exec"}
      PROVE  job[u].op = "apply"
  <2>1. u = "pipeline"
    BY <1>5 DEF IInv, Locked, Tasks
  <2>2. Planned /\ u \in Tasks
    BY DEF IInv
  <2> QED
    BY <1>5, <2>1, <2>2 DEF Planned, PlannedFor
<1>6. Planned'
  <2>1. PlannedFor(t)'
    BY <1>1 DEF PlannedFor
  <2>2. ASSUME NEW u \in Tasks \ {t}
        PROVE  PlannedFor(u)'
    BY <1>1, <1>5 DEF IInv, Planned, PlannedFor, firewall
  <2> QED
    BY <2>1, <2>2 DEF Planned
<1>7. Told'
  <2>1. \A n \in Nets : n \in Live(ban)' => n \in Live(ban)
    BY <1>2 DEF Live, Fewer
  <2>2. ASSUME NEW u \in Tasks, NEW n, Carries(u, n)
        PROVE  Carries(u, n)'
    BY <1>1, <2>2 DEF Carries
  <2>3. Live(ban)' \subseteq Nets
    BY DEF Live
  <2> QED
    BY <2>1, <2>2, <2>3 DEF IInv, Told, firewall, history
<1>8. Caused'
  <2> SUFFICES ASSUME NEW n \in desired_bans
               PROVE  ban'[n] # "none" \/ n \in stray \/ \E u \in Tasks : Drops(u, n)'
    BY DEF Caused, firewall, history
  <2>1. ban[n] # "none" \/ n \in stray \/ \E u \in Tasks : Drops(u, n)
    BY DEF IInv, Caused
  <2>2. ASSUME NEW u \in Tasks, Drops(u, n)
        PROVE  Drops(u, n)'
    BY <1>1, <2>2 DEF Drops
  <2>3. ASSUME ban[n] # "none", ban'[n] = "none"
        PROVE  Drops(t, n)'
    BY <1>1, <1>2, <2>3 DEF Drops
  <2> QED
    BY <2>1, <2>2, <2>3
<1>9. Cached'
  BY DEF IInv, Cached, firewall, history
<1> QED
  BY <1>3, <1>4, <1>6, <1>7, <1>8, <1>9 DEF IInv

LEMMA UnbanStep ==
  ASSUME IInv, NEW n \in Nets, Unban(n)
  PROVE  IInv'
<1>1. "admin" \in Tasks /\ Goto("admin", Removing(n)) /\ up /\ up' /\ state_lock = "free"
      /\ state_lock' = "admin" /\ job["admin"].at = "idle" /\ ban' = [ban EXCEPT ![n] = "none"]
      /\ UNCHANGED <<firewall, enf_lock, history>>
  BY DEF Unban, Ready, Tasks
<1>2. Fewer(ban') /\ ban'[n] = "none" /\ \A m \in Nets \ {n} : ban'[m] = ban[m]
  BY <1>1 DEF Fewer, IInv, Typed
<1>3. PICK j \in JobSet : j = Removing(n) /\ j.at = "wait" /\ j.op = "remove" /\ j.net = n
  BY JobTypes
<1>4. ban'[j.net] = "none" /\ \A m \in Nets \ {j.net} : ban'[m] = ban[m]
  BY <1>2, <1>3
<1>5. Goto("admin", j)
  BY <1>1, <1>3
<1> QED
  BY <1>1, <1>2, <1>3, <1>4, <1>5, RevokeStep

LEMMA WhitelistAddStep ==
  ASSUME IInv, NEW w \in WlNets, WhitelistAdd(w)
  PROVE  IInv'
<1> DEFINE wl == whitelist \cup {w}
           b  == [n \in Nets |-> IF overlaps(wl, n) THEN "none" ELSE ban[n]]
<1>1. "admin" \in Tasks /\ Goto("admin", Syncing(Desired(b, wl))) /\ up /\ up'
      /\ state_lock = "free" /\ state_lock' = "admin" /\ job["admin"].at = "idle"
      /\ ban' = b /\ whitelist' = wl /\ UNCHANGED <<firewall, enf_lock, history>>
  BY DEF WhitelistAdd, Ready, Tasks
<1>2. Fewer(b)
  BY DEF Fewer, IInv, Typed
<1> HIDE DEF wl, b
<1>3. Desired(b, wl) \in SUBSET Nets /\ \A n \in Desired(b, wl) : b[n] # "none"
  BY DEF Desired, Live
<1>4. Desired(ban', whitelist') \subseteq Desired(b, wl)
  BY <1>1
<1> QED
  BY <1>1, <1>2, <1>3, <1>4, JobTypes, RevokeStep, SMT

LEMMA ExpiryTick ==
  ASSUME IInv, expiry_tick
  PROVE  IInv'
<1>1. "expiry" \in Tasks /\ Goto("expiry", Syncing(Desired(ban, whitelist))) /\ up /\ up'
      /\ state_lock = "free" /\ state_lock' = "expiry" /\ job["expiry"].at = "idle"
      /\ UNCHANGED <<whitelist, firewall, enf_lock, history>>
  BY DEF expiry_tick, Ready, Tasks
<1>2. PICK kept : ban' = [n \in Nets |-> IF ban[n] = "expired" /\ n \notin kept THEN "none" ELSE ban[n]]
  BY DEF expiry_tick
<1>3. Fewer(ban')
  BY <1>2 DEF Fewer, IInv, Typed
<1>4. Live(ban') = Live(ban)
  BY <1>2 DEF Live
<1>5. /\ Desired(ban', whitelist') = Desired(ban, whitelist)
      /\ Desired(ban, whitelist) \in SUBSET Nets
      /\ \A n \in Desired(ban, whitelist) : ban'[n] # "none"
  BY <1>1, <1>2, <1>4 DEF Desired, Live
<1> QED
  BY <1>1, <1>3, <1>5, JobTypes, RevokeStep, SMT

LEMMA WhitelistAddFailed ==
  ASSUME IInv, NEW w \in WlNets, WhitelistAdd_failed(w)
  PROVE  IInv'
<1>1. PICK gone : /\ ban' = [n \in Nets |-> IF n \in gone THEN "none" ELSE ban[n]]
                  /\ stray' = stray \cup gone
  BY DEF WhitelistAdd_failed
<1>2. /\ up /\ UNCHANGED <<firewall, up, locks, job, owed, unsure>> /\ state_lock = "free"
  BY DEF WhitelistAdd_failed, Ready
<1>3. ban \in [Nets -> {"none", "live", "expired"}] /\ desired_bans \subseteq Nets
  BY DEF IInv, Typed
<1>4. Typed'
  BY <1>1, <1>2, <1>3 DEF IInv, Typed, firewall
<1>5. Locked'
  BY <1>2 DEF IInv, Locked, locks
<1>6. ASSUME NEW u \in Tasks, job[u].at \in {"wait", "exec"}
      PROVE  job[u].op = "apply"
  BY <1>2, <1>6 DEF IInv, Locked, Planned, PlannedFor, Tasks
<1>7. Planned'
  BY <1>2, <1>6 DEF IInv, Planned, PlannedFor, firewall
<1>8. Told'
  BY <1>1, <1>2, <1>3, ZenonT(40) DEF IInv, Told, Live, Carries, firewall
<1>9. Caused'
  BY <1>1, <1>2, <1>3 DEF IInv, Caused, Drops, firewall
<1>10. Cached'
  BY <1>2 DEF IInv, Cached, firewall
<1> QED
  BY <1>4, <1>5, <1>7, <1>8, <1>9, <1>10 DEF IInv

LEMMA WhitelistRemoveStep ==
  ASSUME IInv, NEW w \in WlNets, WhitelistRemove(w)
  PROVE  IInv'
<1>1. UNCHANGED <<ban, firewall, up, locks, job, history>> /\ state_lock = "free"
  BY DEF WhitelistRemove, Ready
<1>2. ASSUME NEW u \in Tasks, job[u].at \in {"wait", "exec"}
      PROVE  job[u].op = "apply"
  BY <1>1, <1>2 DEF IInv, Locked, Planned, PlannedFor, Tasks
<1>3. Planned'
  BY <1>1, <1>2 DEF IInv, Planned, PlannedFor, firewall
<1>4. Typed' /\ Locked'
  BY <1>1 DEF IInv, Typed, Locked, firewall, locks
<1>5. Told' /\ Caused' /\ Cached'
  BY <1>1, SMT DEF IInv, Told, Caused, Cached, Live, Carries, Drops, firewall, history
<1> QED
  BY <1>3, <1>4, <1>5 DEF IInv

-----------------------------------------------------------------------------
(* The enforcer.                                                           *)

LEMMA LockEnforcer ==
  ASSUME IInv, NEW t \in Tasks, lock_enforcer(t)
  PROVE  IInv'
<1> DEFINE j == IF job[t].op = "batch" THEN [job[t] EXCEPT !.at = "batch"]
                ELSE [job[t] EXCEPT !.at = "exec", !.want = Wanted(job[t])]
<1>1. /\ job[t].at = "wait" /\ enf_lock = "free" /\ enf_lock' = t /\ Goto(t, j)
      /\ UNCHANGED <<store, firewall, up, state_lock, history>>
  BY DEF lock_enforcer
<1>2. job[t] \in JobSet /\ desired_bans \in SUBSET Nets
  BY DEF IInv, Typed
<1>3. Wanted(job[t]) \in SUBSET Nets
  BY <1>2 DEF Wanted, JobSet
<1>4. j \in JobSet /\ j.net = job[t].net /\ j.op = job[t].op
  BY <1>2, <1>3 DEF JobSet
<1>5. IF job[t].op = "batch" THEN j.at = "batch" ELSE j.at = "exec" /\ j.want = Wanted(job[t])
  BY <1>2, <1>3 DEF JobSet
<1> HIDE DEF j
<1>6. /\ job' \in [Tasks -> JobSet] /\ job'[t] = j
      /\ \A u \in Tasks \ {t} : job'[u] = job[u]
  BY <1>1, <1>4, GotoOne DEF IInv
<1>7. /\ job[t].op \in {"apply", "remove", "sync", "batch"}
      /\ job[t].op = "batch" => t = "cluster"
  BY <1>1, <1>2 DEF IInv, Planned, PlannedFor, JobSet
<1>8. Typed'
  BY <1>1, <1>6 DEF IInv, Typed, store, firewall
<1>9. Locked'
  <2>1. up
    BY <1>1, JobTypes, SMT DEF IInv, Locked
  <2> QED
    BY <1>1, <1>5, <1>6, <1>7, <2>1, ZenonT(60) DEF IInv, Locked, Tasks
<1>10. Planned'
  <2>1. ASSUME job[t].op # "batch"
        PROVE  \/ j.op = "apply" /\ j.want = desired_bans \cup {j.net}
               \/ j.op = "remove" /\ j.want = desired_bans \ {j.net}
               \/ j.op = "sync" /\ j.want = job[t].want
    BY <1>4, <1>5, <1>7, <2>1 DEF Wanted
  <2>2. PlannedFor(t)'
    BY <1>1, <1>4, <1>5, <1>6, <2>1
    DEF IInv, Planned, PlannedFor, store, firewall, Desired, Live
  <2>3. ASSUME NEW u \in Tasks \ {t}
        PROVE  PlannedFor(u)'
    BY <1>1, <1>6, ZenonT(40) DEF IInv, Planned, PlannedFor, store, firewall, Desired, Live
  <2> QED
    BY <2>2, <2>3 DEF Planned
<1>11. Told'
  <2>1. \A n : Carries(t, n) => Carries(t, n)'
    BY <1>1, <1>4, <1>5, <1>6 DEF Carries
  <2>2. ASSUME NEW u \in Tasks \ {t}, NEW n
        PROVE  Carries(u, n) => Carries(u, n)'
    BY <1>6 DEF Carries
  <2> QED
    BY <1>1, <2>1, <2>2 DEF IInv, Told, Live, store, firewall, history
<1>12. Caused'
  <2>1. ASSUME NEW n, Drops(t, n)
        PROVE  Drops(t, n)'
    <3>1. job[t].op = "sync" => j.at = "exec" /\ j.want = job[t].want
      BY <1>5 DEF Wanted
    <3> QED
      BY <1>1, <1>4, <1>5, <1>6, <2>1, <3>1 DEF Drops
  <2> QED
    BY <1>1, <1>6, <2>1, SMT DEF IInv, Caused, Drops, store, firewall, history
<1>13. Cached'
  BY <1>1 DEF IInv, Cached, firewall, history
<1> QED
  BY <1>8, <1>9, <1>10, <1>11, <1>12, <1>13 DEF IInv

\* What a task that ran nft holds afterwards.
LEMMA ReturnsOne ==
  ASSUME IInv, NEW t \in Tasks, job[t].at = "exec", Returns(t), UNCHANGED up
  PROVE  /\ job' \in [Tasks -> JobSet] /\ job'[t].at \in {"idle", "batch"}
         /\ \A u \in Tasks \ {t} : job'[u] = job[u]
         /\ up /\ enf_lock = t /\ Locked'
<1> DEFINE more == t = "admin" /\ job[t].rest # {}
           j == IF t = "cluster" \/ more THEN [job[t] EXCEPT !.at = "batch", !.want = {}] ELSE Idle
<1>1. Goto(t, j) /\ enf_lock' = (IF t = "cluster" THEN t ELSE "free")
      /\ state_lock' = (IF state_lock = t /\ ~(t = "cluster" \/ more) THEN "free" ELSE state_lock)
  BY DEF Returns
<1>2. job[t] \in JobSet
  BY DEF IInv, Typed
<1>3. j \in JobSet /\ j.at = IF t = "cluster" \/ more THEN "batch" ELSE "idle"
  BY <1>2, JobTypes DEF JobSet
<1>4. more => t = "admin"
  OBVIOUS
<1> HIDE DEF j, more
<1>5. /\ job' \in [Tasks -> JobSet] /\ job'[t] = j
      /\ \A u \in Tasks \ {t} : job'[u] = job[u]
  BY <1>1, <1>3, GotoOne DEF IInv
<1>6. up /\ enf_lock = t
  BY JobTypes, SMT DEF IInv, Locked
<1>7. Locked'
  BY <1>1, <1>3, <1>4, <1>5, <1>6, ZenonT(60) DEF IInv, Locked, Tasks
<1> QED
  BY <1>3, <1>5, <1>6, <1>7

\* Nobody else runs nft, and what is not applied has the state lock.
LEMMA OthersWait ==
  ASSUME IInv, NEW t \in Tasks, job[t].at = "exec", NEW u \in Tasks \ {t}
  PROVE  job[u].at # "exec"
BY DEF IInv, Locked

LEMMA SyncOk ==
  ASSUME IInv, NEW t \in Tasks, sync_ok(t)
  PROVE  IInv'
<1> DEFINE want == job[t].want
           n == job[t].net
           op == job[t].op
<1>1. /\ job[t].at = "exec" /\ kernel' = dedup_overlapping(want) /\ desired_bans' = want
      /\ Returns(t) /\ unsure' = FALSE /\ UNCHANGED <<store, up>>
      /\ owed' = IF op = "sync" THEN {m \in Live(ban) : overlaps(whitelist, m)} ELSE owed \ {n}
      /\ op = "sync" => stray' = {}
      /\ op = "apply" => stray' = IF ban[n] = "none" THEN stray \cup {n} ELSE stray \ {n}
      /\ op = "remove" => stray' = stray \ {n}
  BY DEF sync_ok
<1>2. /\ job' \in [Tasks -> JobSet] /\ job'[t].at \in {"idle", "batch"}
      /\ \A u \in Tasks \ {t} : job'[u] = job[u] /\ job[u].at # "exec"
      /\ up /\ Locked'
  BY <1>1, ReturnsOne, OthersWait
<1>3. job[t] \in JobSet /\ want \in SUBSET Nets /\ n \in Nets
  BY DEF IInv, Typed, JobSet
<1>4. \/ op = "apply" /\ want = desired_bans \cup {n}
      \/ op = "remove" /\ want = desired_bans \ {n} /\ ban[n] = "none"
      \/ op = "sync" /\ Desired(ban, whitelist) \subseteq want /\ \A m \in want : ban[m] # "none"
  BY <1>1 DEF IInv, Planned, PlannedFor
<1>5. ban' = ban /\ whitelist' = whitelist /\ ban \in [Nets -> {"none", "live", "expired"}]
  BY <1>1 DEF store, IInv, Typed
<1> HIDE DEF want, n, op
<1>6. Typed'
  <2>1. dedup_overlapping(want) \subseteq Nets
    BY <1>3, DedupInNets
  <2> QED
    BY <1>1, <1>2, <1>3, <1>5, <2>1 DEF Typed
<1>7. Planned'
  <2>1. PlannedFor(t)'
    BY <1>2 DEF PlannedFor
  <2>2. ASSUME NEW u \in Tasks \ {t}
        PROVE  PlannedFor(u)'
    BY <1>2, <1>5, ZenonT(60) DEF IInv, Planned, PlannedFor
  <2> QED
    BY <2>1, <2>2 DEF Planned
<1>8. Told'
  <2> SUFFICES ASSUME NEW m \in Live(ban)
               PROVE  m \in desired_bans' \cup owed' \/ \E u \in Tasks : Carries(u, m)'
    BY <1>5 DEF Told
  <2>1. m \in desired_bans \cup owed \/ \E u \in Tasks : Carries(u, m)
    BY <1>2 DEF IInv, Told
  <2>2. ASSUME NEW u \in Tasks \ {t}, Carries(u, m)
        PROVE  Carries(u, m)'
    BY <1>2, <2>2 DEF Carries
  <2>3. CASE op = "sync"
    BY <1>1, <1>4, <2>3 DEF Desired, Live
  <2>4. CASE op = "apply"
    <3>1. Carries(t, m) => m = n
      BY DEF Carries, n
    <3> QED
      BY <1>1, <1>4, <2>1, <2>2, <2>4, <3>1
  <2>5. CASE op = "remove"
    <3>1. ~Carries(t, m)
      BY <2>5 DEF Carries, op
    <3>2. m # n
      BY <1>4, <2>5 DEF Live
    <3> QED
      BY <1>1, <1>4, <2>1, <2>2, <2>5, <3>1, <3>2
  <2> QED
    BY <1>4, <2>3, <2>4, <2>5
<1>9. Caused'
  <2> SUFFICES ASSUME NEW m \in want
               PROVE  ban[m] # "none" \/ m \in stray' \/ \E u \in Tasks : Drops(u, m)'
    BY <1>1, <1>5 DEF Caused
  <2>1. m \in desired_bans => ban[m] # "none" \/ m \in stray \/ \E u \in Tasks : Drops(u, m)
    BY <1>2 DEF IInv, Caused
  <2>2. ASSUME NEW u \in Tasks \ {t}, Drops(u, m)
        PROVE  Drops(u, m)'
    BY <1>2, <2>2 DEF Drops
  <2>3. CASE op = "sync"
    BY <1>4, <2>3
  <2>4. CASE op = "apply"
    <3>1. ~Drops(t, m)
      BY <2>4 DEF Drops, op
    <3>2. CASE m = n
      BY <1>1, <2>4, <3>2
    <3>3. CASE m # n
      BY <1>1, <1>4, <2>1, <2>2, <2>4, <3>1, <3>3, ZenonT(40)
    <3> QED
      BY <3>2, <3>3
  <2>5. CASE op = "remove"
    <3>1. Drops(t, m) => m = n
      BY <2>5 DEF Drops, op, n
    <3> QED
      BY <1>1, <1>4, <2>1, <2>2, <2>5, <3>1
  <2> QED
    BY <1>4, <2>3, <2>4, <2>5
<1>10. Cached'
  BY <1>1, <1>3, DedupInNets DEF Cached
<1> QED
  BY <1>2, <1>6, <1>7, <1>8, <1>9, <1>10 DEF IInv

LEMMA SyncFailed ==
  ASSUME IInv, NEW t \in Tasks, NEW late \in BOOLEAN, sync_failed(t, late)
  PROVE  IInv'
<1> DEFINE want == job[t].want
<1>1. /\ job[t].at = "exec" /\ Returns(t) /\ UNCHANGED <<store, desired_bans, up>>
      /\ kernel' = IF late THEN dedup_overlapping(want) ELSE kernel
      /\ unsure' = (unsure \/ late)
      /\ owed' = owed \cup (want \ desired_bans) /\ stray' = stray \cup (desired_bans \ want)
  BY DEF sync_failed
<1>2. /\ job' \in [Tasks -> JobSet] /\ job'[t].at \in {"idle", "batch"}
      /\ \A u \in Tasks \ {t} : job'[u] = job[u] /\ job[u].at # "exec"
      /\ up /\ Locked'
  BY <1>1, ReturnsOne, OthersWait
<1>3. want \in SUBSET Nets
  BY DEF IInv, Typed, JobSet
<1>4. ban' = ban /\ whitelist' = whitelist
  BY <1>1 DEF store
<1>5. \A m : Carries(t, m) => m \in want
  BY <1>1 DEF IInv, Planned, PlannedFor, Carries
<1>6. \A m \in desired_bans : Drops(t, m) => m \notin want
  BY <1>1 DEF IInv, Planned, PlannedFor, Drops
<1> HIDE DEF want
<1>7. Typed'
  <2>1. dedup_overlapping(want) \subseteq Nets
    BY <1>3, DedupInNets
  <2> QED
    BY <1>1, <1>2, <1>4, <2>1 DEF IInv, Typed
<1>8. Planned'
  BY <1>2, <1>4, ZenonT(60) DEF IInv, Planned, PlannedFor
<1>9. Told'
  BY <1>1, <1>2, <1>4, <1>5, SMT DEF IInv, Told, Carries, Live
<1>10. Caused'
  <2> SUFFICES ASSUME NEW m \in desired_bans
               PROVE  ban[m] # "none" \/ m \in stray' \/ \E u \in Tasks : Drops(u, m)'
    BY <1>1, <1>4 DEF Caused
  <2>1. ban[m] # "none" \/ m \in stray \/ \E u \in Tasks : Drops(u, m)
    BY <1>2 DEF IInv, Caused
  <2>2. ASSUME NEW u \in Tasks \ {t}, Drops(u, m)
        PROVE  Drops(u, m)'
    BY <1>2, <2>2 DEF Drops
  <2> QED
    BY <1>1, <1>6, <2>1, <2>2
<1>11. Cached'
  BY <1>1 DEF IInv, Cached
<1> QED
  BY <1>2, <1>7, <1>8, <1>9, <1>10, <1>11 DEF IInv

-----------------------------------------------------------------------------
(* The world outside, start-up and crashes.                                *)

LEMMA ExpireStep ==
  ASSUME IInv, NEW n \in Nets, expire(n)
  PROVE  IInv'
<1>1. /\ ban[n] = "live" /\ ban' = [ban EXCEPT ![n] = "expired"]
      /\ UNCHANGED <<whitelist, firewall, up, locks, job, history>>
  BY DEF expire
<1>2. /\ ban \in [Nets -> {"none", "live", "expired"}] /\ desired_bans \subseteq Nets
      /\ \A t \in Tasks : job[t].net \in Nets /\ job[t].want \subseteq Nets
  BY DEF IInv, Typed, JobSet
<1>3. \A m \in Nets : ban'[m] = "none" <=> ban[m] = "none"
  BY <1>1, <1>2
<1>4. Live(ban') \subseteq Live(ban)
  BY <1>1, <1>2 DEF Live
<1>5. Desired(ban', whitelist') \subseteq Desired(ban, whitelist)
  BY <1>1, <1>4 DEF Desired
<1>6. Typed' /\ Locked'
  BY <1>1, <1>2 DEF IInv, Typed, Locked, firewall, locks
<1>7. Planned'
  <2> SUFFICES ASSUME NEW t \in Tasks, job[t].at \in {"wait", "exec"}
               PROVE  /\ job[t].op # "none"
                      /\ t = "pipeline" => job[t].op = "apply"
                      /\ job[t].op = "batch" => t = "cluster"
                      /\ job[t].op = "remove" => ban'[job[t].net] = "none"
                      /\ job[t].op = "sync" => /\ Desired(ban', whitelist') \subseteq job[t].want
                                               /\ \A m \in job[t].want : ban'[m] # "none"
                      /\ job[t].at = "exec" =>
                           \/ job[t].op = "apply" /\ job[t].want = desired_bans \cup {job[t].net}
                           \/ job[t].op = "remove" /\ job[t].want = desired_bans \ {job[t].net}
                           \/ job[t].op = "sync"
    BY <1>1 DEF Planned, PlannedFor, firewall
  <2>1. Planned
    BY DEF IInv
  <2> QED
    BY <1>2, <1>3, <1>5, <2>1 DEF Planned, PlannedFor
<1>8. Told'
  BY <1>1, <1>4 DEF IInv, Told, Carries, firewall, history
<1>9. Caused'
  BY <1>1, <1>2, <1>3 DEF IInv, Caused, Drops, firewall, history
<1>10. Cached'
  BY <1>1 DEF IInv, Cached, firewall, history
<1> QED
  BY <1>6, <1>7, <1>8, <1>9, <1>10 DEF IInv

LEMMA DriftStep ==
  ASSUME IInv, drift
  PROVE  IInv'
<1>1. kernel' = {} /\ unsure' /\ UNCHANGED <<store, desired_bans, up, locks, job, owed, stray>>
  BY DEF drift
<1>2. Typed' /\ Locked' /\ Planned'
  BY <1>1 DEF IInv, Typed, Locked, Planned, PlannedFor, Desired, Live, store, locks
<1>3. Told' /\ Caused' /\ Cached'
  BY <1>1, SMTT(30) DEF IInv, Told, Caused, Cached, Carries, Drops, Live, store
<1> QED
  BY <1>2, <1>3 DEF IInv

LEMMA IdleJobs ==
  ASSUME job' = [t \in Tasks |-> Idle]
  PROVE  /\ job' \in [Tasks -> JobSet] /\ \A t \in Tasks : job'[t].at = "idle"
         /\ Planned'
BY JobTypes DEF Planned, PlannedFor

LEMMA CrashStep ==
  ASSUME IInv, crash
  PROVE  IInv'
<1>1. /\ ~up' /\ job' = [t \in Tasks |-> Idle] /\ UNCHANGED <<store, desired_bans>>
      /\ \/ kernel' = kernel
         \/ \E t \in Tasks : kernel' = dedup_overlapping(job[t].want)
  BY DEF crash
<1>2. \A t \in Tasks : job[t].want \in SUBSET Nets
  BY DEF IInv, Typed, JobSet
<1>3. Typed'
  BY <1>1, <1>2, DedupInNets, IdleJobs DEF IInv, Typed, store
<1>4. Locked'
  BY <1>1, IdleJobs DEF Locked
<1> QED
  BY <1>1, <1>3, <1>4, IdleJobs DEF IInv, Told, Caused, Cached

LEMMA StartStep ==
  ASSUME IInv, start
  PROVE  IInv'
<1> DEFINE wl == whitelist \cup ConfigNets
           b  == [n \in Nets |-> IF overlaps(wl, n) THEN "none" ELSE ban[n]]
<1>1. /\ ~up /\ up' /\ ban' = b /\ desired_bans' = Live(b)
      /\ kernel' = dedup_overlapping(Live(b)) /\ UNCHANGED <<locks, job>>
  BY DEF start
<1>2. b \in [Nets -> {"none", "live", "expired"}]
  BY DEF IInv, Typed
<1>3. job' = [t \in Tasks |-> Idle]
  BY <1>1 DEF IInv, Locked
<1> HIDE DEF b
<1>4. Live(b) \in SUBSET Nets /\ \A n \in Live(b) : b[n] = "live"
  BY DEF Live
<1>5. Typed'
  BY <1>1, <1>2, <1>3, <1>4, DedupInNets, IdleJobs DEF Typed
<1>6. Locked'
  BY <1>1, <1>3, IdleJobs DEF Locked
<1>7. Told' /\ Caused' /\ Cached'
  BY <1>1, <1>4, DedupInNets DEF Told, Caused, Cached
<1> QED
  BY <1>3, <1>5, <1>6, <1>7, IdleJobs DEF IInv

LEMMA StartFailed ==
  ASSUME IInv, start_failed
  PROVE  IInv'
<1>1. ~up /\ ~up' /\ desired_bans' = kernel /\ UNCHANGED <<kernel, locks, job>>
  BY DEF start_failed
<1>2. PICK gone : ban' = [n \in Nets |-> IF n \in gone THEN "none" ELSE ban[n]]
  BY DEF start_failed
<1>3. job' = [t \in Tasks |-> Idle]
  BY <1>1 DEF IInv, Locked
<1>4. Typed'
  BY <1>1, <1>2, <1>3, IdleJobs DEF IInv, Typed
<1>5. Locked'
  BY <1>1, <1>3, IdleJobs DEF Locked
<1> QED
  BY <1>1, <1>3, <1>4, <1>5, IdleJobs DEF IInv, Told, Caused, Cached

-----------------------------------------------------------------------------
(* The results.                                                            *)

LEMMA NextIInv == IInv /\ [Next]_vars => IInv'
<1> SUFFICES ASSUME IInv, [Next]_vars
             PROVE  IInv'
  OBVIOUS
<1>1. CASE UNCHANGED vars
  <2> USE <1>1 DEF vars, store, firewall, locks, history
  <2>1. Typed' /\ Locked'
    BY DEF IInv, Typed, Locked
  <2>2. Planned'
    BY DEF IInv, Planned, PlannedFor, Desired, Live
  <2>3. Told'
    BY DEF IInv, Told, Carries, Live
  <2>4. Caused'
    BY DEF IInv, Caused, Drops
  <2>5. Cached'
    BY DEF IInv, Cached
  <2> QED
    BY <2>1, <2>2, <2>3, <2>4, <2>5 DEF IInv
<1>2. CASE Next
  BY <1>2, PipelineCheck, AdmitAdded, AdmitSkipped, BanBegins, BanStored, BanRefused, UnbanStep,
     WhitelistAddStep, WhitelistAddFailed, WhitelistRemoveStep, ApplyBans, RemoteStored,
     RemoteSkipped, RemoteDone, ExpiryTick, LockEnforcer, SyncOk, SyncFailed, ExpireStep,
     DriftStep, CrashStep, StartStep, StartFailed
     DEF Next
<1> QED
  BY <1>1, <1>2

LEMMA IInvInvariant == Spec => []IInv
<1>1. Init => IInv
  BY InitIInv
<1>2. IInv /\ [Next]_vars => IInv'
  BY NextIInv
<1> QED
  BY <1>1, <1>2, PTL DEF Spec

\* Whatever the tasks do at the same time, no live ban silently fails to be
\* enforced ("Holding state through sync prevents an older snapshot overwriting a
\* new ban", ban_expiry_task), for every set of networks and every whitelist.
THEOREM BansAreEnforced == Spec => []NoBanUnenforced
<1>1. ASSUME IInv
      PROVE  NoBanUnenforced
  <2> SUFFICES ASSUME up, NEW n \in Desired(ban, whitelist)
               PROVE  \/ Block(n) \subseteq Blocked(kernel)
                      \/ n \in owed \/ unsure
                      \/ \E t \in Tasks : Carries(t, n)
    BY DEF NoBanUnenforced
  <2>1. n \in desired_bans \cup owed \/ \E t \in Tasks : Carries(t, n)
    BY <1>1 DEF IInv, Told, Desired
  <2>2. n \in desired_bans => Block(n) \subseteq Blocked(desired_bans)
    BY DEF Blocked
  <2>3. unsure \/ Blocked(kernel) = Blocked(desired_bans)
    BY <1>1 DEF IInv, Cached
  <2> QED
    BY <2>1, <2>2, <2>3
<1> QED
  BY <1>1, IInvInvariant, PTL

\* The firewall blocks nothing without a cause: what NftablesEnforcer believes it
\* applied is a stored ban, on its way out, or one of the recorded leftovers, and
\* the kernel blocks the addresses of that belief, no more and no fewer.
THEOREM BlocksHaveACause == Spec => []NothingBlockedWithoutCause
<1>1. IInv => NothingBlockedWithoutCause
  BY DEF IInv, Caused, Cached, NothingBlockedWithoutCause
<1> QED
  BY <1>1, IInvInvariant, PTL
=============================================================================
