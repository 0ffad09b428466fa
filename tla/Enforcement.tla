---------------------------- MODULE Enforcement ----------------------------
(***************************************************************************)
(* The tasks of the daemon that change the ban store and the firewall, and *)
(* the two locks they take: the pipeline, the cluster task, the requests   *)
(* of the control socket and of the UI (task "admin": they hold the state  *)
(* lock from their first step to their last, so one stands for all), the   *)
(* expiry task, and start-up.  nft may fail, or update the kernel and be   *)
(* reported as failed because its deadline passed.                         *)
(*                                                                         *)
(* Expiry times are abstracted to "live" or "expired", and the store is    *)
(* durable: how it survives a crash is the subject of StateManager.        *)
(***************************************************************************)
EXTENDS IpNet

CONSTANTS Nets,        \* subjects of bans, truncated
          WlNets,      \* whitelist entries that come and go at run time
          ConfigNets,  \* the whitelist of the configuration file
          MaxRequests, \* bound on the requests, signals and remote batches
          MaxFaults    \* bound on failures of nft and of the log, on crashes, on
                       \* changes of the sets from outside

ASSUME NetsAssumption == Nets # {} /\ \A n \in Nets : n \in Net /\ n = trunc(n)

Tasks == {"pipeline", "cluster", "admin", "expiry"}

VARIABLES ban,           \* the ban store: net -> "none", "live" or "expired"
          whitelist,
          desired_bans,  \* NftablesEnforcer::desired_bans
          kernel,        \* the elements of the kernel's sets
          up,            \* start-up is over, the tasks run
          state_lock,    \* the task that holds the state, or "free"
          enf_lock,      \* the task that holds the enforcer, or "free"
          job,           \* where each task is
          requests, faults,
          owed,          \* history: live bans a failure or the whitelist kept out of
                         \* the firewall since the last full sync
          stray,         \* history: networks the firewall got or kept after their
                         \* ban was gone
          unsure         \* history: the sets changed behind the enforcer's back

store == <<ban, whitelist>>
firewall == <<desired_bans, kernel>>
locks == <<state_lock, enf_lock>>
history == <<owed, stray, unsure>>
vars == <<store, firewall, up, locks, job, requests, faults, history>>

AnyNet == CHOOSE n \in Nets : TRUE

\* at: "idle"; "checked", the whitelist was consulted; "batch", between the
\* records of a list; "wait", for the enforcer; "exec", nft runs with want.
Job(at, op, net, want, rest) == [at |-> at, op |-> op, net |-> net, want |-> want, rest |-> rest]
Idle == Job("idle", "none", AnyNet, {}, {})
Applying(n, rest) == Job("wait", "apply", n, {}, rest)
Removing(n) == Job("wait", "remove", n, {}, {})
Syncing(want) == Job("wait", "sync", AnyNet, want, {})

\* WhitelistManager::overlaps.
overlaps(wl, n) == \E w \in wl : nets_overlap(w, n)

Live(b) == {n \in Nets : b[n] = "live"}
\* What ban_expiry_task and the whitelist handlers hand to sync_full.
Desired(b, wl) == {n \in Live(b) : ~overlaps(wl, n)}

Init ==
  /\ ban = [n \in Nets |-> "none"] /\ whitelist = {}
  /\ desired_bans = {} /\ kernel = {} /\ up = FALSE
  /\ state_lock = "free" /\ enf_lock = "free" /\ job = [t \in Tasks |-> Idle]
  /\ requests = 0 /\ faults = 0
  /\ owed = {} /\ stray = {} /\ unsure = FALSE

Request == requests < MaxRequests /\ requests' = requests + 1 /\ UNCHANGED faults
Fault == faults < MaxFaults /\ faults' = faults + 1 /\ UNCHANGED requests
NoFault == UNCHANGED <<requests, faults>>

\* Task t can begin something that starts by locking the state.
Ready(t) == up /\ state_lock = "free" /\ job[t].at = "idle"
Goto(t, j) == job' = [job EXCEPT ![t] = j]

-----------------------------------------------------------------------------
(* Pipeline::run: the whitelist is read under the state lock, the record   *)
(* admitted under the state lock, the firewall told without it.            *)

pipeline_check(n) ==
  /\ Ready("pipeline") /\ Request
  /\ ~overlaps(whitelist, n)
  /\ Goto("pipeline", Job("checked", "apply", n, {}, {}))
  /\ UNCHANGED <<store, firewall, up, locks, history>>

Covered(n) == \E m \in Live(ban) : net_covers(m, n)

\* Pipeline::admit, Added: stored, to be applied.  A live ban of the subject
\* itself rules this out, a covering one that ends earlier does not.
admit_added ==
  LET n == job["pipeline"].net
  IN  /\ job["pipeline"].at = "checked" /\ state_lock = "free"
      /\ ban[n] # "live" /\ ~overlaps(whitelist, n)
      /\ ban' = [ban EXCEPT ![n] = "live"]
      /\ Goto("pipeline", Applying(n, {}))
      /\ NoFault /\ UNCHANGED <<whitelist, firewall, up, locks, history>>

\* Pipeline::admit, AlreadyCovered, Extended, or an error (the subject is
\* protected by now, or the log failed): the firewall is not told.
admit_skipped ==
  LET n == job["pipeline"].net
  IN  /\ job["pipeline"].at = "checked" /\ state_lock = "free"
      /\ IF Covered(n) \/ overlaps(whitelist, n) THEN NoFault ELSE Fault
      /\ Goto("pipeline", Idle)
      /\ UNCHANGED <<store, firewall, up, locks, history>>

-----------------------------------------------------------------------------
(* Requests of the control socket and of the UI.  The state lock is held   *)
(* over the call of the enforcer.                                          *)

\* Ban / add_ban for one subject; fail2ban_import for a list.
Ban(list) ==
  /\ Ready("admin") /\ Request
  /\ state_lock' = "admin"
  /\ Goto("admin", Job("batch", "apply", AnyNet, {}, list))
  /\ UNCHANGED <<store, firewall, up, enf_lock, history>>

\* The next subject of the list is stored and goes to the enforcer.
ban_stored(n) ==
  /\ job["admin"].at = "batch" /\ n \in job["admin"].rest
  /\ ~overlaps(whitelist, n)
  /\ ban' = [ban EXCEPT ![n] = "live"]
  /\ Goto("admin", Applying(n, job["admin"].rest \ {n}))
  /\ NoFault /\ UNCHANGED <<whitelist, firewall, up, locks, history>>

\* StateManager::add_ban refuses it, or the log fails.
ban_refused(n) ==
  LET rest == job["admin"].rest \ {n}
  IN  /\ job["admin"].at = "batch" /\ n \in job["admin"].rest
      /\ IF overlaps(whitelist, n) THEN NoFault ELSE Fault
      /\ Goto("admin", IF rest = {} THEN Idle ELSE [job["admin"] EXCEPT !.rest = rest])
      /\ state_lock' = IF rest = {} THEN "free" ELSE "admin"
      /\ UNCHANGED <<store, firewall, up, enf_lock, history>>

\* Unban / remove_ban.  When the log fails nothing changes.
Unban(n) ==
  /\ Ready("admin") /\ Request
  /\ ban' = [ban EXCEPT ![n] = "none"]
  /\ state_lock' = "admin" /\ Goto("admin", Removing(n))
  /\ UNCHANGED <<whitelist, firewall, up, enf_lock, history>>

\* WhitelistAdd / add_whitelist: stored, the bans it overlaps revoked, then a
\* full sync.
WhitelistAdd(w) ==
  LET wl == whitelist \cup {w}
      b  == [n \in Nets |-> IF overlaps(wl, n) THEN "none" ELSE ban[n]]
  IN  /\ Ready("admin") /\ Request
      /\ whitelist' = wl /\ ban' = b
      /\ state_lock' = "admin" /\ Goto("admin", Syncing(Desired(b, wl)))
      /\ UNCHANGED <<firewall, up, enf_lock, history>>

\* The log fails while the bans are revoked: the request reports the error and
\* the enforcer is not told of those already gone.
WhitelistAdd_failed(w) ==
  LET wl == whitelist \cup {w}
  IN  /\ Ready("admin") /\ Fault
      /\ whitelist' = wl
      /\ \E gone \in SUBSET {n \in Nets : ban[n] # "none" /\ overlaps(wl, n)} :
           /\ ban' = [n \in Nets |-> IF n \in gone THEN "none" ELSE ban[n]]
           /\ stray' = stray \cup gone
      /\ UNCHANGED <<firewall, up, locks, job, owed, unsure>>

\* WhitelistRemove / remove_whitelist: the enforcer is not told.
WhitelistRemove(w) ==
  /\ Ready("admin") /\ Request /\ w \in whitelist
  /\ whitelist' = whitelist \ {w}
  /\ UNCHANGED <<ban, firewall, up, locks, job, history>>

-----------------------------------------------------------------------------
(* cluster.rs, apply_bans: both locks, then the records one by one.        *)

apply_bans(records) ==
  /\ Ready("cluster") /\ Request
  /\ state_lock' = "cluster"
  /\ Goto("cluster", Job("wait", "batch", AnyNet, {}, records))
  /\ UNCHANGED <<store, firewall, up, enf_lock, history>>

\* remote_changes_state: no ban contains the subject's address, or the most
\* specific one that does is the subject's own.
RemoteChanges(n) ==
  LET hits == {m \in Nets : ban[m] # "none" /\ contains(m, n.addr)}
  IN  hits = {} \/ (n \in hits /\ \A m \in hits : m.len <= n.len)

remote_stored(n) ==
  /\ job["cluster"].at = "batch" /\ n \in job["cluster"].rest
  /\ ~overlaps(whitelist, n) /\ RemoteChanges(n)
  /\ ban' = [ban EXCEPT ![n] = "live"]
  /\ Goto("cluster", Job("exec", "apply", n, desired_bans \cup {n}, job["cluster"].rest \ {n}))
  /\ NoFault /\ UNCHANGED <<whitelist, firewall, up, locks, history>>

\* The policy, a revocation, a newer ban or the log keeps the record out.
remote_skipped(n) ==
  /\ job["cluster"].at = "batch" /\ n \in job["cluster"].rest
  /\ Goto("cluster", [job["cluster"] EXCEPT !.rest = @ \ {n}])
  /\ NoFault /\ UNCHANGED <<store, firewall, up, locks, history>>

remote_done ==
  /\ job["cluster"].at = "batch" /\ job["cluster"].rest = {}
  /\ state_lock' = "free" /\ enf_lock' = "free" /\ Goto("cluster", Idle)
  /\ NoFault /\ UNCHANGED <<store, firewall, up, history>>

-----------------------------------------------------------------------------
(* ban_expiry_task, every 60 s.                                            *)

\* Mutant of expiry_tick: the state is unlocked before the firewall is synced.
expiry_tick_unlocks ==
  /\ Ready("expiry") /\ NoFault
  /\ ban' = [n \in Nets |-> IF ban[n] = "expired" THEN "none" ELSE ban[n]]
  /\ Goto("expiry", Syncing(Desired(ban, whitelist)))
  /\ UNCHANGED <<whitelist, firewall, up, locks, history>>

\* Mutant of expiry_tick: the firewall is left alone when nothing expired.
expiry_tick_if_expired ==
  /\ Ready("expiry") /\ NoFault
  /\ ban' = [n \in Nets |-> IF ban[n] = "expired" THEN "none" ELSE ban[n]]
  /\ IF ban' = ban THEN UNCHANGED <<state_lock, job>>
     ELSE state_lock' = "expiry" /\ Goto("expiry", Syncing(Desired(ban, whitelist)))
  /\ UNCHANGED <<whitelist, firewall, up, enf_lock, history>>

\* The expired bans leave the store, except those whose removal the log failed to
\* take; what is live and not whitelisted goes to the firewall, always.
expiry_tick ==
  /\ Ready("expiry")
  /\ \E kept \in SUBSET {n \in Nets : ban[n] = "expired"} :
       /\ IF kept = {} THEN NoFault ELSE Fault
       /\ ban' = [n \in Nets |-> IF ban[n] = "expired" /\ n \notin kept THEN "none" ELSE ban[n]]
  /\ state_lock' = "expiry" /\ Goto("expiry", Syncing(Desired(ban, whitelist)))
  /\ UNCHANGED <<whitelist, firewall, up, enf_lock, history>>

-----------------------------------------------------------------------------
(* NftablesEnforcer, under the enforcer lock.                              *)

\* Mutant of Wanted: removing a network removes the narrower bans inside it.
Wanted_cuts(j) ==
  CASE j.op = "apply"  -> desired_bans \cup {j.net}
    [] j.op = "remove" -> {n \in desired_bans : ~net_covers(j.net, n)}
    [] OTHER           -> j.want

\* The set apply_ban, remove_ban and sync_full write.
Wanted(j) ==
  CASE j.op = "apply"  -> desired_bans \cup {j.net}
    [] j.op = "remove" -> desired_bans \ {j.net}
    [] OTHER           -> j.want

lock_enforcer(t) ==
  /\ job[t].at = "wait" /\ enf_lock = "free"
  /\ enf_lock' = t
  /\ Goto(t, IF job[t].op = "batch" THEN [job[t] EXCEPT !.at = "batch"]
             ELSE [job[t] EXCEPT !.at = "exec", !.want = Wanted(job[t])])
  /\ NoFault /\ UNCHANGED <<store, firewall, up, state_lock, history>>

\* nft returned to task t: the cluster task goes on under both locks, an import
\* under the state lock, the others are done.
Returns(t) ==
  LET more == t = "admin" /\ job[t].rest # {}
  IN  /\ Goto(t, IF t = "cluster" \/ more THEN [job[t] EXCEPT !.at = "batch", !.want = {}] ELSE Idle)
      /\ enf_lock' = IF t = "cluster" THEN t ELSE "free"
      /\ state_lock' = IF state_lock = t /\ ~(t = "cluster" \/ more) THEN "free" ELSE state_lock

\* The whole batch took effect, then the cache advances.
sync_ok(t) ==
  /\ job[t].at = "exec"
  /\ kernel' = dedup_overlapping(job[t].want) /\ desired_bans' = job[t].want
  /\ Returns(t)
  /\ unsure' = FALSE
  /\ owed' = IF job[t].op = "sync" THEN {n \in Live(ban) : overlaps(whitelist, n)}
             ELSE owed \ {job[t].net}
  /\ stray' = CASE job[t].op = "sync" -> {}
                [] job[t].op = "apply" /\ ban[job[t].net] = "none" -> stray \cup {job[t].net}
                [] OTHER -> stray \ {job[t].net}
  /\ NoFault /\ UNCHANGED <<store, up>>

\* nft failed and rolled back, or (late) took effect and was reported as timed
\* out: the cache stays.
sync_failed(t, late) ==
  /\ job[t].at = "exec" /\ Fault
  /\ kernel' = IF late THEN dedup_overlapping(job[t].want) ELSE kernel
  /\ Returns(t)
  /\ unsure' = (unsure \/ late)
  /\ owed' = owed \cup (job[t].want \ desired_bans)
  /\ stray' = stray \cup (desired_bans \ job[t].want)
  /\ UNCHANGED <<store, desired_bans, up>>

-----------------------------------------------------------------------------
(* The world outside, start-up and crashes.                                *)

expire(n) ==
  /\ ban[n] = "live"
  /\ ban' = [ban EXCEPT ![n] = "expired"]
  /\ NoFault /\ UNCHANGED <<whitelist, firewall, up, locks, job, history>>

\* Somebody flushes the sets.
drift ==
  /\ Fault
  /\ kernel' = {} /\ unsure' = TRUE
  /\ UNCHANGED <<store, desired_bans, up, locks, job, owed, stray>>

\* The process ends, an nft it started may still finish.
crash ==
  /\ up /\ Fault
  /\ kernel' \in {kernel} \cup {dedup_overlapping(job[t].want) : t \in {t \in Tasks : job[t].at = "exec"}}
  /\ up' = FALSE
  /\ state_lock' = "free" /\ enf_lock' = "free" /\ job' = [t \in Tasks |-> Idle]
  /\ UNCHANGED <<store, desired_bans, history>>

\* main.rs: setup reads the kernel into the cache; apply_config_whitelist,
\* then the live bans that remain go to the firewall.
start ==
  LET wl == whitelist \cup ConfigNets
      b  == [n \in Nets |-> IF overlaps(wl, n) THEN "none" ELSE ban[n]]
  IN  /\ ~up /\ up' = TRUE
      /\ whitelist' = wl /\ ban' = b
      /\ desired_bans' = Live(b) /\ kernel' = dedup_overlapping(Live(b))
      /\ owed' = {} /\ stray' = {} /\ unsure' = FALSE
      /\ NoFault /\ UNCHANGED <<locks, job>>

\* A step of it fails and the process exits: part of the whitelist is stored,
\* part of the bans it overlaps are gone, the firewall is as it was.
start_failed ==
  /\ ~up /\ Fault
  /\ \E new \in SUBSET ConfigNets :
       LET wl == whitelist \cup new
       IN  \E gone \in SUBSET {n \in Nets : ban[n] # "none" /\ overlaps(wl, n)} :
             /\ whitelist' = wl
             /\ ban' = [n \in Nets |-> IF n \in gone THEN "none" ELSE ban[n]]
  /\ desired_bans' = kernel
  /\ UNCHANGED <<kernel, up, locks, job, history>>

-----------------------------------------------------------------------------
Next ==
  \/ \E n \in Nets : pipeline_check(n)
  \/ admit_added
  \/ admit_skipped
  \/ \E list \in (SUBSET Nets) \ {{}} : Ban(list)
  \/ \E n \in Nets : ban_stored(n)
  \/ \E n \in Nets : ban_refused(n)
  \/ \E n \in Nets : Unban(n)
  \/ \E w \in WlNets : WhitelistAdd(w)
  \/ \E w \in WlNets : WhitelistAdd_failed(w)
  \/ \E w \in WlNets : WhitelistRemove(w)
  \/ \E records \in (SUBSET Nets) \ {{}} : apply_bans(records)
  \/ \E n \in Nets : remote_stored(n)
  \/ \E n \in Nets : remote_skipped(n)
  \/ remote_done
  \/ expiry_tick
  \/ \E t \in Tasks : lock_enforcer(t)
  \/ \E t \in Tasks : sync_ok(t)
  \/ \E t \in Tasks, late \in BOOLEAN : sync_failed(t, late)
  \/ \E n \in Nets : expire(n)
  \/ drift
  \/ crash
  \/ start
  \/ start_failed

\* The supervisor restarts the daemon, the tasks are scheduled, a started nft
\* ends (it has a deadline), a mutex is handed on, and the 60 s timer ticks.
Fairness ==
  /\ WF_vars(start) /\ WF_vars(expiry_tick)
  /\ \A t \in Tasks : WF_vars(lock_enforcer(t)) /\ WF_vars(sync_ok(t))
  /\ WF_vars(\E n \in Nets : ban_stored(n) \/ ban_refused(n))
  /\ WF_vars(remote_done \/ \E n \in Nets : remote_stored(n) \/ remote_skipped(n))

Spec == Init /\ [][Next]_vars /\ Fairness

-----------------------------------------------------------------------------
(* Properties.                                                             *)

\* The locks are held by who works under them, the sets hold networks.
TypeOK ==
  /\ ban \in [Nets -> {"none", "live", "expired"}]
  /\ whitelist \subseteq WlNets \cup ConfigNets
  /\ desired_bans \subseteq Nets /\ kernel \subseteq Nets
  /\ state_lock \in Tasks \cup {"free"} /\ enf_lock \in Tasks \cup {"free"}
  /\ \A t \in Tasks : job[t].at = "exec" => enf_lock = t
  /\ up \in BOOLEAN /\ unsure \in BOOLEAN /\ owed \subseteq Nets /\ stray \subseteq Nets

\* A task is on its way to the enforcer with n.
Carries(t, n) == job[t].at \in {"wait", "exec"} /\ job[t].op = "apply" /\ job[t].net = n
Drops(t, n) ==
  /\ job[t].at \in {"wait", "exec"}
  /\ \/ job[t].op = "remove" /\ job[t].net = n
     \/ job[t].op = "sync" /\ n \notin job[t].want

\* No live ban silently fails to be enforced, whatever the tasks do at the same
\* time (the comment of ban_expiry_task: "Holding state through sync prevents an
\* older snapshot overwriting a new ban"): its addresses are dropped by the
\* kernel, or a task still carries it, or an nft or whitelist failure since the
\* last full sync kept it out.
NoBanUnenforced ==
  up => \A n \in Desired(ban, whitelist) :
          \/ Block(n) \subseteq Blocked(kernel)
          \/ n \in owed \/ unsure
          \/ \E t \in Tasks : Carries(t, n)

\* The firewall drops nothing without a cause: what the enforcer believes is
\* applied is a stored ban, or on its way out, or one of the recorded ways a
\* ban can outlive its record in the firewall (apply after an unban, a failed
\* removal); and the kernel agrees with that belief about every address.
NothingBlockedWithoutCause ==
  up => /\ \A n \in desired_bans :
             ban[n] # "none" \/ n \in stray \/ \E t \in Tasks : Drops(t, n)
        /\ unsure \/ Blocked(kernel) = Blocked(desired_bans)

\* "this repairs failed apply/remove and external firewall drift"
\* (ban_expiry_task): once requests and failures stop, the kernel drops the
\* addresses of the live bans and no other, for good.
EventuallyExact == <>[](up /\ Blocked(kernel) = Blocked(Desired(ban, whitelist)))

\* "the bans it now covers are revoked from the store (and from the firewall, if
\* a live enforcer is supplied)" (whitelist_sync.rs): while no request is being
\* served, nothing the firewall holds overlaps the whitelist.
WhitelistedNotBlocked ==
  up /\ state_lock = "free" => \A n \in desired_bans : ~overlaps(whitelist, n)
=============================================================================
