------------------------------- MODULE Upgrade -------------------------------
(***************************************************************************)
(* The guarded upgrade of an installed node (scripts/upgrade/upgrade.py),  *)
(* the offline state checker it calls (hiveguard-upgrade-check.rs) and the *)
(* isolated rehearsal (simulate.py).                                       *)
(*                                                                         *)
(* The installer process runs one step at a time; any step may raise, and  *)
(* the process may be killed between two of them.  A guardian unit, armed  *)
(* before the service is first stopped, fires at any later moment.  The    *)
(* installer's exception handler, the guardian and an operator all run the *)
(* same `rollback`, one at a time: each holds the deployment lock.         *)
(***************************************************************************)
EXTENDS Integers, Sequences, FiniteSets

CONSTANTS
  Subjects,     \* subjects a ban may name
  Ssh,          \* the subject of the operator's own address
  MaxBans,      \* bound: bans the daemon adds while the upgrade runs
  MaxFaults     \* bound: raised exceptions and kills of the installer

VARIABLES
  binary,       \* the installed executable: "old" or "new"
  service,      \* "stopped", or the executable that runs, or "failed"
  data,         \* the database files: snapshot, WAL, and whether they decode
  kernel,       \* the managed nftables table
  config,       \* does config.yaml use the prerouting_hook key
  markers,      \* durable marker files of the backup directory
  backup,       \* data.before; the bans the socket last listed; is it complete
  inst,         \* step of the installer process
  timer,        \* the guardian: "none", "armed", "check", "stop", "off"
  rb,           \* the rollback in progress: who runs it, its step, its export
  defect,       \* what is wrong with the new executable in production
  unbanned,     \* history: bans an operator removed since the upgrade began
  gaveUp,       \* history: a rollback raised
  added, faults,\* bounds
  fresh, present, owned, enabled  \* the first installation of another host

upgrade_vars == <<binary, service, data, kernel, config, markers, backup, inst, timer,
                  rb, defect, unbanned, gaveUp, added, faults>>
fresh_vars == <<fresh, present, owned, enabled>>

ASSUME UpgradeAssumption == Ssh \in Subjects

(***************************************************************************)
(* The state checker.  A ban is its lifetime, 0 for none.                  *)
(***************************************************************************)
EffectiveState ==
  [bans : [Subjects -> 0..2], peer : SUBSET Subjects, whitelist : SUBSET Subjects,
   crdt : [Subjects -> {"none", "live", "tomb"}], revocations : SUBSET Subjects]

\* One WAL entry applied; a CRDT record in the WAL is the merged one.
Apply(st, e) ==
  CASE e.op = "AddBan" -> [st EXCEPT !.bans[e.s] = e.life,
                              !.peer = IF e.peer THEN @ \union {e.s} ELSE @ \ {e.s}]
    [] e.op = "RemoveBan" -> [st EXCEPT !.bans[e.s] = 0]
    [] e.op = "RevokeBan" -> [st EXCEPT !.bans[e.s] = 0, !.revocations = @ \union {e.s}]
    [] e.op = "AddWhitelist" -> [st EXCEPT !.whitelist = @ \union {e.s}]
    [] e.op = "RemoveWhitelist" -> [st EXCEPT !.whitelist = @ \ {e.s}]
    [] e.op = "AddCrdtBan" -> [st EXCEPT !.crdt[e.s] = "live"]
    [] e.op = "TombstoneCrdtBan" ->
         [st EXCEPT !.crdt[e.s] = IF @ = "none" THEN "none" ELSE "tomb"]

materialize(snapshot, entries) ==
  LET upto[n \in 0..Len(entries)] == IF n = 0 THEN snapshot ELSE Apply(upto[n - 1], entries[n])
  IN  upto[Len(entries)]

Banned(st) == {s \in Subjects : st.bans[s] > 0}

\* V3 has no place for revocations: they go to a side file.
export_legacy(st) == [snap |-> [st EXCEPT !.revocations = {}], wal |-> <<>>, ok |-> TRUE]

\* Two restarts and snapshots of a copy must leave every record as it was.
check_roundtrip(d) ==
  materialize(d.snap, d.wal) = materialize(materialize(d.snap, d.wal), <<>>)

\* The report of the checker on a copy nobody writes to.
inspect(d) ==
  LET st == materialize(d.snap, d.wal) IN
  [ok |-> d.ok /\ check_roundtrip(d) /\ Banned(st) \cap st.whitelist = {}
                                     /\ Ssh \notin Banned(st),
   state |-> st, ssh_whitelisted |-> Ssh \in st.whitelist]

verify(d, with_config) == inspect(d).ok /\ (with_config => inspect(d).ssh_whitelisted)

\* Every ban kept with its lifetime; one relayed by a peer may be shortened.
assert_preserved(before, after) ==
  \A s \in Banned(before) : \/ after.bans[s] >= before.bans[s]
                            \/ s \in before.peer /\ after.bans[s] > 0

(***************************************************************************)
(* The managed table: sets, chains with one drop rule per set, elements.   *)
(***************************************************************************)
inspect_nft(t, exactly_six, allow_incomplete, prerouting) ==
  /\ ~t.foreign
  /\ allow_incomplete \/ (t.complete /\ "input" \in t.chains)
  /\ exactly_six => ~t.duplicates
  /\ prerouting = "any" \/ (prerouting = "on") = ("prerouting" \in t.chains)

assert_coverage(st, t) == Banned(st) \subseteq t.nets

assert_no_orphans(st, t) == t.nets \subseteq Banned(st)

config_prerouting(c) == IF c THEN "on" ELSE "off"

\* One transaction: the input layout with every active ban and what was there.
firewall_restore(st, t) ==
  [nets |-> Banned(st) \union t.nets, chains |-> {"input"}, complete |-> TRUE,
   duplicates |-> FALSE, foreign |-> FALSE]

\* What a daemon makes of the table at startup: a full sync of its own bans.
Synced(st, version) ==
  [nets |-> Banned(st), complete |-> TRUE, duplicates |-> FALSE, foreign |-> kernel.foreign,
   chains |-> {"input"} \union (IF config /\ version = "new" THEN {"prerouting"} ELSE {})]

\* The rehearsal in a network namespace of its own, on a clone of the state:
\* the daemon must cover every ban, stop cleanly and leave the records alone.
\* It sees the defects that do not depend on the production host.
execute(d) == inspect(d).ok /\ ~(defect.kind # "none" /\ defect.visible)

(***************************************************************************)
(* The daemon (external): what a start of an executable does.              *)
(***************************************************************************)
Current == materialize(data.snap, data.wal)

Victim == CHOOSE s \in Subjects : Current.bans[s] = 2 \/ \A t \in Subjects : Current.bans[t] < 2

\* Recovery, a snapshot with an empty WAL, and the firewall sync.  The old
\* executable refuses a configuration with the key it does not know.
Started(version) ==
  IF version = "old" /\ config THEN service' = "failed" /\ UNCHANGED <<data, kernel>>
  ELSE LET bad == IF version = "new" THEN defect.kind ELSE "none"
           st == CASE bad = "loses" -> [Current EXCEPT !.bans[Victim] = 0]
                   [] bad = "shortens" -> [Current EXCEPT !.bans[Victim] = IF @ = 2 THEN 1 ELSE @]
                   [] OTHER -> Current
       IN /\ service' = IF bad = "crashes" THEN "failed" ELSE version
          /\ data' = [snap |-> st, wal |-> <<>>, ok |-> bad # "damages"]
          /\ kernel' = Synced(st, version)

Running == service \in {"old", "new"}

\* The daemon logs an operation of its own or of its operator.
Logged ==
  {[op |-> "AddBan", s |-> s, life |-> 2, peer |-> p] :
     s \in {t \in Subjects \ Current.whitelist : Current.bans[t] = 0}, p \in BOOLEAN}
  \union {[op |-> "RevokeBan", s |-> s] : s \in Banned(Current)}
  \union {[op |-> "AddCrdtBan", s |-> s] : s \in {t \in Banned(Current) : Current.crdt[t] = "none"}}
  \union {[op |-> "TombstoneCrdtBan", s |-> s] : s \in {t \in Subjects : Current.crdt[t] = "live"}}

DaemonLog(e) ==
  /\ Running /\ added < MaxBans
  /\ data' = [data EXCEPT !.wal = Append(@, e)]
  /\ unbanned' = IF e.op = "RevokeBan" THEN unbanned \union {e.s} ELSE unbanned
  /\ kernel' = IF e.op = "RevokeBan" THEN [kernel EXCEPT !.nets = @ \ {e.s}] ELSE kernel
  /\ added' = added + 1
  /\ UNCHANGED <<binary, service, config, markers, backup, inst, timer, rb, defect, gaveUp, faults>>

\* The enforcer applies a queued ban after the state has it.
DaemonEnforce ==
  /\ Running /\ ~assert_coverage(Current, kernel)
  /\ kernel' = [kernel EXCEPT !.nets = @ \union Banned(Current)]
  /\ UNCHANGED <<binary, service, data, config, markers, backup, inst, timer, rb, defect, unbanned, gaveUp, added, faults>>

\* An administrator adds a rule of their own to the managed table.
ForeignRule ==
  /\ ~kernel.foreign /\ faults < MaxFaults
  /\ kernel' = [kernel EXCEPT !.foreign = TRUE]
  /\ faults' = faults + 1
  /\ UNCHANGED <<binary, service, data, config, markers, backup, inst, timer, rb, defect, unbanned, gaveUp, added>>

\* After a committed upgrade the operator turns the new key on and restarts.
SetPrerouting ==
  /\ inst = "done" /\ rb.pc = "off" /\ service = "new" /\ ~config
  /\ config' = TRUE /\ kernel' = [kernel EXCEPT !.chains = {"input", "prerouting"}]
  /\ UNCHANGED <<binary, service, data, markers, backup, inst, timer, rb, defect, unbanned, gaveUp, added, faults>>

(***************************************************************************)
(* The installer.  A step whose checks fail raises; so may any other step. *)
(***************************************************************************)
Env == UNCHANGED <<config, defect, unbanned, added>>
Baseline == materialize(backup.data.snap, backup.data.wal)

\* Everything preflight reads must pass before anything is changed.
preflight_ok ==
  /\ service = "old" /\ verify(data, TRUE)
  /\ inspect_nft(kernel, FALSE, FALSE, "any")
  /\ assert_no_orphans(Current, kernel)
  /\ execute(data)

preflight ==
  /\ inst = "preflight" /\ preflight_ok
  /\ inst' = "arm"
  /\ UNCHANGED <<binary, service, data, kernel, markers, backup, timer, rb, faults>> /\ Env /\ UNCHANGED gaveUp

\* The guardian is armed before the service is first stopped.
arm_guardian_failed ==
  /\ inst = "arm"
  /\ backup' = [backup EXCEPT !.live = Current]
  /\ inst' = "stop"
  /\ UNCHANGED <<binary, service, data, kernel, markers, timer, rb, faults>> /\ Env /\ UNCHANGED gaveUp
arm_guardian ==
  /\ inst = "arm"
  /\ backup' = [backup EXCEPT !.live = Current]
  /\ timer' = "armed" /\ inst' = "stop"
  /\ UNCHANGED <<binary, service, data, kernel, markers, rb, faults>> /\ Env /\ UNCHANGED gaveUp

\* The stopping daemon folds its WAL into the snapshot.
stop_service ==
  /\ service' = "stopped"
  /\ data' = IF Running THEN [data EXCEPT !.snap = Current, !.wal = <<>>] ELSE data

install_stop ==
  /\ inst = "stop" /\ stop_service /\ inst' = "backup"
  /\ UNCHANGED <<binary, kernel, markers, backup, timer, rb, faults>> /\ Env /\ UNCHANGED gaveUp

backup_ok ==
  /\ verify(data, TRUE)
  /\ assert_preserved(backup.live, Current)
  /\ inspect_nft(kernel, FALSE, FALSE, "any")
  /\ assert_no_orphans(Current, kernel)

copy_backup ==
  /\ inst = "backup" /\ backup_ok
  /\ backup' = [backup EXCEPT !.data = data, !.complete = TRUE]
  /\ inst' = "ready"
  /\ UNCHANGED <<binary, service, data, kernel, markers, timer, rb, faults>> /\ Env /\ UNCHANGED gaveUp

\* The durable marker comes before the first replacement.
mark_ready_later ==
  /\ inst = "ready" /\ inst' = "replace"
  /\ UNCHANGED <<binary, service, data, kernel, markers, backup, timer, rb, faults>> /\ Env /\ UNCHANGED gaveUp
mark_ready ==
  /\ inst = "ready"
  /\ markers' = markers \union {"rollback-ready"} /\ inst' = "replace"
  /\ UNCHANGED <<binary, service, data, kernel, backup, timer, rb, faults>> /\ Env /\ UNCHANGED gaveUp

replace_binary ==
  /\ inst = "replace"
  /\ binary' = "new" /\ inst' = "start"
  /\ UNCHANGED <<service, data, kernel, markers, backup, timer, rb, faults>> /\ Env /\ UNCHANGED gaveUp

start_new ==
  /\ inst = "start" /\ Started("new") /\ inst' = "observe"
  /\ UNCHANGED <<binary, markers, backup, timer, rb, faults>> /\ Env /\ UNCHANGED gaveUp

observe_ok ==
  /\ service = "new"
  /\ assert_preserved(Baseline, Current)
  /\ inspect_nft(kernel, TRUE, FALSE, config_prerouting(config))
  /\ assert_coverage(Current, kernel)

\* One of the observations of the running daemon, or the last of them.
observe ==
  /\ inst = "observe" /\ observe_ok
  /\ backup' = [backup EXCEPT !.live = Current]
  /\ inst' \in {"observe", "persisted"}
  /\ UNCHANGED <<binary, service, data, kernel, markers, timer, rb, faults>> /\ Env /\ UNCHANGED gaveUp

persisted_ok ==
  verify(data, TRUE) /\ assert_preserved(Baseline, Current) /\ assert_preserved(backup.live, Current)

check_persisted ==
  /\ inst = "persisted" /\ persisted_ok
  /\ inst' = "commit"
  /\ UNCHANGED <<binary, service, data, kernel, markers, backup, timer, rb, faults>> /\ Env /\ UNCHANGED gaveUp

\* Cancelling the timer may fail: its callback looks for the marker.
commit ==
  /\ inst = "commit"
  /\ markers' = markers \union {"committed"} /\ inst' = "cancel"
  /\ UNCHANGED <<binary, service, data, kernel, backup, timer, rb, faults>> /\ Env /\ UNCHANGED gaveUp

cancel_timer ==
  /\ inst = "cancel"
  /\ timer' \in {timer, IF timer = "armed" THEN "off" ELSE timer}
  /\ inst' = "done"
  /\ UNCHANGED <<binary, service, data, kernel, markers, backup, rb, faults>> /\ Env /\ UNCHANGED gaveUp

Steps == {"preflight", "arm", "stop", "backup", "ready", "replace", "start", "observe",
          "persisted", "commit", "cancel"}
Alive == inst \in Steps \union {"rollback"}

\* Before the try block the exception just ends the process; before the first
\* replacement the handler starts the old service; after it, it rolls back.
raise(fault) ==
  /\ inst \in Steps \ {"cancel"}
  /\ \/ /\ \/ inst = "preflight" /\ ~preflight_ok
           \/ inst = "backup" /\ ~backup_ok
           \/ inst = "observe" /\ ~observe_ok
           \/ inst = "persisted" /\ ~persisted_ok
        /\ ~fault /\ UNCHANGED faults
     \/ fault /\ faults < MaxFaults /\ faults' = faults + 1
  /\ \/ /\ inst \in {"preflight", "arm"}
        /\ inst' = "failed" /\ UNCHANGED <<service, data, kernel, rb>>
     \/ /\ inst \in {"stop", "backup", "ready"}
        /\ inst' = "failed" /\ UNCHANGED rb
        /\ IF Running THEN UNCHANGED <<service, data, kernel>> ELSE Started("old")
     \/ /\ inst \in {"replace", "start", "observe", "persisted", "commit"}
        /\ inst' = "rollback" /\ rb' = [rb EXCEPT !.who = "installer", !.pc = "check"]
        /\ UNCHANGED <<service, data, kernel>>
  /\ UNCHANGED <<binary, markers, backup, timer>> /\ Env /\ UNCHANGED gaveUp

\* The unit is killed: no handler runs, and its rollback stops half-way.
Killed == /\ inst' = IF Alive THEN "killed" ELSE inst
          /\ rb' = IF rb.who = "installer" THEN [rb EXCEPT !.who = "none", !.pc = "off"] ELSE rb

kill ==
  /\ Alive /\ faults < MaxFaults /\ faults' = faults + 1 /\ Killed
  /\ UNCHANGED <<binary, service, data, kernel, markers, backup, timer>> /\ Env /\ UNCHANGED gaveUp

(***************************************************************************)
(* The guardian: looks for a verdict, stops the installer, takes the lock. *)
(***************************************************************************)
Verdict == markers \cap {"committed", "rolled-back"} # {}

guardian_fires ==
  /\ timer = "armed"
  /\ timer' = IF Verdict THEN "off" ELSE "stop"
  /\ UNCHANGED <<binary, service, data, kernel, markers, backup, inst, rb, faults>> /\ Env /\ UNCHANGED gaveUp

guardian_stops ==
  /\ timer = "stop" /\ timer' = "lock" /\ Killed
  /\ UNCHANGED <<binary, service, data, kernel, markers, backup, faults>> /\ Env /\ UNCHANGED gaveUp

LockFree == ~Alive /\ rb.pc = "off"

guardian_locks ==
  /\ timer = "lock" /\ LockFree
  /\ timer' = "running" /\ rb' = [rb EXCEPT !.who = "guardian", !.pc = "check"]
  /\ UNCHANGED <<binary, service, data, kernel, markers, backup, inst, faults>> /\ Env /\ UNCHANGED gaveUp

operator_rollback ==
  /\ LockFree /\ inst \in {"done", "killed"} /\ faults < MaxFaults /\ faults' = faults + 1
  /\ rb' = [rb EXCEPT !.who = "operator", !.pc = "check"]
  /\ UNCHANGED <<binary, service, data, kernel, markers, backup, inst, timer>> /\ Env /\ UNCHANGED gaveUp

(***************************************************************************)
(* rollback: the same steps whoever runs it.                               *)
(***************************************************************************)
Ended == /\ rb' = [rb EXCEPT !.who = "none", !.pc = "off"]
         /\ inst' = IF rb.who = "installer" THEN "failed" ELSE inst
         /\ timer' = IF rb.who = "guardian" THEN "off" ELSE timer

Goto(pc) == rb' = [rb EXCEPT !.pc = pc] /\ UNCHANGED <<inst, timer>>

\* Looked at again under the lock: the verdict may have come meanwhile.
nothing_to_do_stale == "rolled-back" \in markers
nothing_to_do ==
  "rolled-back" \in markers \/ (rb.who = "guardian" /\ "committed" \in markers)

\* Nothing to do, nothing replaced yet, or a rollback of an accepted config.
rollback_check ==
  /\ rb.pc = "check"
  /\ \/ /\ nothing_to_do /\ Ended /\ UNCHANGED <<service, data, kernel>>
     \/ /\ ~nothing_to_do /\ "rollback-ready" \notin markers /\ binary = "old"
        /\ Ended /\ (IF Running THEN UNCHANGED <<service, data, kernel>> ELSE Started("old"))
     \/ /\ ~nothing_to_do /\ "rollback-ready" \in markers /\ ~config
        /\ Goto("stop") /\ UNCHANGED <<service, data, kernel>>
  /\ UNCHANGED <<binary, markers, backup, faults>> /\ Env /\ UNCHANGED gaveUp

rollback_stop ==
  /\ rb.pc = "stop" /\ stop_service /\ Goto("export")
  /\ UNCHANGED <<binary, kernel, markers, backup, faults>> /\ Env /\ UNCHANGED gaveUp

\* The current state if it decodes and kept the baseline, else the baseline.
rollback_export ==
  /\ rb.pc = "export"
  /\ LET usable == verify(data, FALSE) /\ assert_preserved(Baseline, Current)
     IN rb' = [rb EXCEPT !.pc = "inspect",
                         !.export = export_legacy(IF usable THEN Current ELSE Baseline)]
  /\ UNCHANGED <<binary, service, data, kernel, markers, backup, inst, timer, faults>> /\ Env /\ UNCHANGED gaveUp

rollback_inspect ==
  /\ rb.pc = "inspect" /\ inspect_nft(kernel, FALSE, TRUE, "any") /\ Goto("snapshot")
  /\ UNCHANGED <<binary, service, data, kernel, markers, backup, faults>> /\ Env /\ UNCHANGED gaveUp

rollback_snapshot ==
  /\ rb.pc = "snapshot" /\ Goto("wal")
  /\ data' = [data EXCEPT !.snap = rb.export.snap, !.ok = data.ok \/ data.wal = <<>>]
  /\ UNCHANGED <<binary, service, kernel, markers, backup, faults>> /\ Env /\ UNCHANGED gaveUp

rollback_wal ==
  /\ rb.pc = "wal" /\ Goto("binary")
  /\ data' = rb.export
  /\ UNCHANGED <<binary, service, kernel, markers, backup, faults>> /\ Env /\ UNCHANGED gaveUp

rollback_binary ==
  /\ rb.pc = "binary" /\ Goto("firewall") /\ binary' = "old"
  /\ UNCHANGED <<service, data, kernel, markers, backup, faults>> /\ Env /\ UNCHANGED gaveUp

rollback_firewall ==
  /\ rb.pc = "firewall" /\ Goto("start")
  /\ kernel' = firewall_restore(rb.export.snap, kernel)
  /\ UNCHANGED <<binary, service, data, markers, backup, faults>> /\ Env /\ UNCHANGED gaveUp

rollback_start ==
  /\ rb.pc = "start" /\ Started("old") /\ Goto("confirm")
  /\ UNCHANGED <<binary, markers, backup, faults>> /\ Env /\ UNCHANGED gaveUp

rollback_confirm ==
  /\ rb.pc = "confirm"
  /\ service = "old" /\ assert_preserved(rb.export.snap, Current)
  /\ inspect_nft(kernel, FALSE, FALSE, "any") /\ assert_coverage(rb.export.snap, kernel)
  /\ markers' = markers \union {"rolled-back"} /\ Ended
  /\ UNCHANGED <<binary, service, data, kernel, backup, faults>> /\ Env /\ UNCHANGED gaveUp

\* A configuration the old executable rejects refuses the rollback before the
\* service is stopped, a foreign rule after it.
rollback_raise(fault) ==
  /\ rb.pc # "off"
  /\ \/ /\ \/ rb.pc \in {"inspect", "confirm"} /\ kernel.foreign
           \/ rb.pc = "check" /\ "rollback-ready" \in markers /\ config
        /\ ~fault /\ UNCHANGED faults
     \/ fault /\ faults < MaxFaults /\ faults' = faults + 1
  /\ Ended /\ gaveUp' = TRUE
  /\ UNCHANGED <<binary, service, data, kernel, markers, backup>> /\ Env

(***************************************************************************)
(* The specification.                                                      *)
(***************************************************************************)
UpgradeInit ==
  /\ binary = "old" /\ service = "old" /\ config = FALSE
  /\ \E bans \in [Subjects -> 0..2], peer \in SUBSET Subjects :
       /\ bans[Ssh] = 0
       /\ data = [snap |-> [bans |-> bans, peer |-> peer \cap {s \in Subjects : bans[s] > 0},
                            whitelist |-> {Ssh}, crdt |-> [s \in Subjects |-> "none"],
                            revocations |-> {}],
                  wal |-> <<>>, ok |-> TRUE]
  /\ kernel = [nets |-> Banned(data.snap), complete |-> TRUE, duplicates |-> FALSE,
               foreign |-> FALSE, chains |-> {"input"}]
  /\ markers = {} /\ inst = "preflight" /\ timer = "none"
  /\ backup = [data |-> data, live |-> data.snap, complete |-> FALSE]
  /\ rb = [who |-> "none", pc |-> "off", export |-> data]
  /\ defect \in [kind : {"none", "loses", "shortens", "crashes", "damages"}, visible : BOOLEAN]
  /\ unbanned = {} /\ gaveUp = FALSE /\ added = 0 /\ faults = 0

Install == \/ preflight \/ arm_guardian \/ install_stop \/ copy_backup \/ mark_ready
           \/ replace_binary \/ start_new \/ observe \/ check_persisted \/ commit
           \/ cancel_timer
Guardian == guardian_fires \/ guardian_stops \/ guardian_locks
Rollback == \/ rollback_check \/ rollback_stop \/ rollback_export \/ rollback_inspect
            \/ rollback_snapshot \/ rollback_wal \/ rollback_binary
            \/ rollback_firewall \/ rollback_start \/ rollback_confirm

UpgradeNext ==
  \/ Install \/ (\E f \in BOOLEAN : raise(f)) \/ kill
  \/ Guardian \/ operator_rollback
  \/ Rollback \/ (\E f \in BOOLEAN : rollback_raise(f))
  \/ \E e \in Logged : DaemonLog(e)
  \/ DaemonEnforce \/ ForeignRule \/ SetPrerouting

\* The scripts take their steps, and a daemon drains its firewall queue.
UpgradeFairness ==
  /\ WF_upgrade_vars(Install) /\ WF_upgrade_vars(raise(FALSE)) /\ WF_upgrade_vars(Guardian)
  /\ WF_upgrade_vars(Rollback) /\ WF_upgrade_vars(rollback_raise(FALSE))
  /\ WF_upgrade_vars(DaemonEnforce)

(***************************************************************************)
(* Properties.                                                             *)
(***************************************************************************)
\* upgrade.py:497: no production file is replaced before the durable marker,
\* and the marker is written only once the backup is complete; files are
\* replaced only while the service is stopped.
ReplacedWithBackup ==
  /\ binary = "new" => "rollback-ready" \in markers
  /\ "rollback-ready" \in markers => backup.complete
  /\ rb.pc \in {"snapshot", "wal", "binary", "firewall"} => service = "stopped"

\* upgrade.py:495: the guardian never rolls back a committed upgrade, even when
\* the installer committed after the guardian had decided to act.
CommitFinal ==
  (rb.who = "guardian" /\ rb.pc \notin {"off", "check"}) => "committed" \notin markers

\* A verdict is earned: when "committed" or "rolled-back" is written, every ban
\* of the backup that no operator removed is in the database and in the kernel,
\* and the executable that the verdict names is the one that runs.
Kept == \A s \in Banned(Baseline) \ unbanned : Current.bans[s] > 0 /\ s \in kernel.nets
VerdictEarned ==
  [][/\ "committed" \in markers' \ markers => Kept /\ data.ok /\ service = "new"
     /\ "rolled-back" \in markers' \ markers => Kept /\ data.ok /\ service = "old"]_upgrade_vars

\* Once the installer goes on to stop the service the node ends with a running
\* service and either a committed upgrade or the old executable; unless a rollback itself raised (a
\* fault of its own, or a foreign rule in the managed table).
Settled == Running /\ ("committed" \in markers \/ binary = "old")
UpgradeSettles == (inst = "stop") ~> ([]Settled \/ gaveUp)

-----------------------------------------------------------------------------
(***************************************************************************)
(* The first installation (fresh_install.py), on a host of its own: it     *)
(* only ever creates, and another administrator may create the same paths. *)
(***************************************************************************)
Made == <<"account", "data", "etc", "binary", "unit">>
Paths == {Made[i] : i \in 1..5}

FreshInit == fresh = "check" /\ present \in SUBSET Paths /\ owned = {} /\ enabled = FALSE

absent == present = {}

\* The target checks and the rehearsal in a private directory and namespace.
fresh_check ==
  /\ fresh = "check" /\ absent
  /\ fresh' = "recheck" /\ UNCHANGED <<present, owned, enabled>>

fresh_recheck ==
  /\ fresh = "recheck" /\ absent
  /\ fresh' = "make" /\ UNCHANGED <<present, owned, enabled>>

\* useradd, mkdir and O_EXCL refuse what exists already.
fresh_make ==
  /\ fresh = "make" /\ Cardinality(owned) < Len(Made)
  /\ LET p == Made[Cardinality(owned) + 1] IN
     /\ p \notin present
     /\ present' = present \union {p} /\ owned' = owned \union {p}
  /\ UNCHANGED <<fresh, enabled>>

fresh_enable ==
  /\ fresh = "make" /\ owned = Paths
  /\ enabled' = TRUE /\ fresh' = "observe" /\ UNCHANGED <<present, owned>>

fresh_observe ==
  /\ fresh = "observe" /\ fresh' = "done" /\ UNCHANGED <<present, owned, enabled>>

\* Any step may raise: a unit that was written is disabled, files stay.
fresh_raise_left ==
  /\ fresh \in {"check", "recheck", "make", "observe"}
  /\ fresh' = "failed" /\ UNCHANGED <<present, owned, enabled>>
fresh_raise ==
  /\ fresh \in {"check", "recheck", "make", "observe"}
  /\ fresh' = "failed"
  /\ enabled' = IF "unit" \in owned THEN FALSE ELSE enabled
  /\ UNCHANGED <<present, owned>>

OtherAdmin(p) ==
  /\ p \notin present /\ fresh \notin {"done", "failed"}
  /\ present' = present \union {p} /\ UNCHANGED <<fresh, owned, enabled>>

FreshNext ==
  \/ fresh_check \/ fresh_recheck \/ fresh_make \/ fresh_enable \/ fresh_observe
  \/ fresh_raise \/ \E p \in Paths : OtherAdmin(p)

\* fresh_install.py:3: an existing installation always aborts: an installation
\* that finishes or enables the unit made every path itself, and one that
\* fails leaves no enabled service behind.
FreshOwnsAll ==
  /\ enabled \/ fresh = "done" => owned = Paths
  /\ fresh = "failed" => ~enabled

-----------------------------------------------------------------------------
(* The two side by side. *)

InstallInit == UpgradeInit /\ FreshInit
InstallNext == \/ UpgradeNext /\ UNCHANGED fresh_vars
               \/ FreshNext /\ UNCHANGED upgrade_vars
InstallSpec == InstallInit /\ [][InstallNext]_<<upgrade_vars, fresh_vars>>

(* upgrade.py, fresh_install.py: nothing is replaced before the backup is   *)
(* durable, no guardian undoes a committed upgrade, a verdict is written    *)
(* only when every ban survived, and a first installation owns what it made.*)
UpgradeSafe == [](ReplacedWithBackup /\ CommitFinal /\ FreshOwnsAll) /\ VerdictEarned
==============================================================================
