------------------------------- MODULE Control -------------------------------
(***************************************************************************)
(* The operator's way in: bans over the control socket and over REST, the  *)
(* import of fail2ban's bans by both (one request per ban over the socket, *)
(* all under one lock over REST), and the reading of fail2ban's jail       *)
(* files.  What a request does to the expiry of a ban is the subject here; *)
(* the locks and the firewall's retries are the subject of Enforcement.    *)
(***************************************************************************)
EXTENDS Integers, Sequences, FiniteSets, SequencesExt

CONSTANTS Ips, Jails,
          DEFAULT_BAN, \* the duration of a ban that names none
          MaxClock,    \* bound on the time
          MaxBans,     \* bound on the operator's own requests
          MaxFaults    \* bound on lost answers, failed appends and failing nft calls

Permanent == MaxClock + DEFAULT_BAN + MaxClock + 1
Never == 0

VARIABLES clock,
          bans,      \* subject -> the time its ban ends, Never, or Permanent
          protected, \* the whitelisted subjects
          rows,      \* fail2ban's table: jail, subject -> end, Never or Permanent
          job,       \* a running import: rows to send, and how each one ended
          asked, faults

control_vars == <<clock, bans, protected, rows, job, asked, faults>>

Row(j, i) == [jail |-> j, ip |-> i]
NoJob == [at |-> "idle", via |-> "none", from |-> {}, todo |-> {}, got |-> {},
          imported |-> 0, skipped |-> 0, errors |-> 0]

\* read_active_bans: the rows that are permanent or end later.
read_active_bans == {r \in DOMAIN rows : rows[r] = Permanent \/ rows[r] > clock}

ControlInit ==
  /\ clock = 1
  /\ bans \in [Ips -> {Never, 3, Permanent}]
  /\ protected \in SUBSET Ips /\ \A i \in protected : bans[i] = Never
  /\ rows \in [{Row(j, i) : j \in Jails, i \in Ips} -> {Never, 4, Permanent}]
  /\ job = NoJob /\ asked = 0 /\ faults = 0

Fault == faults < MaxFaults /\ faults' = faults + 1
NoFault == UNCHANGED faults

\* StateManager::add_ban: refused for a protected subject or when the log
\* cannot be appended to; otherwise it overwrites.  A later call of the
\* firewall may fail: the ban is stored all the same.
stored(i, end) ==
  i \notin protected /\ bans' = [bans EXCEPT ![i] = end]
refused(i) ==
  /\ IF i \in protected THEN NoFault ELSE Fault
  /\ UNCHANGED bans

\* The duration of ApiRequest::Ban: what it says, or 24 h when it says nothing.
ban_end(duration) ==
  CASE duration = "none" -> clock + DEFAULT_BAN
    [] duration = "permanent" -> Permanent
    [] OTHER -> clock + 1

\* ApiRequest::Ban and UiApiImpl::add_ban, from the operator.
Ban(i, duration) ==
  /\ asked < MaxBans /\ asked' = asked + 1
  /\ \/ stored(i, ban_end(duration)) /\ NoFault
     \/ refused(i)
  /\ UNCHANGED <<clock, protected, rows, job>>

\* ApiRequest::Unban and UiApiImpl::remove_ban.
Unban(i) ==
  /\ asked < MaxBans /\ asked' = asked + 1
  /\ bans[i] # Never /\ bans' = [bans EXCEPT ![i] = Never]
  /\ UNCHANGED <<clock, protected, rows, job, faults>>

\* Time passes; what ended is swept.
tick ==
  /\ clock < MaxClock /\ clock' = clock + 1
  /\ bans' = [i \in Ips |-> IF bans[i] <= clock' THEN Never ELSE bans[i]]
  /\ UNCHANGED <<protected, rows, job, asked, faults>>

-----------------------------------------------------------------------------
(* hiveguard import-fail2ban: one request per row.                         *)

start_import(js) ==
  /\ job.at = "idle"
  /\ LET found == {r \in read_active_bans : r.jail \in js}
     IN  job' = [NoJob EXCEPT !.at = "running", !.via = "cli", !.from = found, !.todo = found]
  /\ UNCHANGED <<clock, bans, protected, rows, asked, faults>>

\* A dry run sends nothing and counts every row as skipped.
dry_run(js) ==
  /\ job.at = "idle"
  /\ LET found == {r \in read_active_bans : r.jail \in js}
     IN  job' = [NoJob EXCEPT !.at = "done", !.via = "dry", !.from = found,
                              !.skipped = Cardinality(found)]
  /\ UNCHANGED <<clock, bans, protected, rows, asked, faults>>

\* The duration run_import asks for: what is left of the ban, at least a
\* second; for a permanent one it names none.
import_end(r) ==
  IF rows[r] = Permanent THEN ban_end("none")
  ELSE IF rows[r] > clock THEN rows[r] ELSE clock + 1

Counted(r, how, kept) ==
  job' = [job EXCEPT !.todo = @ \ {r}, ![how] = @ + 1,
                     !.got = IF kept THEN @ \union {r} ELSE @]

\* One round of run_import: sent, stored and answered Ok.
import_row(r) ==
  /\ job.at = "running" /\ r \in job.todo
  /\ stored(r.ip, import_end(r)) /\ NoFault /\ Counted(r, "imported", TRUE)
  /\ UNCHANGED <<clock, protected, rows, asked>>

\* The daemon refused it, or stored it and could not apply it: an Error answer.
import_skipped(r) ==
  /\ job.at = "running" /\ r \in job.todo
  /\ \/ refused(r.ip) /\ Counted(r, "skipped", FALSE)
     \/ stored(r.ip, import_end(r)) /\ Fault /\ Counted(r, "skipped", TRUE)
  /\ UNCHANGED <<clock, protected, rows, asked>>

\* send_request failed, before or after the daemon served it.
import_lost(r) ==
  /\ job.at = "running" /\ r \in job.todo /\ Fault
  /\ \/ UNCHANGED bans /\ Counted(r, "errors", FALSE)
     \/ stored(r.ip, import_end(r)) /\ Counted(r, "errors", TRUE)
  /\ UNCHANGED <<clock, protected, rows, asked>>

import_done ==
  /\ job.at = "running" /\ job.todo = {}
  /\ job' = [job EXCEPT !.at = "done"]
  /\ UNCHANGED <<clock, bans, protected, rows, asked, faults>>

-----------------------------------------------------------------------------
(* UiApiImpl::fail2ban_import: every row under one hold of the state lock. *)

\* The record for a row: the existing one if it lasts at least as long.
kept_end_new(b, r) == rows[r]
kept_end(b, r) ==
  IF b[r.ip] = Permanent \/ (b[r.ip] # Never /\ rows[r] # Permanent /\ b[r.ip] >= rows[r])
  THEN b[r.ip] ELSE rows[r]

fail2ban_import(js, failing) ==
  LET found == {r \in read_active_bans : r.jail \in js}
      ok == {r \in found : r.ip \notin protected}
      one(b, r) == [b EXCEPT ![r.ip] = kept_end(b, r)]
  IN  /\ job.at = "idle" /\ failing \subseteq ok
      /\ faults + Cardinality(failing) <= MaxFaults /\ faults' = faults + Cardinality(failing)
      /\ \E order \in SetToAllKPermutations(ok) :
           /\ Len(order) = Cardinality(ok)
           /\ bans' = FoldLeft(one, bans, order)
      /\ job' = [NoJob EXCEPT !.at = "done", !.via = "rest", !.from = found, !.got = ok,
                              !.imported = Cardinality(ok \ failing),
                              !.skipped = Cardinality((found \ ok) \union failing)]
      /\ UNCHANGED <<clock, protected, rows, asked>>

ControlNext ==
  \/ \E i \in Ips : Unban(i) \/ \E d \in {"none", "permanent", "short"} : Ban(i, d)
  \/ \E js \in SUBSET Jails \ {{}} :
       start_import(js) \/ dry_run(js) \/ \E f \in SUBSET read_active_bans : fail2ban_import(js, f)
  \/ \E r \in job.todo : import_row(r) \/ import_skipped(r) \/ import_lost(r)
  \/ tick \/ import_done

-----------------------------------------------------------------------------
(* Properties.                                                             *)

\* Every active row an import found ends in exactly one of its counts, and
\* no row of a dry run or of an unprotected subject's refusal is stored:
\* what is counted as imported was stored (run_import, fail2ban_import).
ImportAccounted ==
  job.at = "done" =>
    /\ job.imported + job.skipped + job.errors = Cardinality(job.from)
    /\ job.imported <= Cardinality(job.got)
    /\ \A r \in job.got : r.ip \notin protected

\* The import over REST never lets a ban end earlier than it would have, and
\* every ban it takes over lasts at least as long as in fail2ban.
RestNeverShortens ==
  [][job'.via = "rest" /\ job.at = "idle" =>
       /\ \A i \in Ips : bans'[i] >= bans[i]
       /\ \A r \in job'.got : bans'[r.ip] >= rows[r]]_control_vars

-----------------------------------------------------------------------------
(* fail2ban's jail files.                                                  *)

CONSTANTS Files \* sequences of sections <<name, settings>>, one per file

JailKeys == {"maxretry", "bantime"}
\* JailConfig::default.
JailDefault == [maxretry |-> 5, bantime |-> 3600]

\* apply_kvs: a setting that parses replaces the value.
apply_kvs(kvs, jail) == [k \in JailKeys |-> IF k \in DOMAIN kvs THEN kvs[k] ELSE jail[k]]

\* flush: a section is laid over the defaults, or over its jail, which
\* starts from the defaults known when it first appears.
flush_replacing(st, section) ==
  LET name == section[1] kvs == section[2]
  IN  IF name = "DEFAULT" THEN [st EXCEPT !.defaults = apply_kvs(kvs, @)]
      ELSE [st EXCEPT !.jails = [j \in DOMAIN @ \union {name} |->
                                   IF j # name THEN @[j] ELSE apply_kvs(kvs, st.defaults)]]
flush(st, section) ==
  LET name == section[1] kvs == section[2]
  IN  IF name = "DEFAULT" THEN [st EXCEPT !.defaults = apply_kvs(kvs, @)]
      ELSE [st EXCEPT !.jails =
             [j \in DOMAIN @ \union {name} |->
                IF j # name THEN @[j]
                ELSE apply_kvs(kvs, IF j \in DOMAIN @ THEN @[j] ELSE st.defaults)]]

\* parse_ini_into over the sections of a file, parse_jail_configs over files.
parse_ini_into(st, file) == FoldLeft(flush, st, file)
parse_jail_configs(files) ==
  FoldLeft(parse_ini_into, [defaults |-> JailDefault, jails |-> [j \in {} |-> JailDefault]], files).jails

VARIABLES files, jails
jail_vars == <<files, jails>>
JailInit == files = <<>> /\ jails = parse_jail_configs(<<>>)
read_file(f) == Len(files) < 3 /\ files' = Append(files, f) /\ jails' = parse_jail_configs(files')
JailNext == \E f \in Files : read_file(f)

Sections == FlattenSeq(files)
LastSet(name, k) ==
  LET at == {n \in DOMAIN Sections : Sections[n][1] = name /\ k \in DOMAIN Sections[n][2]}
  IN  IF at = {} THEN 0 ELSE Sections[CHOOSE n \in at : \A o \in at : o <= n][2][k]
FirstOf(name) == CHOOSE n \in DOMAIN Sections :
                   Sections[n][1] = name /\ \A o \in 1..(n - 1) : Sections[o][1] # name
DefaultBefore(k, n) ==
  LET at == {m \in 1..(n - 1) : Sections[m][1] = "DEFAULT" /\ k \in DOMAIN Sections[m][2]}
  IN  IF at = {} THEN JailDefault[k] ELSE Sections[CHOOSE m \in at : \A o \in at : o <= m][2][k]

\* Whatever order the files come in, a jail has the last value its own
\* sections give it, and only without one the default in force where the
\* jail first appears (parse_ini_into keeps a jail across files).
JailsMerged ==
  \A j \in DOMAIN jails, k \in JailKeys :
    jails[j][k] = IF LastSet(j, k) # 0 THEN LastSet(j, k) ELSE DefaultBefore(k, FirstOf(j))
=============================================================================
