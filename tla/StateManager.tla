---------------------------- MODULE StateManager ----------------------------
(***************************************************************************)
(* hiveguard-core/src/persistence: the in-memory state of a node (bans,    *)
(* whitelist, revocations, CRDT records), the write-ahead log every        *)
(* mutation is appended to BEFORE the memory changes, and the snapshots    *)
(* that let the log be cut.  The actions are the methods of StateManager,  *)
(* each under the state lock; what can happen in the middle of one is an   *)
(* I/O error, the death of the process, or the loss of power, so a method  *)
(* is one action per log append or per system call that survives a crash.  *)
(*                                                                         *)
(* Wall clocks jump: every method that calls Utc::now() takes any instant. *)
(***************************************************************************)
EXTENDS IpNet, Sequences, FiniteSets

CONSTANTS
  Keys,        \* the networks in use, closed under trunc
  Immutable,   \* IMMUTABLE_PROTECTED
  ConfigNets,  \* the whitelist of the configuration file
  Subjects,    \* networks callers ban
  WlNets,      \* networks callers whitelist at run time
  CrdtInputs,  \* CRDT records callers store: [net, rec]
  Time,        \* instants
  Durations,   \* lengths of local bans
  MinExt,      \* MIN_BAN_EXTENSION
  MaxWal,      \* bound on the records of the log
  Faults,      \* what may go wrong: "io", "process", and, where wal_sync_mode is
               \* "fdatasync" or "sync", "power"
  Forever,     \* expires_at = None
  NoBan, NoTime, NoCrdt, NoNet, NoEntry   \* absent values

ASSUME KeysAssumption ==
  /\ Keys \subseteq Net
  /\ \A n \in Keys : trunc(n) \in Keys
  /\ Immutable \subseteq Net
  /\ ConfigNets \subseteq Keys /\ Subjects \subseteq Keys /\ WlNets \subseteq Keys
ASSUME TimeAssumption == Time \subseteq Nat /\ Durations \subseteq Nat /\ MinExt \in Nat
ASSUME AbsentAssumption ==
  /\ NoNet \notin Keys
  /\ NoTime \notin Time
  /\ \A i \in CrdtInputs : i.net \in Keys

Ban == [created : Time, expires : Time \cup {Forever}, peer : BOOLEAN]

ASSUME BanAssumption == NoBan \notin Ban

VARIABLES
  phase,        \* "down", "starting", "finishing" (last step of start-up), "serving"
  mem,          \* bans, whitelist and revocations in memory; the value a dead
                \* process last held while phase = "down"
  crdt,         \* crdt_store
  wal,          \* the log file: its valid records, and whether a torn one follows
  walFiles,     \* the contents the log file may have after a loss of power
  snap,         \* snapshot.bin
  snapFiles,    \* the contents snapshot.bin may have after a loss of power
  write_failed, \* WalWriter::write_failed
  task,         \* where inside a method: "idle", "revoke", "tombstone",
                \* "renamed", "dirsynced", "truncated"
  todo,         \* the subjects the revoke loop has still to visit
  doubt,        \* history: the entry whose append failed, while it may be on disk
  halfRevoked,  \* history: a whitelist addition reported an error midway
  everRevoked   \* history: the latest cutoff an unban of each key was given

disk == <<wal, walFiles, snap, snapFiles>>
history == <<doubt, halfRevoked, everRevoked>>
vars == <<phase, mem, crdt, disk, write_failed, task, todo, history>>

-----------------------------------------------------------------------------
(* Whitelist and ban-store queries.                                        *)

Protected(wl) == Immutable \cup {n \in Keys : wl[n]}

overlaps(wl, n) == \E w \in Protected(wl) : nets_overlap(w, n)

covers(wl, n) == \E w \in Protected(wl) : net_covers(w, n)

\* The bans revoke_bans_covered_by_whitelist collects.
Overlapping(m) == {n \in Keys : m.bans[n] # NoBan /\ overlaps(m.whitelist, n)}

\* InMemoryBanStore::covering_bans, is_banned (module BanStore).
covering_bans(n) == {k \in Keys : mem.bans[k] # NoBan /\ k = trunc(k) /\ net_covers(k, n)}

is_banned(a) ==
  LET hit == {k \in Keys : mem.bans[k] # NoBan /\ k = trunc(k) /\ contains(k, a)}
  IN  IF hit = {} THEN NoNet ELSE CHOOSE k \in hit : \A j \in hit : j.len <= k.len

-----------------------------------------------------------------------------
(* The log: entries, and what replaying them does.  An entry writes at     *)
(* most one key of each of the three maps, so after a replay each key      *)
(* holds the value of the last entry that writes it.                       *)

SetBan(db, n, b) ==
  [bans |-> [db.bans EXCEPT ![n] = b], whitelist |-> db.whitelist, revocations |-> db.revocations]
SetWhitelisted(db, n, v) ==
  [bans |-> db.bans, whitelist |-> [db.whitelist EXCEPT ![n] = v], revocations |-> db.revocations]
SetRevoked(db, n, t) ==
  [bans |-> db.bans, whitelist |-> db.whitelist, revocations |-> [db.revocations EXCEPT ![n] = t]]

Write(n, v) == [key |-> n, val |-> v]
NoWrite == Write(NoNet, NoBan)

BanWrite(e) ==
  CASE e.op = "AddBan" -> Write(e.net, e.ban)
    [] e.op \in {"RemoveBan", "RevokeBan"} -> Write(e.net, NoBan)
    [] OTHER -> NoWrite

WhitelistWrite(e) ==
  CASE e.op = "AddWhitelist" -> Write(e.net, TRUE)
    [] e.op = "RemoveWhitelist" -> Write(e.net, FALSE)
    [] OTHER -> NoWrite

RevocationWrite(e) ==
  IF e.op = "RevokeBan" THEN Write(e.net, e.cutoff) ELSE NoWrite

\* WalEntry.
Entry ==
  [op : {"AddBan"}, net : Keys, ban : Ban]
    \cup [op : {"RevokeBan"}, net : Keys, cutoff : Time]
    \cup [op : {"RemoveBan", "AddWhitelist", "RemoveWhitelist", "TombstoneCrdtBan"}, net : Keys]
    \cup {[op |-> "AddCrdtBan", net |-> i.net, rec |-> i.rec] : i \in CrdtInputs}

ASSUME EntryAssumption == NoEntry \notin Entry

\* The map m after the writes of the sequence u.
LastWrites(m, u) ==
  [n \in Keys |->
     LET at == {i \in DOMAIN u : u[i].key = n}
     IN  IF at = {} THEN m[n] ELSE u[CHOOSE i \in at : \A j \in at : j <= i].val]

\* StateManager::new: the snapshot's state, then every entry of the log.
replay(db, w) ==
  [bans        |-> LastWrites(db.bans, [i \in 1..Len(w) |-> BanWrite(w[i])]),
   whitelist   |-> LastWrites(db.whitelist, [i \in 1..Len(w) |-> WhitelistWrite(w[i])]),
   revocations |-> LastWrites(db.revocations, [i \in 1..Len(w) |-> RevocationWrite(w[i])])]

\* What one entry does to the state: the meaning of "mutation".
apply_entry(db, e) == replay(db, <<e>>)

\* CrdtBanRecord::merge on the fields kept here (module CrdtBan has them all).
crdt_merge(a, b) ==
  LET votes == a.tombstone_reporters \cup b.tombstone_reporters
  IN  [reporters           |-> a.reporters \cup b.reporters,
       tombstone_reporters |-> votes,
       tombstone           |-> Cardinality(votes) >= 2]

crdt_put(c, n, r) ==
  [c EXCEPT ![n] = IF @ = NoCrdt THEN r ELSE crdt_merge(@, r)]

crdt_bury(c, n) ==
  [c EXCEPT ![n] = IF @ = NoCrdt THEN NoCrdt ELSE [@ EXCEPT !.tombstone = TRUE]]

replay_crdt(c, w) ==
  LET after[i \in 0..Len(w)] ==
        IF i = 0 THEN c
        ELSE CASE w[i].op = "AddCrdtBan" -> crdt_put(after[i-1], w[i].net, w[i].rec)
               [] w[i].op = "TombstoneCrdtBan" -> crdt_bury(after[i-1], w[i].net)
               [] OTHER -> after[i-1]
  IN  after[Len(w)]

EmptyFile == [recs |-> <<>>, torn |-> FALSE]

\* A record written behind a torn one is never read again.
WithRecord(f, e) == IF f.torn THEN f ELSE [recs |-> Append(f.recs, e), torn |-> FALSE]
WithTornRecord(f) == [recs |-> f.recs, torn |-> TRUE]

-----------------------------------------------------------------------------
(* WalWriter.  append writes the record and syncs it; an I/O error leaves  *)
(* nothing, a torn record, or a whole record that is not synced yet.       *)

append_ok(e) ==
  /\ ~write_failed
  /\ wal' = WithRecord(wal, e)
  /\ walFiles' = {wal'}
  /\ UNCHANGED <<write_failed, doubt, snap, snapFiles>>

\* Mutant of append_err: the writer stays usable behind a torn record.
append_err_forgets(e) ==
  /\ ~write_failed /\ "io" \in Faults
  /\ \E f \in {wal, WithTornRecord(wal), WithRecord(wal, e)} :
       /\ wal' = f
       /\ walFiles' = walFiles \cup {f}
  /\ doubt' = e
  /\ UNCHANGED <<write_failed, snap, snapFiles>>

append_err(e) ==
  /\ ~write_failed /\ "io" \in Faults
  /\ \E f \in {wal, WithTornRecord(wal), WithRecord(wal, e)} :
       /\ wal' = f
       /\ walFiles' = walFiles \cup {f}
  /\ write_failed' = TRUE
  /\ doubt' = e
  /\ UNCHANGED <<snap, snapFiles>>

\* A method of the running daemon: append, then change the memory to m and c;
\* on an error the memory stays.
Logged(e, m, c) ==
  /\ \/ append_ok(e) /\ mem' = m /\ crdt' = c
     \/ append_err(e) /\ UNCHANGED <<mem, crdt>>
  /\ UNCHANGED <<phase, task, todo, halfRevoked>>

Serving == phase = "serving" /\ task = "idle"

-----------------------------------------------------------------------------
(* Bans.                                                                   *)

\* Mutant of add_ban: only a subject inside a whitelist entry is refused.
add_ban_if_covered(s, b) ==
  LET n == trunc(s)
  IN  /\ ~covers(mem.whitelist, n)
      /\ Logged([op |-> "AddBan", net |-> n, ban |-> b], SetBan(mem, n, b), crdt)
      /\ UNCHANGED everRevoked

\* An overlap with the whitelist is an error that changes nothing.
add_ban(s, b) ==
  LET n == trunc(s)
  IN  /\ ~overlaps(mem.whitelist, n)
      /\ Logged([op |-> "AddBan", net |-> n, ban |-> b], SetBan(mem, n, b), crdt)
      /\ UNCHANGED everRevoked

active(b, now) == b.expires = Forever \/ b.expires > now

\* An existing expiry is as good as a new one up to MIN_BAN_EXTENSION.
outlasts(existing, new) ==
  \/ existing = Forever
  \/ existing # Forever /\ new # Forever /\ existing + MinExt >= new

AlreadyCovered(s, expires, now) ==
  \E k \in covering_bans(s) :
    active(mem.bans[k], now) /\ outlasts(mem.bans[k].expires, expires)

\* Mutant of admit_ban: the covering ban need not be active to keep its start,
\* and a shorter ban replaces a longer one of the same subject.
admit_ban_overwrites(s, expires, now) ==
  add_ban(s, [created |-> now, expires |-> expires, peer |-> FALSE])

\* Not covered: stored anew, or, over an active ban of the very same key, with
\* that ban's start ("Extended").
admit_ban(s, expires, now) ==
  /\ ~AlreadyCovered(s, expires, now)
  /\ LET extended == s \in covering_bans(s) /\ active(mem.bans[s], now)
     IN  add_ban(s, [created |-> IF extended THEN mem.bans[s].created ELSE now,
                     expires |-> expires, peer |-> FALSE])

remove_ban(n) ==
  /\ Logged([op |-> "RemoveBan", net |-> n], SetBan(mem, n, NoBan), crdt)
  /\ UNCHANGED everRevoked

LatestOf(S) == CHOOSE t \in S : \A u \in S : u <= t

\* The clock, but never before the ban's own start or an earlier cutoff.
revocation_cutoff(n, now) ==
  LatestOf({now}
    \cup {mem.bans[k].created : k \in {n} \cap {k \in Keys : mem.bans[k] # NoBan}}
    \cup {mem.revocations[k] : k \in {n} \cap {k \in Keys : mem.revocations[k] # NoTime}})

revoke_ban(s, now) ==
  LET n == trunc(s)
      cutoff == revocation_cutoff(n, now)
  IN  /\ Logged([op |-> "RevokeBan", net |-> n, cutoff |-> cutoff],
                SetRevoked(SetBan(mem, n, NoBan), n, cutoff), crdt)
      /\ everRevoked' = IF write_failed' THEN everRevoked
                        ELSE [everRevoked EXCEPT ![n] = IF @ = NoTime \/ @ <= now THEN now ELSE @]

\* A peer's ban: nothing whitelisted, nothing revoked here since it was made.
accepts_remote_ban(s, created) ==
  /\ ~overlaps(mem.whitelist, s)
  /\ \A k \in Keys :
       mem.revocations[k] # NoTime /\ nets_overlap(k, s) => created > mem.revocations[k]

\* cluster.rs: a peer's ban may replace an older one of a peer, nothing else.
remote_changes_state(s, b) ==
  LET hit == is_banned(s.addr)
  IN  \/ hit = NoNet
      \/ /\ hit = s
         /\ mem.bans[hit].peer
         /\ \/ b.created > mem.bans[hit].created
            \/ b.created = mem.bans[hit].created /\ b.expires > mem.bans[hit].expires

\* One record of cluster.rs, apply_bans.
apply_remote_ban(s, b, now) ==
  /\ b.peer /\ b.expires # Forever /\ b.expires > now /\ b.expires > b.created
  /\ accepts_remote_ban(s, b.created)
  /\ remote_changes_state(s, b)
  /\ add_ban(s, b)

-----------------------------------------------------------------------------
(* Whitelist.  add_whitelist logs the entry and then removes the bans it   *)
(* now covers one by one, each with log entries of its own.                *)

\* The error of an append inside start-up ends the process (main.rs exits);
\* at run time it ends the method, and the bans not yet visited stay.
Abort ==
  /\ phase' = IF phase = "serving" THEN "serving" ELSE "down"
  /\ task' = "idle" /\ todo' = {}
  /\ UNCHANGED <<mem, crdt, everRevoked>>

add_whitelist(n) ==
  LET e == [op |-> "AddWhitelist", net |-> n]
      m == SetWhitelisted(mem, n, TRUE)
  IN  \/ /\ append_ok(e)
         /\ mem' = m
         /\ task' = "revoke" /\ todo' = Overlapping(m)
         /\ UNCHANGED <<phase, crdt, halfRevoked, everRevoked>>
      \/ append_err(e) /\ Abort /\ UNCHANGED halfRevoked

\* revoke_bans_covered_by_whitelist, one subject of the list: remove_ban, and
\* tombstone_crdt_ban when a CRDT record exists.
revoke_next(n) ==
  LET e == [op |-> "RemoveBan", net |-> n]
  IN  /\ task = "revoke" /\ n \in todo
      /\ \/ /\ append_ok(e)
            /\ mem' = SetBan(mem, n, NoBan)
            /\ IF crdt[n] = NoCrdt
               THEN task' = "revoke" /\ todo' = todo \ {n}
               ELSE task' = "tombstone" /\ UNCHANGED todo
            /\ UNCHANGED <<phase, crdt, halfRevoked, everRevoked>>
         \/ append_err(e) /\ Abort /\ halfRevoked' = TRUE

revoke_tombstone(n) ==
  LET e == [op |-> "TombstoneCrdtBan", net |-> n]
  IN  /\ task = "tombstone" /\ n \in todo /\ mem.bans[n] = NoBan
      /\ \/ /\ append_ok(e)
            /\ crdt' = crdt_bury(crdt, n)
            /\ task' = "revoke" /\ todo' = todo \ {n}
            /\ UNCHANGED <<phase, mem, halfRevoked, everRevoked>>
         \/ append_err(e) /\ Abort /\ halfRevoked' = TRUE

revoke_done ==
  /\ task = "revoke" /\ todo = {}
  /\ task' = "idle"
  /\ phase' = IF phase = "finishing" THEN "serving" ELSE phase
  /\ halfRevoked' = FALSE
  /\ UNCHANGED <<mem, crdt, disk, write_failed, todo, doubt, everRevoked>>

remove_whitelist(n) ==
  /\ Logged([op |-> "RemoveWhitelist", net |-> n], SetWhitelisted(mem, n, FALSE), crdt)
  /\ UNCHANGED everRevoked

-----------------------------------------------------------------------------
(* CRDT records.                                                           *)

add_crdt_ban(n, r) ==
  /\ Logged([op |-> "AddCrdtBan", net |-> n, rec |-> r], mem, crdt_put(crdt, n, r))
  /\ UNCHANGED everRevoked

tombstone_crdt_ban(n) ==
  /\ Logged([op |-> "TombstoneCrdtBan", net |-> n], mem, crdt_bury(crdt, n))
  /\ UNCHANGED everRevoked

-----------------------------------------------------------------------------
(* take_snapshot: temporary file written and synced, renamed over          *)
(* snapshot.bin, the directory synced, the log cut, the cut synced.  Each  *)
(* of the last three may fail and end the method there.                    *)

\* Mutant of snapshot_rename: the revocations are not part of the snapshot.
snapshot_rename_v3 ==
  /\ Serving
  /\ snap' = [db |-> [mem EXCEPT !.revocations = [n \in Keys |-> NoTime]], crdt |-> crdt]
  /\ snapFiles' = snapFiles \cup {snap'}
  /\ task' = "renamed"
  /\ UNCHANGED <<phase, mem, crdt, wal, walFiles, write_failed, todo, history>>

\* Mutant of snapshot_rename: the CRDT records are not part of the snapshot.
snapshot_rename_v1 ==
  /\ Serving
  /\ snap' = [db |-> mem, crdt |-> [n \in Keys |-> NoCrdt]]
  /\ snapFiles' = snapFiles \cup {snap'}
  /\ task' = "renamed"
  /\ UNCHANGED <<phase, mem, crdt, wal, walFiles, write_failed, todo, history>>

snapshot_rename ==
  /\ Serving
  /\ snap' = [db |-> mem, crdt |-> crdt]
  /\ snapFiles' = snapFiles \cup {snap'}
  /\ task' = "renamed"
  /\ UNCHANGED <<phase, mem, crdt, wal, walFiles, write_failed, todo, history>>

\* Mutant of snapshot_dirsync: the log is cut before the rename is durable.
snapshot_dirsync_skipped ==
  /\ task = "renamed"
  /\ task' = "dirsynced"
  /\ UNCHANGED <<phase, mem, crdt, disk, write_failed, todo, history>>

snapshot_dirsync ==
  /\ task = "renamed"
  /\ \/ task' = "dirsynced" /\ snapFiles' = {snap}
     \/ "io" \in Faults /\ task' = "idle" /\ UNCHANGED snapFiles
  /\ UNCHANGED <<phase, mem, crdt, wal, walFiles, snap, write_failed, todo, history>>

truncate_open ==
  /\ task = "dirsynced"
  /\ \/ task' = "truncated" /\ wal' = EmptyFile /\ walFiles' = walFiles \cup {EmptyFile}
     \/ "io" \in Faults /\ task' = "idle" /\ UNCHANGED <<wal, walFiles>>
  /\ UNCHANGED <<phase, mem, crdt, snap, snapFiles, write_failed, todo, history>>

truncate_sync ==
  /\ task = "truncated"
  /\ \/ walFiles' = {wal} /\ write_failed' = FALSE /\ doubt' = NoEntry
     \/ "io" \in Faults /\ UNCHANGED <<walFiles, write_failed, doubt>>
  /\ task' = "idle"
  /\ UNCHANGED <<phase, mem, crdt, wal, snap, snapFiles, todo, halfRevoked, everRevoked>>

flush_wal ==
  /\ Serving
  /\ walFiles' = {wal}
  /\ UNCHANGED <<phase, mem, crdt, wal, snap, snapFiles, write_failed, task, todo, history>>

-----------------------------------------------------------------------------
(* Crashes, recovery, start-up.                                            *)

Halt ==
  /\ phase # "down"
  /\ phase' = "down" /\ task' = "idle" /\ todo' = {}
  /\ UNCHANGED <<mem, crdt, write_failed, history>>

process_crash == "process" \in Faults /\ Halt /\ UNCHANGED disk

power_loss ==
  /\ "power" \in Faults
  /\ Halt
  /\ wal' \in walFiles /\ walFiles' = {wal'}
  /\ snap' \in snapFiles /\ snapFiles' = {snap'}

\* StateManager::new and WalWriter::open, which cuts a torn tail.  What the
\* new process reads back is taken to be durable from then on.
recover ==
  /\ phase = "down"
  /\ mem' = replay(snap.db, wal.recs)
  /\ crdt' = replay_crdt(snap.crdt, wal.recs)
  /\ wal' = [recs |-> wal.recs, torn |-> FALSE]
  /\ walFiles' = {wal'} /\ snapFiles' = {snap}
  /\ write_failed' = FALSE /\ doubt' = NoEntry
  /\ phase' = "starting" /\ halfRevoked' = FALSE
  /\ UNCHANGED <<snap, task, todo, everRevoked>>

\* whitelist_sync.rs, apply_config_whitelist.
start_whitelist(n) ==
  /\ phase = "starting" /\ task = "idle"
  /\ ~covers(mem.whitelist, n)
  /\ add_whitelist(n)

start_revoke ==
  /\ phase = "starting" /\ task = "idle"
  /\ \A n \in ConfigNets : covers(mem.whitelist, n)
  /\ phase' = "finishing" /\ task' = "revoke" /\ todo' = Overlapping(mem)
  /\ UNCHANGED <<mem, crdt, disk, write_failed, history>>

-----------------------------------------------------------------------------
EmptyDb ==
  [bans        |-> [n \in Keys |-> NoBan],
   whitelist   |-> [n \in Keys |-> FALSE],
   revocations |-> [n \in Keys |-> NoTime]]

EmptyCrdt == [n \in Keys |-> NoCrdt]

\* A new node: no files, nothing started.
Init ==
  /\ phase = "down" /\ task = "idle" /\ todo = {}
  /\ mem = EmptyDb /\ crdt = EmptyCrdt
  /\ wal = EmptyFile /\ walFiles = {EmptyFile}
  /\ snap = [db |-> EmptyDb, crdt |-> EmptyCrdt] /\ snapFiles = {snap}
  /\ write_failed = FALSE
  /\ doubt = NoEntry /\ halfRevoked = FALSE
  /\ everRevoked = [n \in Keys |-> NoTime]

\* A caller's method starts while the log has room for it (the model's bound).
Call == Serving /\ Len(wal.recs) < MaxWal

\* The ban an administrator or a detector makes now.
NewBans(now) ==
  {[created |-> now, expires |-> now + d, peer |-> FALSE] : d \in {d \in Durations : now + d \in Time}}
    \cup {[created |-> now, expires |-> Forever, peer |-> FALSE]}

Next ==
  \/ Call /\ \E s \in Subjects, now \in Time : \E b \in NewBans(now) : add_ban(s, b)
  \/ Call /\ \E s \in Subjects, now \in Time : \E b \in NewBans(now) : admit_ban(s, b.expires, now)
  \/ Call /\ \E s \in Subjects, b \in Ban, now \in Time : apply_remote_ban(s, b, now)
  \/ Call /\ \E n \in Subjects : remove_ban(n)
  \/ Call /\ \E s \in Subjects, now \in Time : revoke_ban(s, now)
  \/ Call /\ \E n \in WlNets : add_whitelist(n)
  \/ Call /\ \E n \in WlNets : remove_whitelist(n)
  \/ Call /\ \E i \in CrdtInputs : add_crdt_ban(i.net, i.rec)
  \/ Call /\ \E i \in CrdtInputs : tombstone_crdt_ban(i.net)
  \/ \E n \in Keys : revoke_next(n) \/ revoke_tombstone(n)
  \/ revoke_done
  \/ snapshot_rename \/ snapshot_dirsync \/ truncate_open \/ truncate_sync \/ flush_wal
  \/ process_crash \/ power_loss \/ recover
  \/ \E n \in ConfigNets : start_whitelist(n)
  \/ start_revoke

Spec == Init /\ [][Next]_vars

-----------------------------------------------------------------------------
(* Properties.                                                             *)

Db == [bans : [Keys -> Ban \cup {NoBan}], whitelist : [Keys -> BOOLEAN],
       revocations : [Keys -> Time \cup {NoTime}]]

TypeOK ==
  /\ phase \in {"down", "starting", "finishing", "serving"}
  /\ task \in {"idle", "revoke", "tombstone", "renamed", "dirsynced", "truncated"}
  /\ mem \in Db /\ snap.db \in Db
  /\ todo \subseteq Keys
  /\ write_failed \in BOOLEAN /\ halfRevoked \in BOOLEAN /\ wal.torn \in BOOLEAN

\* Every acknowledged mutation survives, and nothing else appears: whatever
\* the crash, and wherever in a method it struck, a restarted node holds exactly
\* what the dead one held, except that a mutation whose append reported an error
\* may have been applied (wholly).
RecoveryExact ==
  [][phase = "down" /\ phase' # "down" =>
       \/ mem' = mem
       \/ doubt # NoEntry /\ mem' = apply_entry(mem, doubt)]_vars

\* The promise as a specification of its own: the log and the snapshots
\* implement a state that changes by whole mutations and outlives the process.
Durable == INSTANCE DurableState
             WITH Initial <- EmptyDb, Apply <- apply_entry, db <- mem, up <- (phase # "down")

ImplementsDurableState == Durable!Spec

\* The CRDT records survive the same way (a log replayed over a snapshot that
\* already contains it merges every record with itself).
CrdtRecoveryExact ==
  [][phase = "down" /\ phase' # "down" =>
       \/ crdt' = crdt
       \/ doubt # NoEntry /\ crdt' = replay_crdt(crdt, <<doubt>>)]_vars

\* "Tombstone the CRDT record too, otherwise cluster anti-entropy re-imports the
\* ban we just revoked on the next gossip round" (revoke_bans_covered_by_whitelist):
\* storing once more a record that a tombstoned one already includes leaves it
\* tombstoned.
TombstoneSticks ==
  [][\A i \in CrdtInputs :
       /\ Call /\ add_crdt_ban(i.net, i.rec)
       /\ crdt[i.net] # NoCrdt /\ crdt[i.net].tombstone
       /\ i.rec.reporters \subseteq crdt[i.net].reporters
       /\ i.rec.tombstone_reporters \subseteq crdt[i.net].tombstone_reporters
       => crdt'[i.net].tombstone]_vars

\* No stored ban overlaps a protected network while the node serves, unless a
\* whitelist addition reported an error; a crash in the middle of one is
\* repaired before the node serves again.
NoProtectedBan ==
  Serving /\ ~halfRevoked => Overlapping(mem) = {}

\* "one durable entry both removes the ban and prevents peers from resurrecting
\* an older decision, including after a restart": no peer's ban made before an
\* unban, and overlapping what was unbanned, is ever stored again, although the
\* clock may go back and the node may crash, recover and take snapshots.
NoResurrection ==
  [][\A n, k \in Keys :
       /\ phase = "serving" /\ phase' = "serving"
       /\ mem'.bans[n] # mem.bans[n] /\ mem'.bans[n] # NoBan /\ mem'.bans[n].peer
       /\ everRevoked[k] # NoTime /\ nets_overlap(k, n)
       => mem'.bans[n].created > everRevoked[k]]_vars

\* Until when address a is banned, as seen at the instant now: the expiries of
\* the active bans that contain it.
Protections(m, a, now) ==
  {m.bans[n].expires : n \in {n \in Keys : m.bans[n] # NoBan /\ active(m.bans[n], now) /\ contains(n, a)}}

\* "a shorter one no longer overwrites a longer ban": admit_ban never lets an
\* address go free earlier than before.
AdmitNeverShortens ==
  [][\A s \in Subjects, now \in Time : \A b \in NewBans(now) :
       Call /\ admit_ban(s, b.expires, now) =>
         \A a \in Addr : \A x \in Protections(mem, a, now) :
           \E y \in Protections(mem', a, now) : y = Forever \/ (x # Forever /\ x <= y)]_vars
=============================================================================
