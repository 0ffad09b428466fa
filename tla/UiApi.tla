------------------------------- MODULE UiApi -------------------------------
(***************************************************************************)
(* What the REST plugin (plugins/ui-rest) and the daemon's side of it      *)
(* (daemon/ui_api.rs, agent_api.rs, agent_logs.rs) keep between requests:  *)
(*   - the bans as the clients of the event streams are told of them;      *)
(*   - the stream slots and the scan slots;                                *)
(*   - config.yaml behind GET and PUT /api/config;                         *)
(*   - the rules in force behind /api/sigma/rules;                         *)
(*   - the rate limit of the log push endpoint.                            *)
(* Each is a state machine of its own: they share no state.                *)
(***************************************************************************)
EXTENDS Integers, Sequences, FiniteSets, Functions

CONSTANTS Subjects,    \* addresses that are banned and unbanned
          Tasks,       \* requests in flight
          BanTasks,    \* those that change the ban list or tell of it
          Ticker,      \* the task of main that calls sync_agent_ban_events every 30 s
          Streams,     \* requests for GET /api/agent/stream
          MaxStreams,  \* agent.max_streams
          Capacity,    \* of the broadcast channel of agent events
          MaxChanges,  \* how often the ban list changes
          MaxScans,    \* agent.max_concurrent_scans
          Docs,        \* configuration documents
          RuleIds, MaxRules,
          MaxPush,     \* ingest.push.rate_limit_per_sec
          MaxTicks

ASSUME UiAssumption ==
  /\ IsFiniteSet(Subjects) /\ IsFiniteSet(Streams) /\ IsFiniteSet(Tasks)
  /\ "not primed" \notin Subjects
  /\ Capacity \in Nat /\ MaxStreams \in Nat /\ MaxScans \in Nat
  /\ MaxPush \in Nat /\ MaxTicks \in Nat

VARIABLES ban_list,    \* the ban list of StateManager
          changes,
          task,        \* [BanTasks and the ticker -> [pc, snap]]
          last,        \* AgentBanEvents.last_subjects, NoView before the first call
          stream       \* one client of the event stream: [open, view, q, lost, told]

ban_vars == <<ban_list, changes, task, last, stream>>

NoView == {"not primed"}
Idle == [pc |-> "idle", snap |-> {}]
Telling == [Idle EXCEPT !.pc = "copy"]
Closed == [open |-> FALSE, view |-> NoView, q |-> <<>>, lost |-> FALSE, told |-> FALSE]

BanInit ==
  /\ ban_list \in SUBSET Subjects /\ changes = 0
  /\ task = [t \in BanTasks \cup {Ticker} |-> Idle]
  /\ last = NoView
  /\ stream = Closed

-----------------------------------------------------------------------------
(* The bans and the events about them.  The state lock is held while the   *)
(* list changes and the firewall follows, and again while it is copied;    *)
(* never while the copy is compared and sent.                              *)

Change(t, after, next) ==
  /\ task[t].pc = "idle" /\ changes < MaxChanges
  /\ ban_list' = after /\ changes' = changes + 1
  /\ task' = [task EXCEPT ![t] = next]
  /\ UNCHANGED <<last, stream>>

\* The ban is stored first: when the firewall refuses it the request fails with nobody told.
add_ban(t) == \E s \in Subjects \ ban_list, next \in {Idle, Telling} :
                Change(t, ban_list \cup {s}, next)

remove_ban(t) == \E s \in ban_list : Change(t, ban_list \ {s}, Telling)

\* Revokes the bans the entry covers, and tells nobody.
add_whitelist(t) == \E S \in (SUBSET ban_list) \ {{}} : Change(t, ban_list \ S, Idle)

\* A ban that ends by itself, or one made by a peer, by an import or on the socket.
elsewhere(t) == \E s \in Subjects :
                  Change(t, IF s \in ban_list THEN ban_list \ {s} ELSE ban_list \cup {s}, Idle)

\* The sniffer's notification after a ban of the pipeline, in a task of its own; and the
\* ticker, which feeds the agent streams and not the panel.
Start(t) ==
  /\ task[t].pc = "idle" /\ task' = [task EXCEPT ![t] = Telling]
  /\ UNCHANGED <<ban_list, changes, last, stream>>

on_ban(t) == Start(t)
sync_once == last = NoView /\ Start(Ticker)
sync_agent_ban_events == Start(Ticker)

list_bans_inner(t) ==
  /\ task[t].pc = "copy"
  /\ task' = [task EXCEPT ![t] = [pc |-> "emit", snap |-> ban_list]]
  /\ UNCHANGED <<ban_list, changes, last, stream>>

\* A receiver that does not keep up loses the oldest events, and is told how many.
Deliver(c, evs) ==
  LET all == c.q \o evs
      over == Len(all) > Capacity
  IN  IF ~c.open THEN c
      ELSE [c EXCEPT !.q = IF over THEN SubSeq(all, Len(all) - Capacity + 1, Len(all)) ELSE all,
                     !.lost = @ \/ over]

\* A set is iterated over in some order, each element once.
InSomeOrder(S) == CHOOSE q \in [1 .. Cardinality(S) -> S] : IsInjective(q)

BanEvents(old, new) ==
  InSomeOrder({[kind |-> "ban_added", subject |-> s] : s \in new \ old}
              \cup {[kind |-> "ban_removed", subject |-> s] : s \in old \ new})

\* What the next comparison starts from.
kept_baseline(snap) == IF last = NoView THEN snap ELSE last \cup snap
baseline(snap) == snap

emit_ban_diff(t) ==
  LET snap == task[t].snap
      evs == IF last = NoView THEN <<>> ELSE BanEvents(last, snap)
  IN  /\ task[t].pc = "emit"
      /\ stream' = Deliver(stream, evs)
      /\ last' = baseline(snap)
      /\ task' = [task EXCEPT ![t] = Idle]
      /\ UNCHANGED <<ban_list, changes>>

-----------------------------------------------------------------------------
(* A client of GET /api/agent/stream.  It is taken to know the list its    *)
(* subscription starts from (between two sends, the list the first one     *)
(* left); view is that list with every event applied that it was sent.     *)

subscribe_agent ==
  /\ ~stream.open /\ stream' = [Closed EXCEPT !.open = TRUE, !.view = last]
  /\ UNCHANGED <<ban_list, changes, task, last>>

disconnect == stream.open /\ stream' = Closed /\ UNCHANGED <<ban_list, changes, task, last>>

ApplyEvent(view, e) ==
  IF view = NoView THEN NoView
  ELSE IF e.kind = "ban_added" THEN view \cup {e.subject} ELSE view \ {e.subject}

agent_event_stream ==
  /\ stream.q # <<>>
  /\ stream' = IF stream.lost /\ ~stream.told THEN [stream EXCEPT !.told = TRUE]
               ELSE [stream EXCEPT !.view = ApplyEvent(@, Head(stream.q)), !.q = Tail(@)]
  /\ UNCHANGED <<ban_list, changes, task, last>>

BanStep(t) == list_bans_inner(t) \/ emit_ban_diff(t)

BanNext ==
  \/ \E t \in BanTasks : \/ add_ban(t) \/ remove_ban(t) \/ add_whitelist(t) \/ elsewhere(t)
                         \/ on_ban(t) \/ BanStep(t)
  \/ sync_agent_ban_events \/ BanStep(Ticker)
  \/ subscribe_agent \/ disconnect \/ agent_event_stream

BanSpec == BanInit /\ [][BanNext]_ban_vars

\* The list a client has once it has applied every event that waits for it: the last event
\* about a subject decides, and without one the list it had.
Applied(view, q) ==
  {s \in Subjects :
     \/ s \in view /\ \A i \in DOMAIN q : q[i].subject # s
     \/ \E i \in DOMAIN q : /\ q[i] = [kind |-> "ban_added", subject |-> s]
                          /\ \A j \in DOMAIN q : j > i => q[j].subject # s}

\* A client that lost nothing gets from its starting point to the last list that was
\* compared: the events of tasks that overtook each other still add up (emit_ban_diff holds its lock over
\* the comparison and the sends).
StreamsAddUp ==
  stream.open /\ ~stream.lost /\ stream.view # NoView => Applied(stream.view, stream.q) = last

\* Whatever the requests left untold, and in whatever order their copies were compared,
\* the ticker brings the baseline of the streams to the ban list once it stops changing.
BaselineCatchesUp == <>[](last = ban_list)

-----------------------------------------------------------------------------
(* The slots of the event streams. *)

VARIABLES request,     \* [Streams -> "none", "refused", "open"]
          active       \* AppState.active_streams

slot_vars == <<request, active>>

SlotInit == request = [c \in Streams |-> "none"] /\ active = 0

\* fetch_add: one more is counted, whether or not there is room.
sse_handler(c) ==
  /\ request[c] = "none" /\ active' = active + 1
  /\ request' = [request EXCEPT ![c] = IF active >= MaxStreams THEN "refused" ELSE "open"]

\* StreamSlot gives its slot back when it is dropped: refused, or the client went away.
slot_of_open(c) == IF request[c] = "refused" THEN active ELSE active - 1
slot_dropped(c) == active - 1

drop_slot(c) ==
  /\ request[c] # "none" /\ active' = slot_dropped(c)
  /\ request' = [request EXCEPT ![c] = "none"]

SlotNext == \E c \in Streams : sse_handler(c) \/ drop_slot(c)

SlotSpec == SlotInit /\ [][SlotNext]_slot_vars

\* No more than agent.max_streams are served at a time, a free slot is never lost, and a
\* refused request gives back what it counted (StreamSlot's Drop).
SlotsExact ==
  /\ Cardinality({c \in Streams : request[c] = "open"}) <= MaxStreams
  /\ active = Cardinality({c \in Streams : request[c] # "none"})

-----------------------------------------------------------------------------
(* The scan slots of agent_logs.rs.  A client may go away at any time.     *)
(* A scan runs on a blocking thread, which nothing cancels.                *)

VARIABLES scan,        \* [Tasks -> [pc, client]]: pc "idle", "child", "thread"
          free         \* permits of the semaphore

scan_vars == <<scan, free>>

ScanInit == scan = [t \in Tasks |-> [pc |-> "idle", client |-> FALSE, permit |-> FALSE]] /\ free = MaxScans

\* query, stats and ip_profile_logs move the permit into the closure they run.
query(t) ==
  /\ scan[t].pc = "idle" /\ free > 0 /\ free' = free - 1
  /\ scan' = [scan EXCEPT ![t] = [pc |-> "thread", client |-> TRUE, permit |-> TRUE]]

journal(t) ==
  /\ scan[t].pc = "idle" /\ free > 0 /\ free' = free - 1
  /\ scan' = [scan EXCEPT ![t] = [pc |-> "child", client |-> TRUE, permit |-> TRUE]]

\* journalctl ends well: its output is mapped on a blocking thread, the permit stays with the
\* request.  It may also fail or time out.
journal_mapped(t) ==
  /\ scan[t].pc = "child" /\ UNCHANGED free
  /\ scan' = [scan EXCEPT ![t].pc = "mapping"]

scan_idle(t) == scan' = [scan EXCEPT ![t] = [pc |-> "idle", client |-> FALSE, permit |-> FALSE]]
Returned(t) == free' = free + (IF scan[t].permit THEN 1 ELSE 0)

journal_failed(t) == scan[t].pc = "child" /\ scan_idle(t) /\ Returned(t)

\* The request is dropped with its client: kill_on_drop ends the child, and what the request
\* itself holds is released.
forgets_closure(t) == IF scan[t].pc = "child" THEN scan_idle(t) /\ Returned(t)
                      ELSE scan' = [scan EXCEPT ![t] = [@ EXCEPT !.client = FALSE, !.permit = FALSE]] /\ Returned(t)
client_left(t) == IF scan[t].pc = "thread" THEN scan' = [scan EXCEPT ![t].client = FALSE] /\ UNCHANGED free
                  ELSE IF scan[t].pc = "child" THEN scan_idle(t) /\ Returned(t)
                  ELSE scan' = [scan EXCEPT ![t] = [@ EXCEPT !.client = FALSE, !.permit = FALSE]] /\ Returned(t)
cancel(t) == scan[t].pc # "idle" /\ scan[t].client /\ client_left(t)

run_blocking_ends(t) == scan[t].pc \in {"thread", "mapping"} /\ scan_idle(t) /\ Returned(t)

ScanNext == \E t \in Tasks : \/ query(t) \/ journal(t) \/ journal_mapped(t) \/ journal_failed(t)
                             \/ cancel(t) \/ run_blocking_ends(t)

ScanSpec == ScanInit /\ [][ScanNext]_scan_vars

\* The permits are conserved, and at most agent.max_concurrent_scans files are being scanned,
\* also when their clients have gone (the permit travels with the closure).
ScansBounded ==
  /\ free + Cardinality({t \in Tasks : scan[t].permit}) = MaxScans
  /\ Cardinality({t \in Tasks : scan[t].pc \in {"thread", "child"}}) <= MaxScans

-----------------------------------------------------------------------------
(* config.yaml.  A document is [text, valid, masked, marked]: whether the   *)
(* daemon's check accepts it, whether it holds values GET replaces, and     *)
(* whether it holds the marker it replaces them with.                       *)

VARIABLES file,        \* config.yaml
          temp,        \* [Tasks -> the temporary file beside it, or NoDoc]
          put,         \* [Tasks -> [pc, doc]]
          held         \* what the editor last read

config_vars == <<file, temp, put, held>>

NoDoc == [text |-> "", valid |-> FALSE, masked |-> FALSE, marked |-> FALSE]
NoPut == [pc |-> "idle", doc |-> NoDoc]

ConfigInit ==
  /\ file \in {d \in Docs : d.valid /\ ~d.marked}
  /\ temp = [t \in Tasks |-> NoDoc] /\ put = [t \in Tasks |-> NoPut] /\ held = NoDoc

redact_config_text(d) == [d EXCEPT !.marked = d.marked \/ d.masked]

get_config == held' = redact_config_text(file) /\ UNCHANGED <<file, temp, put>>

\* Refused in this order: the marker, the syntax, the check of the document and of the
\* placeholders it names.  A marked document parses, so it is the marker that stops it.
unmarked_only(d) == d.valid
put_accepts(d) == ~d.marked /\ d.valid

put_config(t) ==
  /\ put[t].pc = "idle"
  /\ \E d \in Docs \cup ({held} \ {NoDoc}) :
       put_accepts(d) /\ put' = [put EXCEPT ![t] = [pc |-> "write", doc |-> d]]
  /\ UNCHANGED <<file, temp, held>>

\* atomic_config_write: the temporary file is written and synced, then renamed.
write_temp(t) ==
  /\ put[t].pc = "write"
  /\ \/ temp' = [temp EXCEPT ![t] = put[t].doc] /\ put' = [put EXCEPT ![t].pc = "rename"]
     \/ put' = [put EXCEPT ![t] = NoPut] /\ UNCHANGED temp
  /\ UNCHANGED <<file, held>>

rename_temp(t) ==
  /\ put[t].pc = "rename"
  /\ file' = temp[t] /\ temp' = [temp EXCEPT ![t] = NoDoc]
  /\ put' = [put EXCEPT ![t] = NoPut] /\ UNCHANGED held

\* The daemon dies: requests are gone, their temporary files may stay behind.
config_crash == put' = [t \in Tasks |-> NoPut] /\ temp' = [t \in Tasks |-> NoDoc] /\ UNCHANGED <<file, held>>

ConfigNext == \/ get_config \/ config_crash
              \/ \E t \in Tasks : put_config(t) \/ write_temp(t) \/ rename_temp(t)

ConfigSpec == ConfigInit /\ [][ConfigNext]_config_vars

\* The file on disk is at every moment a whole document that the check accepted, and never
\* the redacted text that GET hands out: an editor who saves what it loaded is refused
\* (put_config, atomic_config_write).
ConfigSound == file.valid /\ ~file.marked /\ file # NoDoc

-----------------------------------------------------------------------------
(* The Sigma rules in force: an ArcSwap, loaded, copied and stored.        *)

VARIABLES rules,       \* sequence of [id, rev]
          edit         \* [Tasks -> [pc, rules]]

sigma_vars == <<rules, edit>>
NoEdit == [pc |-> "idle", rules |-> <<>>]

SigmaInit == rules = <<>> /\ edit = [t \in Tasks |-> NoEdit]

upsert_appended(rs, r) == Append(rs, r)
upsert_sigma_rule(rs, r) ==
  IF \E i \in DOMAIN rs : rs[i].id = r.id
  THEN [i \in DOMAIN rs |-> IF rs[i].id = r.id THEN r ELSE rs[i]]
  ELSE Append(rs, r)

\* retain: the rules of another identifier, in their order.
without(rs, id) ==
  LET keep == {i \in DOMAIN rs : rs[i].id # id}
  IN  [k \in 1 .. Cardinality(keep) |->
         rs[CHOOSE i \in keep : Cardinality({j \in keep : j < i}) = k - 1]]

\* The request first builds the list it will store from the one it loads.
sigma_load(t) ==
  /\ edit[t].pc = "idle" /\ UNCHANGED rules
  /\ \/ \E r \in [id : RuleIds, rev : {1, 2}] :
          /\ Len(rules) < MaxRules
          /\ edit' = [edit EXCEPT ![t] = [pc |-> "store", rules |-> upsert_sigma_rule(rules, r)]]
     \/ \E id \in RuleIds :
          /\ \E i \in DOMAIN rules : rules[i].id = id
          /\ edit' = [edit EXCEPT ![t] = [pc |-> "store", rules |-> without(rules, id)]]

sigma_store(t) ==
  /\ edit[t].pc = "store" /\ rules' = edit[t].rules
  /\ edit' = [edit EXCEPT ![t] = NoEdit]

SigmaNext == \E t \in Tasks : sigma_load(t) \/ sigma_store(t)

SigmaSpec == SigmaInit /\ [][SigmaNext]_sigma_vars

\* However requests overlap, no identifier is in force twice: GET and DELETE by identifier
\* name one rule (upsert_sigma_rule replaces before it appends).
RulesUnique == \A i, j \in DOMAIN rules : rules[i].id = rules[j].id => i = j

-----------------------------------------------------------------------------
(* POST /api/ingest/logs: at most MaxPush requests per window of one       *)
(* second (two ticks).                                                     *)

VARIABLES clock,
          window,      \* [start, count]: AppState.push_window
          taken        \* [tick -> requests accepted]

push_vars == <<clock, window, taken>>
PushInit == clock = 0 /\ window = [start |-> 0, count |-> 0] /\ taken = [i \in 0..MaxTicks |-> 0]

tick == clock < MaxTicks /\ clock' = clock + 1 /\ UNCHANGED <<window, taken>>

\* A refused request is not counted.
push_reset(w) == IF clock - w.start >= 1 THEN [start |-> clock, count |-> 0] ELSE w
push_rate_limit_ok(w) == IF clock - w.start >= 2 THEN [start |-> clock, count |-> 0] ELSE w

post_ingest_logs ==
  LET w == push_rate_limit_ok(window)
      ok == w.count < MaxPush
  IN  /\ window' = [w EXCEPT !.count = @ + (IF ok THEN 1 ELSE 0)]
      /\ taken' = [taken EXCEPT ![clock] = @ + (IF ok THEN 1 ELSE 0)]
      /\ UNCHANGED clock

PushNext == tick \/ post_ingest_logs

PushSpec == PushInit /\ [][PushNext]_push_vars

\* The window starts anew at the first request after it ended, so a second that straddles
\* two windows may see two limits; no second and a half ever sees more (push_rate_limit_ok).
PushBounded == \A i \in 0..(MaxTicks - 2) : taken[i] + taken[i + 1] + taken[i + 2] <= 2 * MaxPush

-----------------------------------------------------------------------------

UiSpec == BanSpec /\ SlotSpec /\ ScanSpec /\ ConfigSpec /\ SigmaSpec /\ PushSpec

\* What the interface keeps is kept right: streams add up, slots are given back, the file on
\* disk is a whole accepted document, rules are unique and pushes are limited.
UiSound == StreamsAddUp /\ SlotsExact /\ ScansBounded /\ ConfigSound /\ RulesUnique /\ PushBounded
=============================================================================
