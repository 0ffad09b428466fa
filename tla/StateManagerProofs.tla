------------------------- MODULE StateManagerProofs -------------------------
(***************************************************************************)
(* Durability of the persistence layer and the safety of the bans it holds *)
(* for every set of networks, every clock and every combination of faults. *)
(*                                                                         *)
(* The argument has two halves.  The first is about replay as a function:  *)
(* replaying one more entry is replaying the rest and then the entry, and  *)
(* replaying a log over a state that already contains it changes nothing.  *)
(* The second is the invariant DurInv: every pair of a log file and a      *)
(* snapshot that a crash may leave behind replays to the memory of the     *)
(* process, or to that memory with the entry in doubt applied.             *)
(***************************************************************************)
EXTENDS StateManager, NetProofs, TLAPS

\* First-order reasoning is left to Zenon; a leaf on numbers, sequences or records cites SMT.
USE Zenon

-----------------------------------------------------------------------------
(* Replay as a function.                                                   *)

\* A non-empty set of positions of a sequence has a last one.
LEMMA LastExists ==
  ASSUME NEW N \in Nat, NEW S, S \subseteq 1..N, S # {}
  PROVE  \E i \in S : \A j \in S : j <= i
<1> DEFINE T == {N - i : i \in S}
<1>1. T \subseteq Nat /\ T # {}
  <2>1. \A i \in S : N - i \in Nat
    BY SMT
  <2> QED
    BY <2>1
<1>2. PICK t \in T : \A y \in T : ~(<<y, t>> \in OpToRel(<, Nat))
  BY <1>1, WFMin, NatLessThanWellFounded
<1>3. \A y \in T : ~(y < t)
  BY <1>1, <1>2 DEF OpToRel
<1>4. PICK i \in S : t = N - i
  OBVIOUS
<1>5. \A j \in S : j <= i
  BY <1>3, <1>4, SMT
<1> QED
  BY <1>5

\* The effect of one write.
Put(m, x) == [n \in Keys |-> IF x.key = n THEN x.val ELSE m[n]]

\* v is u, of length N, and one write more.
OneMore(u, v, N) ==
  /\ N \in Nat /\ DOMAIN u = 1..N /\ DOMAIN v = 1..(N + 1)
  /\ \A i \in 1..N : v[i] = u[i]

LEMMA LastWritesAppend ==
  ASSUME NEW m, NEW u, NEW v, NEW N, OneMore(u, v, N)
  PROVE  LastWrites(m, v) = Put(LastWrites(m, u), v[N + 1])
<1> DEFINE M == N + 1
<1>a. /\ N \in Nat /\ M \in Nat /\ DOMAIN u = 1..N /\ DOMAIN v = 1..M
      /\ \A i \in 1..N : v[i] = u[i]
  BY SMT DEF OneMore
<1>0. \A w : LastWrites(m, w) = [n \in Keys |-> LastWrites(m, w)[n]]
  BY SMT DEF LastWrites
<1> SUFFICES ASSUME NEW n \in Keys
             PROVE  LastWrites(m, v)[n] = IF v[M].key = n THEN v[M].val ELSE LastWrites(m, u)[n]
  BY <1>0 DEF Put
<1> DEFINE at(w) == {i \in DOMAIN w : w[i].key = n}
           last(S) == CHOOSE i \in S : \A j \in S : j <= i
<1>1. \A w : LastWrites(m, w)[n] = IF at(w) = {} THEN m[n] ELSE w[last(at(w))].val
  BY DEF LastWrites
<1>2. at(u) \subseteq 1..N /\ at(v) \subseteq 1..M
  BY <1>a
<1>3. CASE v[M].key = n
  <2>1. M \in at(v)
    BY <1>a, <1>3, SMT
  <2>2. PICK i \in at(v) : \A j \in at(v) : j <= i
    BY <1>a, <1>2, <2>1, LastExists
  <2>3. last(at(v)) \in at(v) /\ \A j \in at(v) : j <= last(at(v))
    BY <2>2
  <2>4. last(at(v)) = M
    BY <1>a, <2>1, <2>3, <1>2, SMT
  <2> HIDE DEF at, last
  <2> QED
    BY <1>1, <1>3, <2>1, <2>4
<1>4. CASE v[M].key # n
  <2>1. at(v) = at(u)
    BY <1>a, <1>4, SMT
  <2>2. CASE at(u) = {}
    BY <1>1, <1>4, <2>1, <2>2
  <2>3. CASE at(u) # {}
    <3>1. PICK i \in at(u) : \A j \in at(u) : j <= i
      BY <1>a, <1>2, <2>3, LastExists
    <3>2. last(at(u)) \in at(u)
      BY <3>1
    <3>3. v[last(at(u))] = u[last(at(u))]
      BY <1>a, <3>2, <1>2
    <3> HIDE DEF at, last
    <3> QED
      BY <1>1, <1>4, <2>1, <2>3, <3>3
  <2> QED
    BY <2>2, <2>3
<1> QED
  BY <1>3, <1>4

\* A map that already holds the last writes is left as it is.
LEMMA LastWritesIdempotent ==
  ASSUME NEW m, NEW u
  PROVE  LastWrites(LastWrites(m, u), u) = LastWrites(m, u)
<1> DEFINE at(n) == {i \in DOMAIN u : u[i].key = n}
           val(n) == u[CHOOSE i \in at(n) : \A j \in at(n) : j <= i].val
<1>1. \A k : LastWrites(k, u) = [n \in Keys |-> IF at(n) = {} THEN k[n] ELSE val(n)]
  BY DEF LastWrites
<1> HIDE DEF at, val
<1> QED
  BY <1>1

LEMMA LastWritesNone ==
  ASSUME NEW m, NEW u, DOMAIN u = {}
  PROVE  LastWrites(m, u) = [n \in Keys |-> m[n]]
BY DEF LastWrites

LEMMA LastWritesOne ==
  ASSUME NEW m, NEW u, DOMAIN u = 1..1
  PROVE  LastWrites(m, u) = Put(m, u[1])
<1> DEFINE none == [i \in 1..0 |-> u[i]]
<1>1. LastWrites(m, none) = [n \in Keys |-> m[n]]
  BY LastWritesNone, SMT
<1>2. OneMore(none, u, 0)
  BY SMT DEF OneMore
<1> HIDE DEF none
<1>3. LastWrites(m, u) = Put(LastWrites(m, none), u[0 + 1])
  BY <1>2, LastWritesAppend, SMT
<1> QED
  BY <1>1, <1>3, SMT DEF Put

LEMMA ApplyEntry ==
  ASSUME NEW db, NEW e
  PROVE  apply_entry(db, e) = [bans        |-> Put(db.bans, BanWrite(e)),
                               whitelist   |-> Put(db.whitelist, WhitelistWrite(e)),
                               revocations |-> Put(db.revocations, RevocationWrite(e))]
<1>1. Len(<<e>>) = 1 /\ <<e>>[1] = e
  OBVIOUS
<1> QED
  BY <1>1, LastWritesOne, SMT DEF apply_entry, replay

LEMMA ReplayAppend ==
  ASSUME NEW db, NEW w \in Seq(Entry), NEW e \in Entry
  PROVE  replay(db, Append(w, e)) = apply_entry(replay(db, w), e)
<1>1. PICK N \in Nat, M \in Nat :
        /\ N = Len(w) /\ M = Len(Append(w, e)) /\ M = N + 1
        /\ \A i \in 1..N : Append(w, e)[i] = w[i]
        /\ Append(w, e)[M] = e
  BY SMT
<1>2. replay(db, Append(w, e)).bans = Put(replay(db, w).bans, BanWrite(e))
  <2> DEFINE u == [i \in 1..N |-> BanWrite(w[i])]
             v == [i \in 1..M |-> BanWrite(Append(w, e)[i])]
  <2>1. replay(db, Append(w, e)).bans = LastWrites(db.bans, v) /\ replay(db, w).bans = LastWrites(db.bans, u)
    BY <1>1 DEF replay
  <2>2. OneMore(u, v, N) /\ v[N + 1] = BanWrite(e)
    BY <1>1, SMT DEF OneMore
  <2> HIDE DEF u, v
  <2>3. LastWrites(db.bans, v) = Put(LastWrites(db.bans, u), v[N + 1])
    BY <2>2, LastWritesAppend, SMT
  <2> QED
    BY <2>1, <2>2, <2>3
<1>3. replay(db, Append(w, e)).whitelist = Put(replay(db, w).whitelist, WhitelistWrite(e))
  <2> DEFINE u == [i \in 1..N |-> WhitelistWrite(w[i])]
             v == [i \in 1..M |-> WhitelistWrite(Append(w, e)[i])]
  <2>1. replay(db, Append(w, e)).whitelist = LastWrites(db.whitelist, v) /\ replay(db, w).whitelist = LastWrites(db.whitelist, u)
    BY <1>1 DEF replay
  <2>2. OneMore(u, v, N) /\ v[N + 1] = WhitelistWrite(e)
    BY <1>1, SMT DEF OneMore
  <2> HIDE DEF u, v
  <2>3. LastWrites(db.whitelist, v) = Put(LastWrites(db.whitelist, u), v[N + 1])
    BY <2>2, LastWritesAppend, SMT
  <2> QED
    BY <2>1, <2>2, <2>3
<1>4. replay(db, Append(w, e)).revocations = Put(replay(db, w).revocations, RevocationWrite(e))
  <2> DEFINE u == [i \in 1..N |-> RevocationWrite(w[i])]
             v == [i \in 1..M |-> RevocationWrite(Append(w, e)[i])]
  <2>1. replay(db, Append(w, e)).revocations = LastWrites(db.revocations, v) /\ replay(db, w).revocations = LastWrites(db.revocations, u)
    BY <1>1 DEF replay
  <2>2. OneMore(u, v, N) /\ v[N + 1] = RevocationWrite(e)
    BY <1>1, SMT DEF OneMore
  <2> HIDE DEF u, v
  <2>3. LastWrites(db.revocations, v) = Put(LastWrites(db.revocations, u), v[N + 1])
    BY <2>2, LastWritesAppend, SMT
  <2> QED
    BY <2>1, <2>2, <2>3
<1> QED
  BY <1>2, <1>3, <1>4, ApplyEntry DEF replay

LEMMA ReplayIdempotent ==
  ASSUME NEW db, NEW w
  PROVE  replay(replay(db, w), w) = replay(db, w)
BY LastWritesIdempotent DEF replay

LEMMA ReplayEmpty ==
  ASSUME NEW db \in Db
  PROVE  replay(db, <<>>) = db
<1>1. \A m : LastWrites(m, [i \in 1..0 |-> 0]) = [n \in Keys |-> m[n]]
  BY LastWritesNone, SMT
<1>2. Len(<<>>) = 0
  OBVIOUS
<1>3. \A m, u : DOMAIN u = {} => LastWrites(m, u) = [n \in Keys |-> m[n]]
  BY LastWritesNone
<1>4. replay(db, <<>>) = [bans |-> [n \in Keys |-> db.bans[n]],
                          whitelist |-> [n \in Keys |-> db.whitelist[n]],
                          revocations |-> [n \in Keys |-> db.revocations[n]]]
  BY <1>2, <1>3, SMT DEF replay
<1> QED
  BY <1>4 DEF Db

-----------------------------------------------------------------------------
(* The mutations: the memory a method leaves is its log entry applied.     *)

LEMMA PutNoWrite ==
  ASSUME NEW m, m = [n \in Keys |-> m[n]]
  PROVE  Put(m, NoWrite) = m
BY AbsentAssumption DEF Put, NoWrite, Write

LEMMA DbFunctions ==
  ASSUME NEW db \in Db
  PROVE  /\ db.bans = [n \in Keys |-> db.bans[n]]
         /\ db.whitelist = [n \in Keys |-> db.whitelist[n]]
         /\ db.revocations = [n \in Keys |-> db.revocations[n]]
         /\ db = [bans |-> db.bans, whitelist |-> db.whitelist, revocations |-> db.revocations]
BY DEF Db

LEMMA DbNoWrite ==
  ASSUME NEW db \in Db
  PROVE  /\ Put(db.bans, NoWrite) = db.bans
         /\ Put(db.whitelist, NoWrite) = db.whitelist
         /\ Put(db.revocations, NoWrite) = db.revocations
BY DbFunctions, PutNoWrite

LEMMA ApplyAddBan ==
  ASSUME NEW db \in Db, NEW n \in Keys, NEW b
  PROVE  apply_entry(db, [op |-> "AddBan", net |-> n, ban |-> b]) = SetBan(db, n, b)
<1> DEFINE e == [op |-> "AddBan", net |-> n, ban |-> b]
<1>1. BanWrite(e) = Write(n, b) /\ WhitelistWrite(e) = NoWrite /\ RevocationWrite(e) = NoWrite
  BY DEF BanWrite, WhitelistWrite, RevocationWrite
<1> HIDE DEF e
<1>2. apply_entry(db, e) = [bans        |-> Put(db.bans, BanWrite(e)),
                            whitelist   |-> Put(db.whitelist, WhitelistWrite(e)),
                            revocations |-> Put(db.revocations, RevocationWrite(e))]
  BY ApplyEntry
<1>3. /\ Put(db.bans, BanWrite(e)) = [db.bans EXCEPT ![n] = b]
      /\ Put(db.whitelist, WhitelistWrite(e)) = db.whitelist
      /\ Put(db.revocations, RevocationWrite(e)) = db.revocations
  <2>1. Put(db.bans, Write(n, b)) = [db.bans EXCEPT ![n] = b]
    BY DEF Put, Write, Db
  <2>2. Put(db.whitelist, NoWrite) = db.whitelist
    BY DbNoWrite
  <2>3. Put(db.revocations, NoWrite) = db.revocations
    BY DbNoWrite
  <2> QED
    BY <1>1, <2>1, <2>2, <2>3
<1>4. apply_entry(db, e) = SetBan(db, n, b)
  BY <1>2, <1>3 DEF SetBan
<1> QED
  BY <1>4 DEF e

LEMMA ApplyRemoveBan ==
  ASSUME NEW db \in Db, NEW n \in Keys
  PROVE  apply_entry(db, [op |-> "RemoveBan", net |-> n]) = SetBan(db, n, NoBan)
<1> DEFINE e == [op |-> "RemoveBan", net |-> n]
<1>1. BanWrite(e) = Write(n, NoBan) /\ WhitelistWrite(e) = NoWrite /\ RevocationWrite(e) = NoWrite
  BY DEF BanWrite, WhitelistWrite, RevocationWrite
<1> HIDE DEF e
<1>2. apply_entry(db, e) = [bans        |-> Put(db.bans, BanWrite(e)),
                            whitelist   |-> Put(db.whitelist, WhitelistWrite(e)),
                            revocations |-> Put(db.revocations, RevocationWrite(e))]
  BY ApplyEntry
<1>3. /\ Put(db.bans, BanWrite(e)) = [db.bans EXCEPT ![n] = NoBan]
      /\ Put(db.whitelist, WhitelistWrite(e)) = db.whitelist
      /\ Put(db.revocations, RevocationWrite(e)) = db.revocations
  <2>1. Put(db.bans, Write(n, NoBan)) = [db.bans EXCEPT ![n] = NoBan]
    BY DEF Put, Write, Db
  <2>2. Put(db.whitelist, NoWrite) = db.whitelist
    BY DbNoWrite
  <2>3. Put(db.revocations, NoWrite) = db.revocations
    BY DbNoWrite
  <2> QED
    BY <1>1, <2>1, <2>2, <2>3
<1>4. apply_entry(db, e) = SetBan(db, n, NoBan)
  BY <1>2, <1>3 DEF SetBan
<1> QED
  BY <1>4 DEF e

LEMMA ApplyAddWhitelist ==
  ASSUME NEW db \in Db, NEW n \in Keys
  PROVE  apply_entry(db, [op |-> "AddWhitelist", net |-> n]) = SetWhitelisted(db, n, TRUE)
<1> DEFINE e == [op |-> "AddWhitelist", net |-> n]
<1>1. BanWrite(e) = NoWrite /\ WhitelistWrite(e) = Write(n, TRUE) /\ RevocationWrite(e) = NoWrite
  BY DEF BanWrite, WhitelistWrite, RevocationWrite
<1> HIDE DEF e
<1>2. apply_entry(db, e) = [bans        |-> Put(db.bans, BanWrite(e)),
                            whitelist   |-> Put(db.whitelist, WhitelistWrite(e)),
                            revocations |-> Put(db.revocations, RevocationWrite(e))]
  BY ApplyEntry
<1>3. /\ Put(db.bans, BanWrite(e)) = db.bans
      /\ Put(db.whitelist, WhitelistWrite(e)) = [db.whitelist EXCEPT ![n] = TRUE]
      /\ Put(db.revocations, RevocationWrite(e)) = db.revocations
  <2>1. Put(db.bans, NoWrite) = db.bans
    BY DbNoWrite
  <2>2. Put(db.whitelist, Write(n, TRUE)) = [db.whitelist EXCEPT ![n] = TRUE]
    BY DEF Put, Write, Db
  <2>3. Put(db.revocations, NoWrite) = db.revocations
    BY DbNoWrite
  <2> QED
    BY <1>1, <2>1, <2>2, <2>3
<1>4. apply_entry(db, e) = SetWhitelisted(db, n, TRUE)
  BY <1>2, <1>3 DEF SetWhitelisted
<1> QED
  BY <1>4 DEF e

LEMMA ApplyRemoveWhitelist ==
  ASSUME NEW db \in Db, NEW n \in Keys
  PROVE  apply_entry(db, [op |-> "RemoveWhitelist", net |-> n]) = SetWhitelisted(db, n, FALSE)
<1> DEFINE e == [op |-> "RemoveWhitelist", net |-> n]
<1>1. BanWrite(e) = NoWrite /\ WhitelistWrite(e) = Write(n, FALSE) /\ RevocationWrite(e) = NoWrite
  BY DEF BanWrite, WhitelistWrite, RevocationWrite
<1> HIDE DEF e
<1>2. apply_entry(db, e) = [bans        |-> Put(db.bans, BanWrite(e)),
                            whitelist   |-> Put(db.whitelist, WhitelistWrite(e)),
                            revocations |-> Put(db.revocations, RevocationWrite(e))]
  BY ApplyEntry
<1>3. /\ Put(db.bans, BanWrite(e)) = db.bans
      /\ Put(db.whitelist, WhitelistWrite(e)) = [db.whitelist EXCEPT ![n] = FALSE]
      /\ Put(db.revocations, RevocationWrite(e)) = db.revocations
  <2>1. Put(db.bans, NoWrite) = db.bans
    BY DbNoWrite
  <2>2. Put(db.whitelist, Write(n, FALSE)) = [db.whitelist EXCEPT ![n] = FALSE]
    BY DEF Put, Write, Db
  <2>3. Put(db.revocations, NoWrite) = db.revocations
    BY DbNoWrite
  <2> QED
    BY <1>1, <2>1, <2>2, <2>3
<1>4. apply_entry(db, e) = SetWhitelisted(db, n, FALSE)
  BY <1>2, <1>3 DEF SetWhitelisted
<1> QED
  BY <1>4 DEF e

LEMMA ApplyRevoke ==
  ASSUME NEW db \in Db, NEW n \in Keys, NEW c
  PROVE  apply_entry(db, [op |-> "RevokeBan", net |-> n, cutoff |-> c]) = SetRevoked(SetBan(db, n, NoBan), n, c)
<1> DEFINE e == [op |-> "RevokeBan", net |-> n, cutoff |-> c]
<1>1. BanWrite(e) = Write(n, NoBan) /\ WhitelistWrite(e) = NoWrite /\ RevocationWrite(e) = Write(n, c)
  BY DEF BanWrite, WhitelistWrite, RevocationWrite
<1> HIDE DEF e
<1>2. apply_entry(db, e) = [bans        |-> Put(db.bans, BanWrite(e)),
                            whitelist   |-> Put(db.whitelist, WhitelistWrite(e)),
                            revocations |-> Put(db.revocations, RevocationWrite(e))]
  BY ApplyEntry
<1>3. /\ Put(db.bans, BanWrite(e)) = [db.bans EXCEPT ![n] = NoBan]
      /\ Put(db.whitelist, WhitelistWrite(e)) = db.whitelist
      /\ Put(db.revocations, RevocationWrite(e)) = [db.revocations EXCEPT ![n] = c]
  <2>1. Put(db.bans, Write(n, NoBan)) = [db.bans EXCEPT ![n] = NoBan]
    BY DEF Put, Write, Db
  <2>2. Put(db.whitelist, NoWrite) = db.whitelist
    BY DbNoWrite
  <2>3. Put(db.revocations, Write(n, c)) = [db.revocations EXCEPT ![n] = c]
    BY DEF Put, Write, Db
  <2> QED
    BY <1>1, <2>1, <2>2, <2>3
<1>4. apply_entry(db, e) = SetRevoked(SetBan(db, n, NoBan), n, c)
  BY <1>2, <1>3 DEF SetBan, SetRevoked
<1> QED
  BY <1>4 DEF e

LEMMA ApplyAddCrdt ==
  ASSUME NEW db \in Db, NEW n, NEW r
  PROVE  apply_entry(db, [op |-> "AddCrdtBan", net |-> n, rec |-> r]) = db
<1> DEFINE e == [op |-> "AddCrdtBan", net |-> n, rec |-> r]
<1>1. BanWrite(e) = NoWrite /\ WhitelistWrite(e) = NoWrite /\ RevocationWrite(e) = NoWrite
  BY DEF BanWrite, WhitelistWrite, RevocationWrite
<1> HIDE DEF e
<1>2. apply_entry(db, e) = [bans        |-> Put(db.bans, BanWrite(e)),
                            whitelist   |-> Put(db.whitelist, WhitelistWrite(e)),
                            revocations |-> Put(db.revocations, RevocationWrite(e))]
  BY ApplyEntry
<1>3. /\ Put(db.bans, BanWrite(e)) = db.bans
      /\ Put(db.whitelist, WhitelistWrite(e)) = db.whitelist
      /\ Put(db.revocations, RevocationWrite(e)) = db.revocations
  BY <1>1, DbNoWrite
<1>4. apply_entry(db, e) = db
  BY <1>2, <1>3, DbFunctions
<1> QED
  BY <1>4 DEF e

LEMMA ApplyTombstone ==
  ASSUME NEW db \in Db, NEW n
  PROVE  apply_entry(db, [op |-> "TombstoneCrdtBan", net |-> n]) = db
<1> DEFINE e == [op |-> "TombstoneCrdtBan", net |-> n]
<1>1. BanWrite(e) = NoWrite /\ WhitelistWrite(e) = NoWrite /\ RevocationWrite(e) = NoWrite
  BY DEF BanWrite, WhitelistWrite, RevocationWrite
<1> HIDE DEF e
<1>2. apply_entry(db, e) = [bans        |-> Put(db.bans, BanWrite(e)),
                            whitelist   |-> Put(db.whitelist, WhitelistWrite(e)),
                            revocations |-> Put(db.revocations, RevocationWrite(e))]
  BY ApplyEntry
<1>3. /\ Put(db.bans, BanWrite(e)) = db.bans
      /\ Put(db.whitelist, WhitelistWrite(e)) = db.whitelist
      /\ Put(db.revocations, RevocationWrite(e)) = db.revocations
  BY <1>1, DbNoWrite
<1>4. apply_entry(db, e) = db
  BY <1>2, <1>3, DbFunctions
<1> QED
  BY <1>4 DEF e

\* An entry keeps the state well formed.
LEMMA ApplyType ==
  ASSUME NEW db \in Db, NEW e \in Entry
  PROVE  apply_entry(db, e) \in Db
<1>1. CASE e \in [op : {"AddBan"}, net : Keys, ban : Ban]
  <2>1. e = [op |-> "AddBan", net |-> e.net, ban |-> e.ban] /\ e.net \in Keys /\ e.ban \in Ban
    BY <1>1
  <2>2. apply_entry(db, e) = SetBan(db, e.net, e.ban)
    BY <2>1, ApplyAddBan
  <2> QED
    BY <2>1, <2>2, SMT DEF Db, SetBan, SetWhitelisted, SetRevoked
<1>2. CASE e \in [op : {"RevokeBan"}, net : Keys, cutoff : Time]
  <2>1. e = [op |-> "RevokeBan", net |-> e.net, cutoff |-> e.cutoff] /\ e.net \in Keys /\ e.cutoff \in Time
    BY <1>2
  <2>2. apply_entry(db, e) = SetRevoked(SetBan(db, e.net, NoBan), e.net, e.cutoff)
    BY <2>1, ApplyRevoke
  <2>3. [db.bans EXCEPT ![e.net] = NoBan] \in [Keys -> Ban \cup {NoBan}]
    BY DEF Db
  <2>4. [db.revocations EXCEPT ![e.net] = e.cutoff] \in [Keys -> Time \cup {NoTime}]
    BY <2>1 DEF Db
  <2> QED
    BY <2>2, <2>3, <2>4, SMT DEF Db, SetBan, SetRevoked
<1>3. CASE e \in [op : {"RemoveBan", "AddWhitelist", "RemoveWhitelist", "TombstoneCrdtBan"}, net : Keys]
  <2>1. /\ e = [op |-> e.op, net |-> e.net] /\ e.net \in Keys
        /\ e.op \in {"RemoveBan", "AddWhitelist", "RemoveWhitelist", "TombstoneCrdtBan"}
    BY <1>3
  <2>2. \/ apply_entry(db, e) = SetBan(db, e.net, NoBan)
        \/ apply_entry(db, e) = SetWhitelisted(db, e.net, TRUE)
        \/ apply_entry(db, e) = SetWhitelisted(db, e.net, FALSE)
        \/ apply_entry(db, e) = db
    BY <2>1, ApplyRemoveBan, ApplyAddWhitelist, ApplyRemoveWhitelist, ApplyTombstone
  <2>3. [db.bans EXCEPT ![e.net] = NoBan] \in [Keys -> Ban \cup {NoBan}]
    BY DEF Db
  <2>4. \A v \in BOOLEAN : [db.whitelist EXCEPT ![e.net] = v] \in [Keys -> BOOLEAN]
    BY DEF Db
  <2>5. /\ SetBan(db, e.net, NoBan) \in Db
        /\ \A v \in BOOLEAN : SetWhitelisted(db, e.net, v) \in Db
    BY <2>3, <2>4 DEF Db, SetBan, SetWhitelisted
  <2> QED
    BY <2>2, <2>5
<1>4. CASE e \in {[op |-> "AddCrdtBan", net |-> i.net, rec |-> i.rec] : i \in CrdtInputs}
  BY <1>4, ApplyAddCrdt, ZenonT(60)
<1> QED
  BY <1>1, <1>2, <1>3, <1>4 DEF Entry

-----------------------------------------------------------------------------
(* The inductive invariant.                                                *)

File == [recs : Seq(Entry), torn : BOOLEAN]

\* Replaying the log f leads to m, from every snapshot of S and from the memory.
LeadsTo(S, memory, f, m) ==
  /\ replay(memory, f.recs) = m
  /\ \A s \in S : replay(s.db, f.recs) = m

DiskType ==
  /\ snap \in snapFiles /\ \A s \in snapFiles : s.db \in Db
  /\ wal \in walFiles /\ walFiles \subseteq File
  /\ doubt \in Entry \cup {NoEntry}

\* What every log file a crash may leave behind means.
Readable ==
  \A f \in walFiles :
    \/ LeadsTo(snapFiles, mem, f, mem)
    \/ doubt # NoEntry /\ LeadsTo(snapFiles, mem, f, apply_entry(mem, doubt))

\* A writer that accepts records has an intact file and nothing in doubt.
WriterSound == phase # "down" /\ ~write_failed => doubt = NoEntry /\ ~wal.torn

\* The stages of take_snapshot.
SnapshotStages ==
  /\ task \in {"renamed", "dirsynced", "truncated"} => snap.db = mem
  /\ task \in {"dirsynced", "truncated"} => snapFiles = {snap}
  /\ task = "truncated" => wal = EmptyFile
  /\ phase = "down" => task = "idle"

DurInv == TypeOK /\ DiskType /\ Readable /\ WriterSound /\ SnapshotStages

\* The revoke loop has still to visit every ban that overlaps the whitelist.
ProtInv ==
  /\ phase = "finishing" => task \in {"revoke", "tombstone"}
  /\ task \in {"revoke", "tombstone"} => Overlapping(mem) \subseteq todo
  /\ phase = "serving" /\ task \notin {"revoke", "tombstone"} /\ ~halfRevoked => Overlapping(mem) = {}

\* The stored cutoff of a key never falls behind an unban of it, not even by
\* the entry in doubt.
RevInv ==
  /\ everRevoked \in [Keys -> Time \cup {NoTime}]
  /\ \A k \in Keys : everRevoked[k] # NoTime =>
       mem.revocations[k] # NoTime /\ everRevoked[k] <= mem.revocations[k]
  /\ doubt # NoEntry /\ doubt.op = "RevokeBan" /\ mem.revocations[doubt.net] # NoTime
       => mem.revocations[doubt.net] <= doubt.cutoff

-----------------------------------------------------------------------------
(* DurInv is inductive.  Every mutation is an append, whose two outcomes   *)
(* are AppendOk and AppendErr.                                             *)

LEMMA AppendOk ==
  ASSUME DurInv, phase # "down", NEW e \in Entry, append_ok(e), mem' = apply_entry(mem, e)
  PROVE  DiskType' /\ Readable' /\ WriterSound' /\ mem' \in Db /\ snap' = snap /\ wal' \in File
<1>1. /\ doubt = NoEntry /\ doubt' = NoEntry /\ ~write_failed' /\ wal.torn = FALSE
      /\ snap' = snap /\ snapFiles' = snapFiles /\ walFiles' = {wal'}
  BY DEF DurInv, WriterSound, append_ok, DiskType, File, TypeOK
<1>2. wal \in File /\ wal.recs \in Seq(Entry) /\ mem \in Db /\ snap \in snapFiles
  BY DEF DurInv, DiskType, File, TypeOK
<1>3. wal'.recs = Append(wal.recs, e) /\ wal'.torn = FALSE /\ wal' \in File
  BY <1>1, <1>2, SMT DEF append_ok, WithRecord, File
<1>4. LeadsTo(snapFiles, mem, wal, mem)
  BY <1>1 DEF DurInv, Readable, DiskType
<1>5. \A s \in snapFiles : replay(s.db, wal'.recs) = mem'
  BY <1>2, <1>3, <1>4, ReplayAppend, ZenonT(60) DEF LeadsTo
<1>6. replay(mem', wal'.recs) = mem'
  BY <1>2, <1>5, ReplayIdempotent
<1>7. Readable'
  BY <1>1, <1>5, <1>6 DEF Readable, LeadsTo
<1>8. mem' \in Db
  BY <1>2, ApplyType
<1> QED
  BY <1>1, <1>2, <1>3, <1>7, <1>8 DEF DiskType, WriterSound, DurInv

LEMMA AppendErr ==
  ASSUME DurInv, phase # "down", NEW e \in Entry, append_err(e), mem' = mem
  PROVE  DiskType' /\ Readable' /\ WriterSound' /\ mem' \in Db /\ snap' = snap /\ wal' \in File
<1>1. /\ doubt = NoEntry /\ doubt' = e /\ e # NoEntry /\ write_failed' = TRUE /\ wal.torn = FALSE
      /\ snap' = snap /\ snapFiles' = snapFiles /\ walFiles' = walFiles \cup {wal'}
  BY EntryAssumption DEF DurInv, WriterSound, append_err, DiskType, File, TypeOK
<1>2. wal \in File /\ wal.recs \in Seq(Entry) /\ mem \in Db /\ snap \in snapFiles
  BY DEF DurInv, DiskType, File, TypeOK
<1>3. wal' \in File /\ (wal'.recs = wal.recs \/ wal'.recs = Append(wal.recs, e))
  <2>1. /\ WithTornRecord(wal) \in File /\ WithTornRecord(wal).recs = wal.recs
        /\ WithRecord(wal, e) \in File /\ WithRecord(wal, e).recs = Append(wal.recs, e)
    BY <1>1, <1>2, SMT DEF WithRecord, WithTornRecord, File
  <2>2. wal' \in {wal, WithTornRecord(wal), WithRecord(wal, e)}
    BY DEF append_err
  <2> QED
    BY <1>2, <2>1, <2>2
<1>4. \A f \in walFiles : LeadsTo(snapFiles, mem, f, mem)
  BY <1>1 DEF DurInv, Readable
<1>5. \A f \in walFiles : LeadsTo(snapFiles', mem', f, mem')
  BY <1>1, <1>4 DEF LeadsTo
<1>6. CASE wal'.recs = wal.recs
  <2>1. LeadsTo(snapFiles, mem, wal, mem)
    BY <1>4 DEF DurInv, DiskType
  <2>2. LeadsTo(snapFiles', mem', wal', mem')
    BY <1>1, <1>6, <2>1 DEF LeadsTo
  <2> QED
    BY <1>1, <1>2, <1>3, <1>5, <2>2 DEF Readable, DiskType, WriterSound, DurInv
<1>7. CASE wal'.recs = Append(wal.recs, e)
  <2> DEFINE m == apply_entry(mem, e)
  <2>1. LeadsTo(snapFiles, mem, wal, mem)
    BY <1>4 DEF DurInv, DiskType
  <2>2. \A s \in snapFiles : replay(s.db, wal'.recs) = m
    BY <1>2, <1>7, <2>1, ReplayAppend DEF LeadsTo
  <2>3. replay(mem, wal'.recs) = m
    BY <1>2, <1>7, <2>1, ReplayAppend DEF LeadsTo
  <2>4. LeadsTo(snapFiles', mem', wal', apply_entry(mem', doubt'))
    BY <1>1, <2>2, <2>3 DEF LeadsTo
  <2> QED
    BY <1>1, <1>2, <1>3, <1>5, <2>4 DEF Readable, DiskType, WriterSound, DurInv
<1> QED
  BY <1>3, <1>6, <1>7

Appended(e) ==
  \/ append_ok(e) /\ mem' = apply_entry(mem, e) /\ phase' = phase
  \/ append_err(e) /\ mem' = mem

\* What the steps that write the log have in common.
Mutation ==
  /\ phase # "down"
  /\ \E e \in Entry : Appended(e)
  /\ task' \in {"idle", "revoke", "tombstone"}
  /\ phase' \in {"down", "starting", "finishing", "serving"}
  /\ phase' = "down" => task' = "idle"
  /\ todo' \subseteq Keys /\ halfRevoked' \in BOOLEAN

LEMMA MutationStep ==
  ASSUME DurInv, Mutation
  PROVE  DurInv'
<1>0. PICK e \in Entry : Appended(e)
  BY DEF Mutation
<1>1. DiskType' /\ Readable' /\ WriterSound' /\ mem' \in Db /\ snap' = snap /\ wal' \in File
  BY <1>0, AppendOk, AppendErr DEF Appended, Mutation
<1>2. write_failed' \in BOOLEAN
  BY <1>0 DEF Appended, append_ok, append_err, DurInv, TypeOK
<1>3. TypeOK'
  BY <1>1, <1>2 DEF TypeOK, DurInv, File, Mutation
<1> QED
  BY <1>1, <1>3 DEF DurInv, SnapshotStages, Mutation

LEMMA LoggedStep ==
  ASSUME DurInv, Serving, NEW e \in Entry, NEW m, NEW c, Logged(e, m, c), m = apply_entry(mem, e)
  PROVE  Mutation
<1>1. Appended(e)
  BY DEF Logged, Appended
<1>2. phase = "serving" /\ task = "idle" /\ phase' = phase /\ task' = task /\ todo' = todo
      /\ halfRevoked' = halfRevoked
  BY DEF Logged, Serving
<1> QED
  BY <1>1, <1>2 DEF Mutation, DurInv, TypeOK

LEMMA AddBanStep ==
  ASSUME DurInv, Serving, NEW s \in Keys, NEW b \in Ban, add_ban(s, b)
  PROVE  Mutation
<1> DEFINE n == trunc(s)
           e == [op |-> "AddBan", net |-> n, ban |-> b]
<1>1. n \in Keys
  BY KeysAssumption
<1> HIDE DEF n
<1>2. e \in Entry
  BY <1>1 DEF Entry
<1>3. SetBan(mem, n, b) = apply_entry(mem, e)
  BY <1>1, ApplyAddBan DEF DurInv, TypeOK
<1>4. Logged(e, SetBan(mem, n, b), crdt)
  BY DEF add_ban, n
<1> QED
  BY <1>2, <1>3, <1>4, LoggedStep

LEMMA RemoveBanStep ==
  ASSUME DurInv, Serving, NEW n \in Keys, remove_ban(n)
  PROVE  Mutation
<1> DEFINE e == [op |-> "RemoveBan", net |-> n]
<1>1. e \in Entry
  BY DEF Entry
<1>2. SetBan(mem, n, NoBan) = apply_entry(mem, e)
  BY ApplyRemoveBan DEF DurInv, TypeOK
<1>3. Logged(e, SetBan(mem, n, NoBan), crdt)
  BY DEF remove_ban
<1> QED
  BY <1>1, <1>2, <1>3, LoggedStep

LEMMA RemoveWhitelistStep ==
  ASSUME DurInv, Serving, NEW n \in Keys, remove_whitelist(n)
  PROVE  Mutation
<1> DEFINE e == [op |-> "RemoveWhitelist", net |-> n]
<1>1. e \in Entry
  BY DEF Entry
<1>2. SetWhitelisted(mem, n, FALSE) = apply_entry(mem, e)
  BY ApplyRemoveWhitelist DEF DurInv, TypeOK
<1>3. Logged(e, SetWhitelisted(mem, n, FALSE), crdt)
  BY DEF remove_whitelist
<1> QED
  BY <1>1, <1>2, <1>3, LoggedStep

LEMMA CrdtStep ==
  ASSUME DurInv, Serving, NEW i \in CrdtInputs,
         add_crdt_ban(i.net, i.rec) \/ tombstone_crdt_ban(i.net)
  PROVE  Mutation
<1>1. i.net \in Keys /\ mem \in Db
  BY AbsentAssumption DEF DurInv, TypeOK
<1>2. CASE add_crdt_ban(i.net, i.rec)
  <2> DEFINE e == [op |-> "AddCrdtBan", net |-> i.net, rec |-> i.rec]
  <2>1. e \in Entry
    BY DEF Entry
  <2>2. mem = apply_entry(mem, e)
    BY <1>1, ApplyAddCrdt
  <2>3. Logged(e, mem, crdt_put(crdt, i.net, i.rec))
    BY <1>2 DEF add_crdt_ban
  <2> HIDE DEF e
  <2> QED
    BY <2>1, <2>2, <2>3, LoggedStep
<1>3. CASE tombstone_crdt_ban(i.net)
  <2> DEFINE e == [op |-> "TombstoneCrdtBan", net |-> i.net]
  <2>1. e \in Entry
    BY <1>1 DEF Entry
  <2>2. mem = apply_entry(mem, e)
    BY <1>1, ApplyTombstone
  <2>3. Logged(e, mem, crdt_bury(crdt, i.net))
    BY <1>3 DEF tombstone_crdt_ban
  <2> HIDE DEF e
  <2> QED
    BY <2>1, <2>2, <2>3, LoggedStep
<1> QED
  BY <1>2, <1>3

\* A set of one to three instants has a latest one.
LEMMA CutoffLatest ==
  ASSUME mem \in Db, NEW n \in Keys, NEW now \in Time
  PROVE  /\ revocation_cutoff(n, now) \in Time
         /\ now <= revocation_cutoff(n, now)
         /\ mem.revocations[n] # NoTime => mem.revocations[n] <= revocation_cutoff(n, now)
<1> DEFINE B == {mem.bans[k].created : k \in {n} \cap {k \in Keys : mem.bans[k] # NoBan}}
           R == {mem.revocations[k] : k \in {n} \cap {k \in Keys : mem.revocations[k] # NoTime}}
           S == {now} \cup B \cup R
<1>1. \/ B = {}
      \/ \E t \in Time : B = {t}
  BY SMT DEF Db, Ban
<1>2. \/ R = {} /\ mem.revocations[n] = NoTime
      \/ mem.revocations[n] \in Time /\ R = {mem.revocations[n]}
  BY DEF Db
<1>3. S \subseteq Time /\ now \in S /\ (mem.revocations[n] # NoTime => mem.revocations[n] \in S)
  BY <1>1, <1>2
<1>4. \E t \in S : \A u \in S : u <= t
  <2> HIDE DEF B, R
  <2>1. \E x, y \in Time : S = {now, x, y}
    BY <1>1, <1>2, SMT
  <2> HIDE DEF S
  <2> QED
    BY <2>1, TimeAssumption, SMT
<1>5. revocation_cutoff(n, now) = LatestOf(S)
  BY DEF revocation_cutoff
<1> HIDE DEF S
<1>6. LatestOf(S) \in S /\ \A u \in S : u <= LatestOf(S)
  BY <1>4 DEF LatestOf
<1> QED
  BY <1>3, <1>5, <1>6

LEMMA RevokeBanStep ==
  ASSUME DurInv, Serving, NEW s \in Keys, NEW now \in Time, revoke_ban(s, now)
  PROVE  Mutation
<1> DEFINE n == trunc(s)
           c == revocation_cutoff(n, now)
           e == [op |-> "RevokeBan", net |-> n, cutoff |-> c]
<1>1. n \in Keys /\ mem \in Db
  BY KeysAssumption DEF DurInv, TypeOK
<1>2. Logged(e, SetRevoked(SetBan(mem, n, NoBan), n, c), crdt)
  BY DEF revoke_ban
<1> HIDE DEF n
<1>3. c \in Time
  BY <1>1, CutoffLatest
<1> HIDE DEF c
<1>4. e \in Entry
  BY <1>1, <1>3 DEF Entry
<1>5. SetRevoked(SetBan(mem, n, NoBan), n, c) = apply_entry(mem, e)
  BY <1>1, ApplyRevoke
<1> HIDE DEF e
<1> QED
  BY <1>2, <1>4, <1>5, LoggedStep

LEMMA AddWhitelistStep ==
  ASSUME DurInv, phase # "down", task = "idle", NEW n \in Keys, add_whitelist(n)
  PROVE  Mutation
<1> DEFINE e == [op |-> "AddWhitelist", net |-> n]
<1>1. e \in Entry
  BY DEF Entry
<1>2. SetWhitelisted(mem, n, TRUE) = apply_entry(mem, e)
  BY ApplyAddWhitelist DEF DurInv, TypeOK
<1>3. Appended(e)
  BY <1>2 DEF add_whitelist, Appended, Abort
<1>4. /\ task' \in {"idle", "revoke", "tombstone"}
      /\ phase' \in {"down", "starting", "finishing", "serving"}
      /\ phase' = "down" => task' = "idle"
      /\ todo' \subseteq Keys /\ halfRevoked' \in BOOLEAN
  BY DEF add_whitelist, Abort, Overlapping, DurInv, TypeOK
<1> HIDE DEF e
<1> QED
  BY <1>1, <1>3, <1>4 DEF Mutation

LEMMA RevokeNextStep ==
  ASSUME DurInv, NEW n \in Keys, revoke_next(n)
  PROVE  Mutation
<1> DEFINE e == [op |-> "RemoveBan", net |-> n]
<1>1. e \in Entry
  BY DEF Entry
<1>2. SetBan(mem, n, NoBan) = apply_entry(mem, e)
  BY ApplyRemoveBan DEF DurInv, TypeOK
<1>3. Appended(e)
  BY <1>2 DEF revoke_next, Appended, Abort
<1>4. phase # "down"
  BY DEF revoke_next, DurInv, SnapshotStages
<1>5. /\ task' \in {"idle", "revoke", "tombstone"}
      /\ phase' \in {"down", "starting", "finishing", "serving"}
      /\ phase' = "down" => task' = "idle"
      /\ todo' \subseteq Keys /\ halfRevoked' \in BOOLEAN
  BY <1>4 DEF revoke_next, Abort, DurInv, TypeOK
<1> HIDE DEF e
<1> QED
  BY <1>1, <1>3, <1>4, <1>5 DEF Mutation

LEMMA RevokeTombstoneStep ==
  ASSUME DurInv, NEW n \in Keys, revoke_tombstone(n)
  PROVE  Mutation
<1> DEFINE e == [op |-> "TombstoneCrdtBan", net |-> n]
<1>1. e \in Entry
  BY DEF Entry
<1>2. mem = apply_entry(mem, e)
  BY ApplyTombstone DEF DurInv, TypeOK
<1>3. Appended(e)
  BY <1>2 DEF revoke_tombstone, Appended, Abort
<1>4. phase # "down"
  BY DEF revoke_tombstone, DurInv, SnapshotStages
<1>5. /\ task' \in {"idle", "revoke", "tombstone"}
      /\ phase' \in {"down", "starting", "finishing", "serving"}
      /\ phase' = "down" => task' = "idle"
      /\ todo' \subseteq Keys /\ halfRevoked' \in BOOLEAN
  BY <1>4 DEF revoke_tombstone, Abort, DurInv, TypeOK
<1> HIDE DEF e
<1> QED
  BY <1>1, <1>3, <1>4, <1>5 DEF Mutation

\* Steps that leave the memory and the files alone.
LEMMA QuietStep ==
  ASSUME DurInv, UNCHANGED <<mem, disk, write_failed, doubt>>,
         task' \in {"idle", "revoke", "tombstone"},
         phase' \in {"down", "starting", "finishing", "serving"},
         phase = "down" => phase' = "down", phase' = "down" => task' = "idle",
         todo' \subseteq Keys, halfRevoked' \in BOOLEAN
  PROVE  DurInv'
<1>1. DiskType' /\ Readable'
  BY DEF DurInv, DiskType, Readable, disk
<1>2. WriterSound' /\ SnapshotStages'
  BY DEF DurInv, WriterSound, SnapshotStages, disk
<1>3. TypeOK'
  BY DEF DurInv, TypeOK, disk
<1> QED
  BY <1>1, <1>2, <1>3 DEF DurInv

LEMMA RenameStep ==
  ASSUME DurInv, snapshot_rename
  PROVE  DurInv'
<1>1. /\ snap' = [db |-> mem, crdt |-> crdt] /\ snapFiles' = snapFiles \cup {snap'}
      /\ phase = "serving" /\ task' = "renamed"
      /\ UNCHANGED <<mem, wal, walFiles, write_failed, todo, doubt, halfRevoked, phase>>
  BY DEF snapshot_rename, Serving, history
<1>2. mem \in Db /\ snap'.db = mem
  BY <1>1 DEF DurInv, TypeOK
<1>3. \A f, m : LeadsTo(snapFiles, mem, f, m) => LeadsTo(snapFiles', mem', f, m)
  BY <1>1, <1>2 DEF LeadsTo
<1>4. Readable'
  BY <1>1, <1>3 DEF DurInv, Readable
<1>5. DiskType' /\ WriterSound' /\ SnapshotStages'
  BY <1>1, <1>2 DEF DurInv, DiskType, WriterSound, SnapshotStages
<1>6. TypeOK'
  BY <1>1, <1>2 DEF DurInv, TypeOK
<1> QED
  BY <1>4, <1>5, <1>6 DEF DurInv

LEMMA DirsyncStep ==
  ASSUME DurInv, snapshot_dirsync
  PROVE  DurInv'
<1>0. /\ task = "renamed" /\ snap \in snapFiles
      /\ \/ task' = "idle" /\ snapFiles' = snapFiles
         \/ task' = "dirsynced" /\ snapFiles' = {snap}
      /\ UNCHANGED <<phase, mem, wal, walFiles, snap, write_failed, todo, doubt, halfRevoked>>
  BY DEF snapshot_dirsync, history, DurInv, DiskType
<1>1. snapFiles' \subseteq snapFiles /\ snap \in snapFiles'
  BY <1>0
<1>2. \A f, m : LeadsTo(snapFiles, mem, f, m) => LeadsTo(snapFiles', mem', f, m)
  BY <1>0, <1>1 DEF LeadsTo
<1>3. Readable'
  BY <1>0, <1>1, <1>2 DEF DurInv, Readable
<1>4. DiskType' /\ WriterSound' /\ SnapshotStages'
  BY <1>0, <1>1 DEF DurInv, DiskType, WriterSound, SnapshotStages
<1>5. TypeOK'
  BY <1>0, <1>1 DEF DurInv, TypeOK
<1> QED
  BY <1>3, <1>4, <1>5 DEF DurInv

LEMMA EmptyIsFile == EmptyFile \in File /\ EmptyFile.recs = <<>> /\ EmptyFile.torn = FALSE
BY SMT DEF EmptyFile, File

\* An empty log on top of a snapshot of the memory.
LEMMA EmptyLeads ==
  ASSUME DurInv, task \in {"dirsynced", "truncated"}
  PROVE  LeadsTo(snapFiles, mem, EmptyFile, mem)
<1>1. snapFiles = {snap} /\ snap.db = mem /\ mem \in Db
  BY DEF DurInv, SnapshotStages, TypeOK
<1>2. replay(mem, EmptyFile.recs) = mem
  BY <1>1, EmptyIsFile, ReplayEmpty
<1> QED
  BY <1>1, <1>2 DEF LeadsTo

LEMMA TruncateOpenStep ==
  ASSUME DurInv, truncate_open
  PROVE  DurInv'
<1>1. /\ task = "dirsynced"
      /\ UNCHANGED <<phase, mem, snap, snapFiles, write_failed, todo, doubt, halfRevoked>>
      /\ \/ task' = "truncated" /\ wal' = EmptyFile /\ walFiles' = walFiles \cup {EmptyFile}
         \/ task' = "idle" /\ wal' = wal /\ walFiles' = walFiles
  BY DEF truncate_open, history
<1>2. LeadsTo(snapFiles, mem, EmptyFile, mem)
  BY <1>1, EmptyLeads
<1>3. Readable'
  BY <1>1, <1>2, SMT DEF DurInv, Readable
<1>4. DiskType' /\ WriterSound' /\ SnapshotStages'
  BY <1>1, EmptyIsFile DEF DurInv, DiskType, WriterSound, SnapshotStages
<1>5. TypeOK'
  BY <1>1, EmptyIsFile DEF DurInv, TypeOK
<1> QED
  BY <1>3, <1>4, <1>5 DEF DurInv

LEMMA TruncateSyncStep ==
  ASSUME DurInv, truncate_sync
  PROVE  DurInv'
<1>1. /\ task = "truncated" /\ task' = "idle"
      /\ UNCHANGED <<phase, mem, wal, snap, snapFiles, todo, halfRevoked>>
      /\ \/ walFiles' = {wal} /\ write_failed' = FALSE /\ doubt' = NoEntry
         \/ UNCHANGED <<walFiles, write_failed, doubt>>
  BY DEF truncate_sync
<1>2. wal = EmptyFile /\ LeadsTo(snapFiles, mem, EmptyFile, mem)
  BY <1>1, EmptyLeads DEF DurInv, SnapshotStages
<1>3. Readable'
  BY <1>1, <1>2 DEF DurInv, Readable
<1>4. DiskType' /\ WriterSound' /\ SnapshotStages'
  BY <1>1, <1>2, EmptyIsFile DEF DurInv, DiskType, WriterSound, SnapshotStages
<1>5. TypeOK'
  BY <1>1 DEF DurInv, TypeOK
<1> QED
  BY <1>3, <1>4, <1>5 DEF DurInv

LEMMA FlushStep ==
  ASSUME DurInv, flush_wal
  PROVE  DurInv'
<1>1. /\ walFiles' = {wal} /\ wal \in walFiles
      /\ UNCHANGED <<phase, mem, wal, snap, snapFiles, write_failed, task, todo, doubt, halfRevoked>>
  BY DEF flush_wal, history, DurInv, DiskType
<1>2. Readable'
  BY <1>1 DEF DurInv, Readable
<1>3. DiskType' /\ WriterSound' /\ SnapshotStages'
  BY <1>1 DEF DurInv, DiskType, WriterSound, SnapshotStages
<1>4. TypeOK'
  BY <1>1 DEF DurInv, TypeOK
<1> QED
  BY <1>2, <1>3, <1>4 DEF DurInv

LEMMA PowerLossStep ==
  ASSUME DurInv, power_loss
  PROVE  DurInv'
<1>1. /\ phase' = "down" /\ task' = "idle" /\ todo' = {}
      /\ UNCHANGED <<mem, write_failed, doubt, halfRevoked>>
      /\ wal' \in walFiles /\ walFiles' = {wal'}
      /\ snap' \in snapFiles /\ snapFiles' = {snap'}
  BY DEF power_loss, Halt, history
<1>2. \A f, m : LeadsTo(snapFiles, mem, f, m) => LeadsTo(snapFiles', mem', f, m)
  BY <1>1 DEF LeadsTo
<1>3. Readable'
  BY <1>1, <1>2 DEF DurInv, Readable
<1>4. DiskType' /\ WriterSound' /\ SnapshotStages'
  BY <1>1 DEF DurInv, DiskType, WriterSound, SnapshotStages
<1>5. TypeOK'
  BY <1>1, <1>4 DEF DurInv, TypeOK, DiskType, File
<1> QED
  BY <1>3, <1>4, <1>5 DEF DurInv

\* What recover reads back.
LEMMA ReadBack ==
  ASSUME DurInv
  PROVE  \/ replay(snap.db, wal.recs) = mem
         \/ doubt # NoEntry /\ replay(snap.db, wal.recs) = apply_entry(mem, doubt)
BY DEF DurInv, Readable, DiskType, LeadsTo

LEMMA RecoverStep ==
  ASSUME DurInv, recover
  PROVE  DurInv'
<1>1. /\ phase = "down" /\ phase' = "starting"
      /\ mem' = replay(snap.db, wal.recs)
      /\ wal' = [recs |-> wal.recs, torn |-> FALSE] /\ walFiles' = {wal'}
      /\ snapFiles' = {snap} /\ write_failed' = FALSE /\ doubt' = NoEntry /\ halfRevoked' = FALSE
      /\ UNCHANGED <<snap, task, todo>>
  BY DEF recover
<1>2. mem' \in Db
  BY <1>1, ReadBack, ApplyType DEF DurInv, TypeOK, DiskType
<1>3. wal' \in File /\ wal'.recs = wal.recs /\ wal'.torn = FALSE
  BY <1>1 DEF DurInv, DiskType, File
<1>4. replay(snap.db, wal'.recs) = mem' /\ replay(mem', wal'.recs) = mem'
  BY <1>1, <1>3, ReplayIdempotent
<1>5. LeadsTo(snapFiles', mem', wal', mem')
  BY <1>1, <1>4 DEF LeadsTo
<1>6. Readable'
  BY <1>1, <1>5 DEF Readable
<1>7. DiskType' /\ WriterSound' /\ SnapshotStages'
  BY <1>1, <1>3 DEF DurInv, DiskType, WriterSound, SnapshotStages
<1>8. TypeOK'
  BY <1>1, <1>2, <1>3 DEF DurInv, TypeOK
<1> QED
  BY <1>6, <1>7, <1>8 DEF DurInv

LEMMA DurInit == Init => DurInv
<1> SUFFICES ASSUME Init
             PROVE  DurInv
  OBVIOUS
<1>1. EmptyDb \in Db
  BY DEF EmptyDb, Db
<1>2. /\ phase = "down" /\ task = "idle" /\ todo = {} /\ mem = EmptyDb
      /\ wal = EmptyFile /\ walFiles = {EmptyFile} /\ snap.db = EmptyDb /\ snapFiles = {snap}
      /\ write_failed = FALSE /\ doubt = NoEntry /\ halfRevoked = FALSE
  BY DEF Init
<1>3. replay(EmptyDb, EmptyFile.recs) = EmptyDb
  BY <1>1, EmptyIsFile, ReplayEmpty
<1>4. Readable
  BY <1>2, <1>3 DEF Readable, LeadsTo
<1>5. DiskType /\ WriterSound /\ SnapshotStages
  BY <1>1, <1>2, EmptyIsFile DEF DiskType, WriterSound, SnapshotStages
<1>6. TypeOK
  BY <1>1, <1>2, EmptyIsFile DEF TypeOK
<1> QED
  BY <1>4, <1>5, <1>6 DEF DurInv

LEMMA NewBansAreBans ==
  ASSUME NEW now \in Time, NEW b \in NewBans(now)
  PROVE  b \in Ban /\ b.peer = FALSE
<1>1. CASE b = [created |-> now, expires |-> Forever, peer |-> FALSE]
  BY <1>1 DEF Ban
<1>2. ASSUME NEW t \in Time, b = [created |-> now, expires |-> t, peer |-> FALSE]
      PROVE  b \in Ban /\ b.peer = FALSE
  BY <1>2 DEF Ban
<1>3. \/ b = [created |-> now, expires |-> Forever, peer |-> FALSE]
      \/ \E t \in Time : b = [created |-> now, expires |-> t, peer |-> FALSE]
  BY DEF NewBans
<1> QED
  BY <1>1, <1>2, <1>3

LEMMA AdmitAddsBan ==
  ASSUME DurInv, NEW s \in Keys, NEW now \in Time, NEW x \in Time \cup {Forever}, admit_ban(s, x, now)
  PROVE  \E b \in Ban : b.peer = FALSE /\ b.expires = x /\ add_ban(s, b)
<1> DEFINE c == IF s \in covering_bans(s) /\ active(mem.bans[s], now) THEN mem.bans[s].created ELSE now
<1>1. c \in Time
  BY DEF covering_bans, DurInv, TypeOK, Db, Ban
<1>2. add_ban(s, [created |-> c, expires |-> x, peer |-> FALSE])
  BY DEF admit_ban
<1> HIDE DEF c
<1>3. [created |-> c, expires |-> x, peer |-> FALSE] \in Ban
  BY <1>1 DEF Ban
<1> QED
  BY <1>2, <1>3

\* A method call, or a step of the revoke loop, writes the log.
LogWrite ==
  \/ Call /\ \E s \in Subjects, now \in Time : \E b \in NewBans(now) : add_ban(s, b)
  \/ Call /\ \E s \in Subjects, now \in Time : \E b \in NewBans(now) : admit_ban(s, b.expires, now)
  \/ Call /\ \E s \in Subjects, b \in Ban, now \in Time : apply_remote_ban(s, b, now)
  \/ Call /\ \E n \in Subjects : remove_ban(n)
  \/ Call /\ \E s \in Subjects, now \in Time : revoke_ban(s, now)
  \/ Call /\ \E n \in WlNets : add_whitelist(n)
  \/ Call /\ \E n \in WlNets : remove_whitelist(n)
  \/ Call /\ \E i \in CrdtInputs : add_crdt_ban(i.net, i.rec)
  \/ Call /\ \E i \in CrdtInputs : tombstone_crdt_ban(i.net)
  \/ \E n \in Keys : revoke_next(n) \/ revoke_tombstone(n)
  \/ \E n \in ConfigNets : start_whitelist(n)

LEMMA LogWriteIsMutation == DurInv /\ LogWrite => Mutation
<1> SUFFICES ASSUME DurInv, LogWrite
             PROVE  Mutation
  OBVIOUS
<1> USE KeysAssumption
<1>1. ASSUME Call, NEW s \in Subjects, NEW now \in Time, NEW b \in NewBans(now), add_ban(s, b)
      PROVE  Mutation
  BY <1>1, AddBanStep, NewBansAreBans DEF Call
<1>2. ASSUME Call, NEW s \in Subjects, NEW now \in Time, NEW b \in NewBans(now),
             admit_ban(s, b.expires, now)
      PROVE  Mutation
  <2>1. b.expires \in Time \cup {Forever}
    BY NewBansAreBans DEF Ban
  <2>2. PICK c \in Ban : add_ban(s, c)
    BY <1>2, <2>1, AdmitAddsBan
  <2> QED
    BY <1>2, <2>2, AddBanStep DEF Call
<1>3. ASSUME Call, NEW s \in Subjects, NEW b \in Ban, NEW now \in Time, apply_remote_ban(s, b, now)
      PROVE  Mutation
  BY <1>3, AddBanStep DEF Call, apply_remote_ban
<1>4. ASSUME Call, NEW n \in Subjects, remove_ban(n)
      PROVE  Mutation
  BY <1>4, RemoveBanStep DEF Call
<1>5. ASSUME Call, NEW s \in Subjects, NEW now \in Time, revoke_ban(s, now)
      PROVE  Mutation
  BY <1>5, RevokeBanStep DEF Call
<1>6. ASSUME Call, NEW n \in WlNets, add_whitelist(n)
      PROVE  Mutation
  BY <1>6, AddWhitelistStep DEF Call, Serving
<1>7. ASSUME Call, NEW n \in WlNets, remove_whitelist(n)
      PROVE  Mutation
  BY <1>7, RemoveWhitelistStep DEF Call
<1>8. ASSUME Call, NEW i \in CrdtInputs, add_crdt_ban(i.net, i.rec) \/ tombstone_crdt_ban(i.net)
      PROVE  Mutation
  BY <1>8, CrdtStep DEF Call
<1>9. ASSUME NEW n \in Keys, revoke_next(n) \/ revoke_tombstone(n)
      PROVE  Mutation
  BY <1>9, RevokeNextStep, RevokeTombstoneStep
<1>10. ASSUME NEW n \in ConfigNets, start_whitelist(n)
       PROVE  Mutation
  BY <1>10, AddWhitelistStep DEF start_whitelist
<1> QED
  BY <1>1, <1>2, <1>3, <1>4, <1>5, <1>6, <1>7, <1>8, <1>9, <1>10 DEF LogWrite

LEMMA NextCases ==
  Next <=> \/ LogWrite \/ revoke_done
           \/ snapshot_rename \/ snapshot_dirsync \/ truncate_open \/ truncate_sync \/ flush_wal
           \/ process_crash \/ power_loss \/ recover \/ start_revoke
BY DEF Next, LogWrite

LEMMA DurNext == DurInv /\ [Next]_vars => DurInv'
<1> SUFFICES ASSUME DurInv, [Next]_vars
             PROVE  DurInv'
  OBVIOUS
<1>1. CASE LogWrite
  BY <1>1, LogWriteIsMutation, MutationStep
<1>3. CASE revoke_done
  <2>1. /\ UNCHANGED <<mem, disk, write_failed, doubt, todo>> /\ task' = "idle" /\ halfRevoked' = FALSE
        /\ phase # "down" /\ phase' \in {phase, "serving"}
    BY <1>3 DEF revoke_done, DurInv, SnapshotStages
  <2> QED
    BY <2>1, QuietStep DEF DurInv, TypeOK
<1>4. CASE process_crash
  <2>1. /\ UNCHANGED <<mem, disk, write_failed, doubt, halfRevoked>>
        /\ task' = "idle" /\ todo' = {} /\ phase' = "down"
    BY <1>4 DEF process_crash, Halt, history
  <2> QED
    BY <2>1, QuietStep DEF DurInv, TypeOK
<1>5. CASE start_revoke
  <2>1. /\ UNCHANGED <<mem, disk, write_failed, doubt, halfRevoked>>
        /\ task' = "revoke" /\ todo' \subseteq Keys /\ phase = "starting" /\ phase' = "finishing"
    BY <1>5 DEF start_revoke, Overlapping, history
  <2> QED
    BY <2>1, QuietStep DEF DurInv, TypeOK
<1>6. CASE UNCHANGED vars
  BY <1>6, ZenonT(60) DEF vars, disk, history, DurInv, TypeOK, DiskType, Readable, WriterSound, SnapshotStages
<1> QED
  BY <1>1, <1>3, <1>4, <1>5, <1>6, NextCases,
     RenameStep, DirsyncStep, TruncateOpenStep, TruncateSyncStep, FlushStep, PowerLossStep, RecoverStep

\* The types, and the meaning of everything on disk, hold in every state.
THEOREM DurableInvariant == Spec => []DurInv
BY DurInit, DurNext, PTL DEF Spec

\* StateManager::new after any crash: exactly the acknowledged mutations, and
\* possibly the one whose append reported an error.
THEOREM RecoveryIsExact == Spec => RecoveryExact
<1> DEFINE A == phase = "down" /\ phase' # "down" =>
                  \/ mem' = mem
                  \/ doubt # NoEntry /\ mem' = apply_entry(mem, doubt)
<1>1. DurInv /\ [Next]_vars => [A]_vars
  <2> SUFFICES ASSUME DurInv, Next, phase = "down", phase' # "down"
               PROVE  A
    BY DEF vars
  <2>1. recover
    BY NextCases, LogWriteIsMutation
       DEF Mutation, revoke_done, snapshot_rename, Serving, snapshot_dirsync,
           truncate_open, truncate_sync, flush_wal, process_crash, power_loss, Halt, start_revoke,
           DurInv, SnapshotStages
  <2> QED
    BY <2>1, ReadBack DEF recover
<1>2. Spec => [][A]_vars
  BY <1>1, DurableInvariant, PTL DEF Spec
<1> QED
  BY <1>2 DEF RecoveryExact
\* The same as an implementation: log, snapshots and revoke loop implement a
\* state that changes by whole mutations and outlives the process.
THEOREM ImplementsDurable == Spec => ImplementsDurableState
<1>1. Init => Durable!Init
  BY DEF Init, Durable!Init
<1>2. DurInv /\ [Next]_vars => [Durable!Next]_(Durable!vars)
  <2> SUFFICES ASSUME DurInv, [Next]_vars
               PROVE  Durable!Next \/ UNCHANGED Durable!vars
    OBVIOUS
  <2>1. CASE LogWrite
    <3>1. PICK e \in Entry : Appended(e) /\ phase # "down"
      BY <2>1, LogWriteIsMutation DEF Mutation
    <3>2. doubt = NoEntry
      BY <3>1 DEF Appended, append_ok, append_err, DurInv, WriterSound
    <3>3. CASE append_ok(e) /\ mem' = apply_entry(mem, e) /\ phase' = phase
      BY <3>1, <3>2, <3>3 DEF append_ok, Durable!Next, Durable!Commit
    <3>4. CASE append_err(e) /\ mem' = mem
      BY <3>1, <3>2, <3>4 DEF append_err, Durable!Next, Durable!Fail
    <3> QED
      BY <3>1, <3>3, <3>4 DEF Appended
  <2>3. CASE revoke_done \/ start_revoke \/ snapshot_rename \/ snapshot_dirsync \/ truncate_open \/ flush_wal
    BY <2>3 DEF revoke_done, start_revoke, snapshot_rename, snapshot_dirsync, truncate_open, flush_wal,
                history, DurInv, SnapshotStages, Durable!vars
  <2>4. CASE truncate_sync
    BY <2>4 DEF truncate_sync, DurInv, SnapshotStages, Durable!Next, Durable!GiveUp, Durable!vars
  <2>5. CASE process_crash \/ power_loss
    BY <2>5 DEF process_crash, power_loss, Halt, history, Durable!Next, Durable!Crash
  <2>6. CASE recover
    BY <2>6, ReadBack DEF recover, Durable!Next, Durable!Restart
  <2>7. CASE UNCHANGED vars
    BY <2>7 DEF vars, history, Durable!vars
  <2> QED
    BY <2>1, <2>3, <2>4, <2>5, <2>6, <2>7, NextCases
<1> QED
  BY <1>1, <1>2, DurableInvariant, PTL DEF Spec, Durable!Spec, ImplementsDurableState

-----------------------------------------------------------------------------
(***************************************************************************)
(* What the state manager keeps true of the bans it holds, for every set   *)
(* of networks and every combination of faults: no ban overlaps a          *)
(* protected network while the node serves, and no unban is undone by a    *)
(* decision a peer made before it.  Both rest on DurInv, because both have *)
(* to survive crashes.                                                     *)
(***************************************************************************)
(* The whitelist.                                                          *)

LEMMA OverlapAfterBan ==
  ASSUME NEW m \in Db, NEW n \in Keys, NEW b, ~overlaps(m.whitelist, n)
  PROVE  Overlapping(SetBan(m, n, b)) \subseteq Overlapping(m)
BY DEF Overlapping, SetBan, Db

LEMMA OverlapAfterUnban ==
  ASSUME NEW m \in Db, NEW n \in Keys
  PROVE  Overlapping(SetBan(m, n, NoBan)) \subseteq Overlapping(m) \ {n}
BY DEF Overlapping, SetBan, Db

LEMMA OverlapAfterUnlist ==
  ASSUME NEW m \in Db, NEW n \in Keys
  PROVE  Overlapping(SetWhitelisted(m, n, FALSE)) \subseteq Overlapping(m)
BY DEF Overlapping, SetWhitelisted, Db, overlaps, Protected

LEMMA OverlapAfterRevoke ==
  ASSUME NEW m, NEW n, NEW t
  PROVE  Overlapping(SetRevoked(m, n, t)) = Overlapping(m)
BY DEF Overlapping, SetRevoked

\* A logged method that adds no overlapping ban.
LEMMA ProtLogged ==
  ASSUME ProtInv, Serving, NEW e, NEW m, NEW c, Logged(e, m, c), Overlapping(m) \subseteq Overlapping(mem)
  PROVE  ProtInv'
<1>1. /\ phase' = phase /\ task' = task /\ todo' = todo /\ halfRevoked' = halfRevoked
      /\ phase = "serving" /\ task = "idle"
  BY DEF Logged, Serving
<1>2. Overlapping(mem') \subseteq Overlapping(mem)
  BY DEF Logged
<1> QED
  BY <1>1, <1>2 DEF ProtInv

LEMMA ProtAddBan ==
  ASSUME DurInv, ProtInv, Serving, NEW s \in Keys, NEW b, add_ban(s, b)
  PROVE  ProtInv'
<1> DEFINE n == trunc(s)
           e == [op |-> "AddBan", net |-> n, ban |-> b]
<1>1. n \in Keys /\ mem \in Db
  BY KeysAssumption DEF DurInv, TypeOK
<1>2. ~overlaps(mem.whitelist, n) /\ Logged(e, SetBan(mem, n, b), crdt)
  BY DEF add_ban
<1> HIDE DEF n, e
<1> QED
  BY <1>1, <1>2, OverlapAfterBan, ProtLogged

LEMMA ProtRemoveBan ==
  ASSUME DurInv, ProtInv, Serving, NEW n \in Keys, remove_ban(n)
  PROVE  ProtInv'
<1>1. Logged([op |-> "RemoveBan", net |-> n], SetBan(mem, n, NoBan), crdt)
  BY DEF remove_ban
<1>2. Overlapping(SetBan(mem, n, NoBan)) \subseteq Overlapping(mem)
  BY OverlapAfterUnban DEF DurInv, TypeOK
<1> QED
  BY <1>1, <1>2, ProtLogged

LEMMA ProtRevokeBan ==
  ASSUME DurInv, ProtInv, Serving, NEW s \in Keys, NEW now, revoke_ban(s, now)
  PROVE  ProtInv'
<1> DEFINE n == trunc(s)
           c == revocation_cutoff(n, now)
           e == [op |-> "RevokeBan", net |-> n, cutoff |-> c]
           m == SetRevoked(SetBan(mem, n, NoBan), n, c)
<1>1. n \in Keys /\ mem \in Db
  BY KeysAssumption DEF DurInv, TypeOK
<1>2. Logged(e, m, crdt)
  BY DEF revoke_ban
<1> HIDE DEF n, c, e
<1>3. Overlapping(m) \subseteq Overlapping(mem)
  BY <1>1, OverlapAfterUnban, OverlapAfterRevoke, SMT
<1> QED
  BY <1>2, <1>3, ProtLogged

LEMMA ProtRemoveWhitelist ==
  ASSUME DurInv, ProtInv, Serving, NEW n \in Keys, remove_whitelist(n)
  PROVE  ProtInv'
<1>1. Logged([op |-> "RemoveWhitelist", net |-> n], SetWhitelisted(mem, n, FALSE), crdt)
  BY DEF remove_whitelist
<1>2. Overlapping(SetWhitelisted(mem, n, FALSE)) \subseteq Overlapping(mem)
  BY OverlapAfterUnlist DEF DurInv, TypeOK
<1> QED
  BY <1>1, <1>2, ProtLogged

LEMMA ProtCrdt ==
  ASSUME ProtInv, Serving, NEW i \in CrdtInputs, add_crdt_ban(i.net, i.rec) \/ tombstone_crdt_ban(i.net)
  PROVE  ProtInv'
<1>1. \E e, c : Logged(e, mem, c)
  BY DEF add_crdt_ban, tombstone_crdt_ban
<1> QED
  BY <1>1, ProtLogged

LEMMA ProtAddWhitelist ==
  ASSUME ProtInv, task = "idle", NEW n, add_whitelist(n)
  PROVE  ProtInv'
<1>1. CASE task' = "revoke" /\ todo' = Overlapping(mem') /\ phase' = phase
  BY <1>1 DEF ProtInv
<1>2. CASE Abort /\ UNCHANGED halfRevoked
  BY <1>2 DEF ProtInv, Abort
<1> QED
  BY <1>1, <1>2 DEF add_whitelist

LEMMA ProtRevokeNext ==
  ASSUME DurInv, ProtInv, NEW n \in Keys, revoke_next(n)
  PROVE  ProtInv'
<1>1. CASE Abort /\ halfRevoked' = TRUE
  BY <1>1 DEF ProtInv, Abort
<1>2. CASE /\ mem' = SetBan(mem, n, NoBan) /\ UNCHANGED <<phase, halfRevoked>>
           /\ \/ task' = "revoke" /\ todo' = todo \ {n}
              \/ task' = "tombstone" /\ todo' = todo
  <2>1. Overlapping(mem') \subseteq Overlapping(mem) \ {n}
    BY <1>2, OverlapAfterUnban DEF DurInv, TypeOK
  <2>2. task = "revoke"
    BY DEF revoke_next
  <2> QED
    BY <1>2, <2>1, <2>2 DEF ProtInv
<1> QED
  BY <1>1, <1>2 DEF revoke_next

LEMMA ProtRevokeTombstone ==
  ASSUME ProtInv, NEW n \in Keys, revoke_tombstone(n)
  PROVE  ProtInv'
<1>1. CASE Abort /\ halfRevoked' = TRUE
  BY <1>1 DEF ProtInv, Abort
<1>2. CASE UNCHANGED <<mem, phase, halfRevoked>> /\ task' = "revoke" /\ todo' = todo \ {n}
  <2>1. n \notin Overlapping(mem) /\ task = "tombstone"
    BY DEF revoke_tombstone, Overlapping
  <2> QED
    BY <1>2, <2>1 DEF ProtInv
<1> QED
  BY <1>1, <1>2 DEF revoke_tombstone

LEMMA ProtLogWrite ==
  ASSUME DurInv, ProtInv, LogWrite
  PROVE  ProtInv'
<1> USE KeysAssumption
<1>1. ASSUME Call, NEW s \in Subjects, NEW now \in Time, NEW b \in NewBans(now), add_ban(s, b)
      PROVE  ProtInv'
  BY <1>1, ProtAddBan DEF Call
<1>2. ASSUME Call, NEW s \in Subjects, NEW now \in Time, NEW b \in NewBans(now),
             admit_ban(s, b.expires, now)
      PROVE  ProtInv'
  BY <1>2, ProtAddBan DEF Call, admit_ban
<1>3. ASSUME Call, NEW s \in Subjects, NEW b \in Ban, NEW now \in Time, apply_remote_ban(s, b, now)
      PROVE  ProtInv'
  BY <1>3, ProtAddBan DEF Call, apply_remote_ban
<1>4. ASSUME Call, NEW n \in Subjects, remove_ban(n)
      PROVE  ProtInv'
  BY <1>4, ProtRemoveBan DEF Call
<1>5. ASSUME Call, NEW s \in Subjects, NEW now \in Time, revoke_ban(s, now)
      PROVE  ProtInv'
  BY <1>5, ProtRevokeBan DEF Call
<1>6. ASSUME Call, NEW n \in WlNets, add_whitelist(n)
      PROVE  ProtInv'
  BY <1>6, ProtAddWhitelist DEF Call, Serving
<1>7. ASSUME Call, NEW n \in WlNets, remove_whitelist(n)
      PROVE  ProtInv'
  BY <1>7, ProtRemoveWhitelist DEF Call
<1>8. ASSUME Call, NEW i \in CrdtInputs, add_crdt_ban(i.net, i.rec) \/ tombstone_crdt_ban(i.net)
      PROVE  ProtInv'
  BY <1>8, ProtCrdt DEF Call
<1>9. ASSUME NEW n \in Keys, revoke_next(n) \/ revoke_tombstone(n)
      PROVE  ProtInv'
  BY <1>9, ProtRevokeNext, ProtRevokeTombstone
<1>10. ASSUME NEW n \in ConfigNets, start_whitelist(n)
       PROVE  ProtInv'
  BY <1>10, ProtAddWhitelist DEF start_whitelist
<1> QED
  BY <1>1, <1>2, <1>3, <1>4, <1>5, <1>6, <1>7, <1>8, <1>9, <1>10 DEF LogWrite

LEMMA ProtNext == DurInv /\ ProtInv /\ [Next]_vars => ProtInv'
<1> SUFFICES ASSUME DurInv, ProtInv, [Next]_vars
             PROVE  ProtInv'
  OBVIOUS
<1>2. CASE revoke_done
  BY <1>2 DEF revoke_done, ProtInv
<1>3. CASE snapshot_rename \/ snapshot_dirsync \/ truncate_open \/ truncate_sync \/ flush_wal
  <2>1. /\ task \notin {"revoke", "tombstone"} /\ task' \notin {"revoke", "tombstone"}
        /\ UNCHANGED <<phase, mem, halfRevoked>>
    BY <1>3 DEF snapshot_rename, Serving, snapshot_dirsync, truncate_open, truncate_sync, flush_wal, history
  <2> QED
    BY <2>1 DEF ProtInv
<1>4. CASE process_crash \/ power_loss
  BY <1>4 DEF process_crash, power_loss, Halt, ProtInv
<1>5. CASE recover
  BY <1>5 DEF recover, ProtInv, DurInv, SnapshotStages
<1>6. CASE start_revoke
  BY <1>6 DEF start_revoke, ProtInv
<1>7. CASE UNCHANGED vars
  BY <1>7 DEF vars, history, ProtInv
<1> QED
  BY <1>2, <1>3, <1>4, <1>5, <1>6, <1>7, ProtLogWrite, NextCases

\* While the node serves, no stored ban overlaps a protected network, unless a
\* whitelist addition reported an error (add_ban, add_whitelist and the
\* start-up pass of whitelist_sync.rs, across crashes).
THEOREM ProtectedNeverBanned == Spec => []NoProtectedBan
<1>1. Init => ProtInv
  BY DEF Init, ProtInv
<1>2. ProtInv => NoProtectedBan
  BY DEF ProtInv, NoProtectedBan, Serving
<1> QED
  BY <1>1, <1>2, ProtNext, DurableInvariant, PTL DEF Spec

-----------------------------------------------------------------------------
(* Revocations.                                                            *)

LEMMA RevocationsAfter ==
  ASSUME NEW db \in Db, NEW e \in Entry
  PROVE  /\ e.op # "RevokeBan" => apply_entry(db, e).revocations = db.revocations
         /\ e.op = "RevokeBan" =>
              /\ e.net \in Keys /\ e.cutoff \in Time
              /\ apply_entry(db, e).revocations = [db.revocations EXCEPT ![e.net] = e.cutoff]
<1>1. apply_entry(db, e).revocations = Put(db.revocations, RevocationWrite(e))
  BY ApplyEntry
<1>2. CASE e.op # "RevokeBan"
  BY <1>1, <1>2, DbNoWrite DEF RevocationWrite
<1>3. CASE e.op = "RevokeBan"
  <2>1. e.net \in Keys /\ e.cutoff \in Time
    BY <1>3, SMT DEF Entry
  <2>2. Put(db.revocations, Write(e.net, e.cutoff)) = [db.revocations EXCEPT ![e.net] = e.cutoff]
    BY <2>1 DEF Put, Write, Db
  <2> QED
    BY <1>1, <1>3, <2>1, <2>2 DEF RevocationWrite
<1> QED
  BY <1>2, <1>3

\* Every append but that of RevokeBan.
LEMMA RevAppended ==
  ASSUME RevInv, NEW e, e.op # "RevokeBan", UNCHANGED everRevoked,
         \/ append_ok(e) /\ mem'.revocations = mem.revocations
         \/ append_err(e) /\ mem' = mem
  PROVE  RevInv'
BY DEF RevInv, append_ok, append_err

\* An instant no earlier than the stored cutoff is no earlier than any unban.
LEMMA EverBelow ==
  ASSUME RevInv, mem.revocations \in [Keys -> Time \cup {NoTime}], NEW n \in Keys, NEW c \in Time,
         mem.revocations[n] # NoTime => mem.revocations[n] <= c
  PROVE  everRevoked[n] # NoTime => everRevoked[n] <= c
<1> SUFFICES ASSUME everRevoked[n] # NoTime
             PROVE  everRevoked[n] <= c
  OBVIOUS
<1>1. mem.revocations[n] # NoTime /\ everRevoked[n] <= mem.revocations[n]
  BY DEF RevInv
<1>2. everRevoked[n] \in Time /\ mem.revocations[n] \in Time
  BY <1>1 DEF RevInv
<1>3. everRevoked[n] \in Nat /\ mem.revocations[n] \in Nat /\ c \in Nat
  BY <1>2, TimeAssumption
<1> QED
  BY <1>1, <1>3, SMT

LEMMA RevRevokeBan ==
  ASSUME DurInv, RevInv, Serving, NEW s \in Keys, NEW now \in Time, revoke_ban(s, now)
  PROVE  RevInv'
<1> DEFINE n == trunc(s)
           c == revocation_cutoff(n, now)
           e == [op |-> "RevokeBan", net |-> n, cutoff |-> c]
           m == SetRevoked(SetBan(mem, n, NoBan), n, c)
<1>1. n \in Keys /\ mem \in Db /\ mem.revocations \in [Keys -> Time \cup {NoTime}]
  BY KeysAssumption DEF DurInv, TypeOK, Db
<1>2. /\ Logged(e, m, crdt)
      /\ everRevoked' = IF write_failed' THEN everRevoked
                        ELSE [everRevoked EXCEPT ![n] = IF @ = NoTime \/ @ <= now THEN now ELSE @]
  BY DEF revoke_ban
<1>3. m.revocations = [mem.revocations EXCEPT ![n] = c]
  BY DEF SetRevoked, SetBan
<1> HIDE DEF n, m
<1>4. /\ c \in Time /\ now <= c
      /\ mem.revocations[n] # NoTime => mem.revocations[n] <= c
  BY <1>1, CutoffLatest
<1>5. e.op = "RevokeBan" /\ e.net = n /\ e.cutoff = c
  OBVIOUS
<1> HIDE DEF c, e
<1>6. CASE append_err(e) /\ mem' = mem
  <2>1. write_failed' = TRUE /\ doubt' = e
    BY <1>6 DEF append_err
  <2> QED
    BY <1>2, <1>4, <1>5, <1>6, <2>1 DEF RevInv
<1>7. CASE append_ok(e) /\ mem' = m
  <2>1. ~write_failed' /\ doubt' = doubt /\ doubt = NoEntry
    BY <1>7 DEF append_ok, DurInv, WriterSound, Serving
  <2>2. everRevoked[n] \in Time \cup {NoTime} /\ everRevoked \in [Keys -> Time \cup {NoTime}]
    BY <1>1 DEF RevInv
  <2>3. everRevoked' = [everRevoked EXCEPT ![n] = IF everRevoked[n] = NoTime \/ everRevoked[n] <= now
                                                  THEN now ELSE everRevoked[n]]
    BY <1>2, <2>1
  <2>4. everRevoked' \in [Keys -> Time \cup {NoTime}]
    BY <2>2, <2>3
  <2>5. everRevoked'[n] # NoTime => everRevoked'[n] <= c
    <3>1. everRevoked[n] # NoTime => everRevoked[n] <= c
      BY <1>1, <1>4, <2>2, EverBelow
    <3> QED
      BY <1>1, <1>4, <2>2, <2>3, <3>1
  <2>6. c # NoTime /\ mem'.revocations[n] = c
    BY <1>1, <1>3, <1>4, <1>7, AbsentAssumption
  <2>7. \A k \in Keys \ {n} : everRevoked'[k] = everRevoked[k] /\ mem'.revocations[k] = mem.revocations[k]
    BY <1>1, <1>3, <1>7, <2>2, <2>3
  <2> QED
    BY <2>1, <2>4, <2>5, <2>6, <2>7 DEF RevInv
<1> QED
  BY <1>2, <1>6, <1>7 DEF Logged

LEMMA RevAddBan ==
  ASSUME RevInv, NEW s, NEW b, add_ban(s, b)
  PROVE  RevInv'
<1> DEFINE n == trunc(s)
           e == [op |-> "AddBan", net |-> n, ban |-> b]
<1>1. Logged(e, SetBan(mem, n, b), crdt) /\ UNCHANGED everRevoked
  BY DEF add_ban
<1>2. e.op # "RevokeBan" /\ SetBan(mem, n, b).revocations = mem.revocations
  BY DEF SetBan
<1> HIDE DEF e, n
<1> QED
  BY <1>1, <1>2, RevAppended DEF Logged

LEMMA RevLogWrite ==
  ASSUME DurInv, RevInv, LogWrite
  PROVE  RevInv'
<1> USE KeysAssumption
<1>0. \A n, v : SetBan(mem, n, v).revocations = mem.revocations
  BY DEF SetBan
<1>1. ASSUME NEW s, NEW b, add_ban(s, b)
      PROVE  RevInv'
  BY <1>1, RevAddBan
<1>2. ASSUME NEW s, NEW x, NEW now, admit_ban(s, x, now)
      PROVE  RevInv'
  BY <1>2, RevAddBan DEF admit_ban
<1>3. ASSUME NEW s, NEW b, NEW now, apply_remote_ban(s, b, now)
      PROVE  RevInv'
  BY <1>3, RevAddBan DEF apply_remote_ban
<1>4. ASSUME NEW n, remove_ban(n)
      PROVE  RevInv'
  <2> DEFINE e == [op |-> "RemoveBan", net |-> n]
  <2>1. Logged(e, SetBan(mem, n, NoBan), crdt) /\ UNCHANGED everRevoked /\ e.op # "RevokeBan"
    BY <1>4 DEF remove_ban
  <2> HIDE DEF e
  <2> QED
    BY <1>0, <2>1, RevAppended DEF Logged
<1>5. ASSUME Call, NEW s \in Subjects, NEW now \in Time, revoke_ban(s, now)
      PROVE  RevInv'
  BY <1>5, RevRevokeBan DEF Call
<1>6. ASSUME NEW n, add_whitelist(n)
      PROVE  RevInv'
  <2> DEFINE e == [op |-> "AddWhitelist", net |-> n]
  <2>1. /\ e.op # "RevokeBan" /\ UNCHANGED everRevoked
        /\ \/ append_ok(e) /\ mem'.revocations = mem.revocations
           \/ append_err(e) /\ mem' = mem
    BY <1>6, SMTT(30) DEF add_whitelist, Abort, SetWhitelisted
  <2> HIDE DEF e
  <2> QED
    BY <2>1, RevAppended
<1>7. ASSUME NEW n, remove_whitelist(n)
      PROVE  RevInv'
  <2> DEFINE e == [op |-> "RemoveWhitelist", net |-> n]
  <2>1. /\ e.op # "RevokeBan" /\ UNCHANGED everRevoked
        /\ \/ append_ok(e) /\ mem'.revocations = mem.revocations
           \/ append_err(e) /\ mem' = mem
    BY <1>7, SMTT(30) DEF remove_whitelist, Logged, SetWhitelisted
  <2> HIDE DEF e
  <2> QED
    BY <2>1, RevAppended
<1>8. ASSUME NEW i, add_crdt_ban(i.net, i.rec) \/ tombstone_crdt_ban(i.net)
      PROVE  RevInv'
  <2>1. PICK e, c : Logged(e, mem, c) /\ UNCHANGED everRevoked /\ e.op # "RevokeBan"
    <3>1. CASE add_crdt_ban(i.net, i.rec)
      <4> DEFINE e == [op |-> "AddCrdtBan", net |-> i.net, rec |-> i.rec]
      <4>1. Logged(e, mem, crdt_put(crdt, i.net, i.rec)) /\ UNCHANGED everRevoked /\ e.op # "RevokeBan"
        BY <3>1 DEF add_crdt_ban
      <4> QED
        BY <4>1
    <3>2. CASE tombstone_crdt_ban(i.net)
      <4> DEFINE e == [op |-> "TombstoneCrdtBan", net |-> i.net]
      <4>1. Logged(e, mem, crdt_bury(crdt, i.net)) /\ UNCHANGED everRevoked /\ e.op # "RevokeBan"
        BY <3>2 DEF tombstone_crdt_ban
      <4> QED
        BY <4>1
    <3> QED
      BY <1>8, <3>1, <3>2
  <2> QED
    BY <2>1, RevAppended DEF Logged
<1>9. ASSUME NEW n, revoke_next(n)
      PROVE  RevInv'
  <2> DEFINE e == [op |-> "RemoveBan", net |-> n]
  <2>1. /\ e.op # "RevokeBan" /\ UNCHANGED everRevoked
        /\ \/ append_ok(e) /\ mem' = SetBan(mem, n, NoBan)
           \/ append_err(e) /\ mem' = mem
    BY <1>9 DEF revoke_next, Abort
  <2> HIDE DEF e
  <2> QED
    BY <1>0, <2>1, RevAppended
<1>10. ASSUME NEW n, revoke_tombstone(n)
       PROVE  RevInv'
  <2> DEFINE e == [op |-> "TombstoneCrdtBan", net |-> n]
  <2>1. e.op # "RevokeBan" /\ UNCHANGED everRevoked /\ mem' = mem /\ (append_ok(e) \/ append_err(e))
    BY <1>10 DEF revoke_tombstone, Abort
  <2> HIDE DEF e
  <2> QED
    BY <2>1, RevAppended
<1>11. ASSUME NEW n, start_whitelist(n)
       PROVE  RevInv'
  BY <1>6, <1>11 DEF start_whitelist
<1> QED
  BY <1>1, <1>2, <1>3, <1>4, <1>5, <1>6, <1>7, <1>8, <1>9, <1>10, <1>11 DEF LogWrite

LEMMA RevRecover ==
  ASSUME DurInv, RevInv, recover
  PROVE  RevInv'
<1>1. doubt' = NoEntry /\ everRevoked' = everRevoked /\ mem' = replay(snap.db, wal.recs)
  BY DEF recover
<1>2. CASE mem' = mem
  BY <1>1, <1>2 DEF RevInv
<1>3. CASE doubt # NoEntry /\ mem' = apply_entry(mem, doubt)
  <2>1. doubt \in Entry /\ mem \in Db /\ mem.revocations \in [Keys -> Time \cup {NoTime}]
    BY <1>3 DEF DurInv, DiskType, TypeOK, Db
  <2>2. CASE doubt.op # "RevokeBan"
    <3>1. mem'.revocations = mem.revocations
      BY <1>3, <2>1, <2>2, RevocationsAfter
    <3> QED
      BY <1>1, <3>1 DEF RevInv
  <2>3. CASE doubt.op = "RevokeBan"
    <3> DEFINE n == doubt.net
               c == doubt.cutoff
    <3>1. n \in Keys /\ c \in Time /\ mem'.revocations = [mem.revocations EXCEPT ![n] = c]
      BY <1>3, <2>1, <2>3, RevocationsAfter
    <3>2. mem.revocations[n] # NoTime => mem.revocations[n] <= c
      BY <1>3, <2>3 DEF RevInv
    <3> HIDE DEF n, c
    <3>3. everRevoked[n] # NoTime => everRevoked[n] <= c
      BY <2>1, <3>1, <3>2, EverBelow
    <3>4. c # NoTime /\ mem'.revocations[n] = c
          /\ \A k \in Keys \ {n} : mem'.revocations[k] = mem.revocations[k]
      BY <2>1, <3>1, AbsentAssumption
    <3> QED
      BY <1>1, <3>3, <3>4 DEF RevInv
  <2> QED
    BY <2>2, <2>3
<1> QED
  BY <1>1, <1>2, <1>3, ReadBack

LEMMA RevNext == DurInv /\ RevInv /\ [Next]_vars => RevInv'
<1> SUFFICES ASSUME DurInv, RevInv, [Next]_vars
             PROVE  RevInv'
  OBVIOUS
<1>1. CASE revoke_done \/ start_revoke \/ snapshot_rename \/ snapshot_dirsync
           \/ truncate_open \/ truncate_sync \/ flush_wal \/ process_crash \/ power_loss \/ UNCHANGED vars
  <2>1. mem' = mem /\ everRevoked' = everRevoked /\ doubt' \in {doubt, NoEntry}
    BY <1>1 DEF revoke_done, start_revoke, snapshot_rename, snapshot_dirsync,
                truncate_open, truncate_sync, flush_wal, process_crash, power_loss, Halt, history, vars
  <2> QED
    BY <2>1 DEF RevInv
<1> QED
  BY <1>1, RevLogWrite, RevRecover, NextCases

\* Which step stores a peer's ban: apply_bans, for a decision younger than every
\* revocation that overlaps it.
LEMMA PeerBanIsYounger ==
  ASSUME DurInv, RevInv, Next, phase = "serving", phase' = "serving",
         NEW n \in Keys, NEW k \in Keys,
         mem'.bans[n] # mem.bans[n], mem'.bans[n] # NoBan, mem'.bans[n].peer,
         everRevoked[k] # NoTime, nets_overlap(k, n)
  PROVE  mem'.bans[n].created > everRevoked[k]
<1> USE KeysAssumption
<1>0. mem \in Db /\ mem.bans \in [Keys -> Ban \cup {NoBan}]
  BY DEF DurInv, TypeOK, Db
<1>1. ASSUME NEW s \in Keys, NEW b \in Ban, add_ban(s, b)
      PROVE  n = trunc(s) /\ mem'.bans[n] = b
  <2>1. trunc(s) \in Keys /\ (mem' = mem \/ mem' = SetBan(mem, trunc(s), b))
    BY <1>1 DEF add_ban, Logged
  <2> QED
    BY <1>0, <2>1, SMTT(30) DEF SetBan
<1>2. ASSUME NEW s \in Subjects, NEW now \in Time, NEW b \in NewBans(now),
             add_ban(s, b) \/ admit_ban(s, b.expires, now)
      PROVE  FALSE
  <2>1. b \in Ban /\ b.peer = FALSE /\ s \in Keys
    BY <1>2, NewBansAreBans
  <2>2. b.expires \in Time \cup {Forever}
    BY <2>1 DEF Ban
  <2>3. \E c \in Ban : c.peer = FALSE /\ add_ban(s, c)
    <3>1. CASE add_ban(s, b)
      BY <2>1, <3>1
    <3>2. CASE admit_ban(s, b.expires, now)
      BY <1>2, <2>1, <2>2, <3>2, AdmitAddsBan
    <3> QED
      BY <1>2, <3>1, <3>2
  <2> QED
    BY <1>1, <2>1, <2>3
<1>3. ASSUME NEW s \in Subjects, NEW b \in Ban, NEW now \in Time, apply_remote_ban(s, b, now)
      PROVE  mem'.bans[n].created > everRevoked[k]
  <2>1. n = trunc(s) /\ mem'.bans[n] = b /\ s \in Net /\ k \in Net
    BY <1>1, <1>3 DEF apply_remote_ban
  <2>2. nets_overlap(k, s)
    BY <2>1, TruncSameBlock, NetsOverlapExact
  <2>3. mem.revocations[k] # NoTime /\ everRevoked[k] <= mem.revocations[k]
    BY DEF RevInv
  <2>4. b.created > mem.revocations[k]
    BY <1>3, <2>2, <2>3 DEF apply_remote_ban, accepts_remote_ban
  <2>5. b.created \in Nat /\ mem.revocations[k] \in Nat /\ everRevoked[k] \in Nat
    BY <2>3, TimeAssumption DEF DurInv, TypeOK, Db, Ban, RevInv
  <2> QED
    BY <2>1, <2>3, <2>4, <2>5, SMTT(30)
<1>4. ASSUME NEW m \in Keys, mem' = SetBan(mem, m, NoBan)
      PROVE  FALSE
  BY <1>0, <1>4 DEF SetBan
<1>5. ASSUME NEW s \in Subjects, NEW now, revoke_ban(s, now)
      PROVE  FALSE
  <2>1. PICK m \in Keys : \/ mem' = mem
                          \/ \E c : mem' = SetRevoked(SetBan(mem, m, NoBan), m, c)
    BY <1>5 DEF revoke_ban, Logged
  <2> QED
    BY <1>0, <2>1, SMTT(30) DEF SetRevoked, SetBan
<1>6. ASSUME NEW m \in Keys, remove_ban(m) \/ revoke_next(m)
      PROVE  FALSE
  BY <1>4, <1>6 DEF remove_ban, Logged, revoke_next, Abort
<1>7. mem'.bans # mem.bans
  OBVIOUS
<1>8. ASSUME NEW m, add_whitelist(m) \/ remove_whitelist(m) \/ start_whitelist(m)
      PROVE  FALSE
  <2>1. \A v : SetWhitelisted(mem, m, v).bans = mem.bans
    BY DEF SetWhitelisted
  <2>2. mem' = mem \/ \E v : mem' = SetWhitelisted(mem, m, v)
    BY <1>8 DEF add_whitelist, remove_whitelist, start_whitelist, Logged, Abort
  <2> QED
    BY <1>7, <2>1, <2>2
<1>9. ASSUME NEW i, add_crdt_ban(i.net, i.rec) \/ tombstone_crdt_ban(i.net) \/ revoke_tombstone(i)
      PROVE  FALSE
  BY <1>7, <1>9 DEF add_crdt_ban, tombstone_crdt_ban, revoke_tombstone, Logged, Abort
<1>10. mem' # mem
  BY <1>7
<1>11. LogWrite
  BY <1>10, NextCases
     DEF revoke_done, start_revoke, snapshot_rename, snapshot_dirsync,
         truncate_open, truncate_sync, flush_wal, process_crash, power_loss, Halt, recover
<1> QED
  BY <1>2, <1>3, <1>5, <1>6, <1>8, <1>9, <1>11 DEF LogWrite

\* An unban holds against every older decision of a peer, across clock jumps,
\* crashes, failed appends and snapshots (revoke_ban, accepts_remote_ban).
THEOREM UnbanHolds == Spec => NoResurrection
<1> DEFINE A == \A n, k \in Keys :
                  /\ phase = "serving" /\ phase' = "serving"
                  /\ mem'.bans[n] # mem.bans[n] /\ mem'.bans[n] # NoBan /\ mem'.bans[n].peer
                  /\ everRevoked[k] # NoTime /\ nets_overlap(k, n)
                  => mem'.bans[n].created > everRevoked[k]
<1>1. Init => RevInv
  BY DEF Init, RevInv, EmptyDb
<1>2. DurInv /\ RevInv /\ [Next]_vars => [A]_vars
  BY PeerBanIsYounger
<1>3. Spec => [][A]_vars
  BY <1>1, <1>2, RevNext, DurableInvariant, PTL DEF Spec
<1> QED
  BY <1>3 DEF NoResurrection

-----------------------------------------------------------------------------
(* Admission never shortens.                                               *)

\* What admit_ban replaces is a covering ban, so an active one ends earlier.
LEMMA ReplacedEndsEarlier ==
  ASSUME DurInv, NEW s \in Subjects, NEW now \in Time, NEW e \in Time \cup {Forever},
         ~AlreadyCovered(s, e, now),
         mem.bans[trunc(s)] # NoBan, active(mem.bans[trunc(s)], now)
  PROVE  LET x == mem.bans[trunc(s)].expires
         IN  /\ e = Forever \/ (x # Forever /\ x <= e)
             /\ e = Forever \/ e > now
<1> DEFINE k == trunc(s)
           x == mem.bans[k].expires
<1>1. s \in Net /\ k \in Keys /\ k \in Net
  BY KeysAssumption, TruncSameBlock
<1>2. k = trunc(k)
  BY <1>1, TruncTruncated DEF Truncated
<1>3. net_covers(k, s)
  <2>1. s.addr \in Block(k)
    BY <1>1, OwnAddress, TruncSameBlock DEF Block
  <2>2. k.len = s.len /\ s.len \in Nat
    BY <1>1, NetParts DEF trunc
  <2> QED
    BY <2>1, <2>2, SMT DEF net_covers, Block
<1>4. mem.bans[k] \in Ban /\ x \in Time \cup {Forever}
  BY <1>1 DEF DurInv, TypeOK, Db, Ban
<1>5. k \in covering_bans(s)
  BY <1>1, <1>2, <1>3 DEF covering_bans
<1>6. ~outlasts(x, e)
  BY <1>5 DEF AlreadyCovered
<1>7. x = Forever \/ x > now
  BY DEF active
<1> HIDE DEF x, k
<1>8. e = Forever \/ (x # Forever /\ x <= e /\ e > now)
  BY <1>4, <1>6, <1>7, TimeAssumption, SMT DEF outlasts
<1> QED
  BY <1>8 DEF x, k

\* No address goes free earlier than before because a detector's ban was admitted
\* ("a shorter one no longer overwrites a longer ban", admit_ban), whatever nested
\* and overlapping bans the store holds and whether or not the append succeeds.
THEOREM AdmissionNeverShortens == Spec => AdmitNeverShortens
<1> DEFINE A == \A s \in Subjects, now \in Time : \A b \in NewBans(now) :
       Call /\ admit_ban(s, b.expires, now) =>
         \A a \in Addr : \A x \in Protections(mem, a, now) :
           \E y \in Protections(mem', a, now) : y = Forever \/ (x # Forever /\ x <= y)
<1>1. ASSUME DurInv
      PROVE  A
  <2> SUFFICES ASSUME NEW s \in Subjects, NEW now \in Time, NEW b \in NewBans(now),
                      admit_ban(s, b.expires, now), NEW a \in Addr, NEW n \in Keys,
                      mem.bans[n] # NoBan, active(mem.bans[n], now), contains(n, a)
               PROVE  \E y \in Protections(mem', a, now) :
                        y = Forever \/ (mem.bans[n].expires # Forever /\ mem.bans[n].expires <= y)
    BY SMT DEF Protections
  <2> DEFINE e == b.expires
             k == trunc(s)
  <2>1. e \in Time \cup {Forever} /\ s \in Keys /\ k \in Keys
    BY NewBansAreBans, KeysAssumption DEF Ban
  <2>2. mem.bans \in [Keys -> Ban \cup {NoBan}] /\ mem.bans[n] \in Ban
    BY <1>1 DEF DurInv, TypeOK, Db
  <2>3. mem.bans[n].expires = Forever \/ mem.bans[n].expires \in Nat
    BY <2>2, TimeAssumption DEF Ban
  <2>4. CASE mem'.bans[n] = mem.bans[n]
    <3>1. mem.bans[n].expires \in Protections(mem', a, now)
      BY <2>4 DEF Protections
    <3> QED
      BY <2>3, <3>1, SMT
  <2>5. CASE mem'.bans[n] # mem.bans[n]
    <3>1. PICK c \in Ban : c.expires = e /\ add_ban(s, c)
      BY <1>1, <2>1, AdmitAddsBan
    <3>2. mem' = mem \/ mem' = SetBan(mem, k, c)
      BY <3>1 DEF add_ban, Logged
    <3>3. n = k /\ mem'.bans[n] = c
      BY <2>1, <2>2, <2>5, <3>2, SMT DEF SetBan
    <3>4. ~AlreadyCovered(s, e, now)
      BY DEF admit_ban
    <3>5. /\ e = Forever \/ (mem.bans[n].expires # Forever /\ mem.bans[n].expires <= e)
          /\ e = Forever \/ e > now
      BY <1>1, <2>1, <3>3, <3>4, ReplacedEndsEarlier
    <3>6. e \in Protections(mem', a, now)
      BY <3>1, <3>3, <3>5, BanAssumption DEF Protections, active
    <3> QED
      BY <3>5, <3>6
  <2> QED
    BY <2>4, <2>5
<1>2. DurInv /\ [Next]_vars => [A]_vars
  BY <1>1
<1>3. Spec => [][A]_vars
  BY <1>2, DurableInvariant, PTL DEF Spec
<1> QED
  BY <1>3 DEF AdmitNeverShortens
=============================================================================
