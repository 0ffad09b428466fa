---------------------------- MODULE QueueProofs ----------------------------
(***************************************************************************)
(* The consumers of hiveguard-queue, for any number of lanes, messages and *)
(* faults.  What was settled is known to have been sent only through what  *)
(* the task holds in between: the messages before its reading position     *)
(* were passed or are still in its batch, and the batch lies behind the    *)
(* checkpoint.  Each consumer keeps a position of its own kind.            *)
(***************************************************************************)
EXTENDS QueueSources, FiniteSetTheorems, TLAPS

\* First-order reasoning is left to Zenon; a leaf on numbers, sequences or records cites SMT.
USE Zenon

Message == [body : {"line", "noise", "binary"}, ts : 0 .. MaxTime]

At == {"start", "idle", "page", "send", "ack", "stopped", "dead"}

TaskSet ==
  [at : At, batch : Seq(Nat), pos : Nat, seen : SUBSET Nat, last : BOOLEAN]

QueueTyped ==
  /\ kind \in Kinds
  /\ log \in [All -> Seq(Message)]
  /\ saved \in [All -> Nat] /\ cp \in [All -> Nat] /\ task \in [All -> TaskSet]

\* There is nothing to send in the message, or it was sent, given up or skipped on
\* purpose.
Passed(l, i) == log[l][i].body # "line" \/ <<l, i>> \in forwarded \cup excused \cup refused

Upto(l, n) == n <= Len(log[l]) /\ \A i \in 1 .. n : Passed(l, i)

InBatch(l, i) == \E k \in DOMAIN task[l].batch : task[l].batch[k] = i

Batched(l) ==
  /\ \A k \in DOMAIN task[l].batch : task[l].batch[k] \in Msgs(l)
  /\ task[l].at \notin {"send", "ack"} => task[l].batch = <<>>
  /\ task[l].at = "ack" => kind \notin Polling /\ task[l].batch # <<>>

\* Kafka: the commit of a message also covers all messages before it.
Committed(l) ==
  /\ Upto(l, saved[l])
  /\ task[l].at = "idle" => Upto(l, task[l].pos)
  /\ task[l].at \in {"send", "ack"} =>
       /\ Len(task[l].batch) = 1
       /\ task[l].pos <= Len(log[l])
       /\ \A i \in 1 .. task[l].pos : Passed(l, i) \/ i = Current(l)
       /\ \A i \in 1 .. (Current(l) - 1) : Passed(l, i)
       /\ task[l].at = "ack" => Passed(l, Current(l))

\* RabbitMQ and JetStream: a message is in the hands of the task once.
Acknowledged(l) ==
  /\ \A i \in acked : i \in Msgs(l) /\ Passed(l, i)
  /\ \A k \in DOMAIN task[l].batch : task[l].batch[k] \notin acked
  /\ \A j, k \in DOMAIN task[l].batch : task[l].batch[j] = task[l].batch[k] => j = k
  /\ task[l].at = "ack" => Passed(l, Current(l))

\* Kinesis: what was read up to pos was passed or is still in the batch, and the
\* batch lies behind the checkpoint.
Sequenced(l) ==
  /\ saved[l] <= cp[l] /\ Upto(l, cp[l])
  /\ task[l].at \in {"idle", "send"} =>
       /\ cp[l] <= task[l].pos /\ task[l].pos <= Len(log[l])
       /\ \A i \in 1 .. task[l].pos : Passed(l, i) \/ InBatch(l, i)
       /\ \A k \in DOMAIN task[l].batch : task[l].batch[k] \in cp[l] + 1 .. task[l].pos
       /\ \A i \in task[l].seen : i \in cp[l] + 1 .. task[l].pos
       /\ task[l].at = "idle" => task[l].seen = {}

\* CloudWatch: whatever is not younger than the checkpoint was passed, and what a
\* poll returns is younger.
Timed(l) ==
  /\ saved[l] <= cp[l]
  /\ \A i \in Msgs(l) : log[l][i].ts >= 1 /\ (log[l][i].ts <= cp[l] => Passed(l, i))
  /\ \A k \in DOMAIN task[l].batch : log[l][task[l].batch[k]].ts > cp[l]
  /\ \A i \in task[l].seen : i \in Msgs(l) /\ Passed(l, i) /\ log[l][i].ts > cp[l]
  /\ task[l].at = "send" => task[l].batch # <<>> \/ task[l].seen # {}
  /\ task[l].at = "page" => task[l].seen # {}

LaneInv(l) ==
  /\ Batched(l)
  /\ kind = "kafka" => Committed(l)
  /\ kind \in {"rabbitmq", "jetstream"} => Acknowledged(l)
  /\ kind = "kinesis" => Sequenced(l)
  /\ kind = "cloudwatch" => Timed(l)

QueueInv == QueueTyped /\ \A l \in Lane : LaneInv(l)

-----------------------------------------------------------------------------
(* Batches: a finite set in the order of a relation.                       *)

\* In a finite total order every rank is taken, by one element.
LEMMA Ranks ==
  ASSUME NEW S, IsFiniteSet(S), NEW R,
         \A i, j \in S : i # j => <<i, j>> \in R \/ <<j, i>> \in R,
         \A i, j, k \in S : <<i, j>> \in R /\ <<j, k>> \in R => <<i, k>> \in R,
         \A i \in S : <<i, i>> \notin R
  PROVE  /\ \A k \in 1 .. Cardinality(S) :
              \E i \in S : Cardinality({j \in S : <<j, i>> \in R}) = k - 1
         /\ \A i \in S : Cardinality({j \in S : <<j, i>> \in R}) + 1 \in 1 .. Cardinality(S)
         /\ \A i, j \in S : Cardinality({k \in S : <<k, i>> \in R}) = Cardinality({k \in S : <<k, j>> \in R})
                              => i = j
<1> DEFINE P(i) == {j \in S : <<j, i>> \in R}
           n == Cardinality(S)
           rank == [i \in S |-> Cardinality(P(i)) + 1]
<1>1. n \in Nat
  BY FS_CardinalityType
<1>2. ASSUME NEW i \in S
      PROVE  IsFiniteSet(P(i)) /\ Cardinality(P(i)) \in Nat /\ Cardinality(P(i)) + 1 \in 1 .. n
  <2>1. P(i) \in SUBSET S /\ P(i) # S
    OBVIOUS
  <2>2. IsFiniteSet(P(i)) /\ Cardinality(P(i)) <= n /\ Cardinality(P(i)) # n
    BY <2>1, FS_Subset
  <2>3. Cardinality(P(i)) \in Nat
    BY <2>2, FS_CardinalityType
  <2> HIDE DEF P, n
  <2> QED
    BY <1>1, <2>2, <2>3, SMT
<1>3. ASSUME NEW i \in S, NEW j \in S, <<i, j>> \in R
      PROVE  Cardinality(P(i)) # Cardinality(P(j))
  <2>1. P(i) \in SUBSET P(j) /\ i \in P(j) /\ i \notin P(i)
    BY <1>3
  <2>2. IsFiniteSet(P(j))
    BY <1>2
  <2> QED
    BY <2>1, <2>2, FS_Subset
<1>4. ASSUME NEW i \in S, NEW j \in S, Cardinality(P(i)) = Cardinality(P(j))
      PROVE  i = j
  <2>1. i # j => <<i, j>> \in R \/ <<j, i>> \in R
    OBVIOUS
  <2> HIDE DEF P
  <2> QED
    BY <1>3, <1>4, <2>1
<1>5. rank \in Injection(S, 1 .. n)
  <2>1. rank \in [S -> 1 .. n]
    BY <1>2
  <2>2. \A i \in S : rank[i] = Cardinality(P(i)) + 1
    OBVIOUS
  <2> HIDE DEF rank, n, P
  <2>3. ASSUME NEW i \in S, NEW j \in S, rank[i] = rank[j]
        PROVE  i = j
    <3>1. Cardinality(P(i)) \in Nat /\ Cardinality(P(j)) \in Nat
      BY <1>2
    <3>2. Cardinality(P(i)) = Cardinality(P(j))
      BY <2>2, <2>3, <3>1, SMT
    <3> QED
      BY <1>4, <3>2
  <2> QED
    BY <2>1, <2>3 DEF Injection, IsInjective
<1>6. IsFiniteSet(1 .. n) /\ Cardinality(1 .. n) = n
  BY <1>1, FS_Interval, SMT
<1>7. rank \in Surjection(S, 1 .. n)
  BY <1>5, <1>6, FS_Injection
<1>8. ASSUME NEW k \in 1 .. n
      PROVE  \E i \in S : Cardinality(P(i)) = k - 1
  <2>1. PICK i \in S : rank[i] = k
    BY <1>7 DEF Surjection
  <2>2. Cardinality(P(i)) \in Nat /\ Cardinality(P(i)) + 1 = k
    BY <1>2, <2>1
  <2> HIDE DEF P
  <2>3. Cardinality(P(i)) = k - 1
    BY <2>2, SMT
  <2> QED
    BY <2>3
<1> QED
  BY <1>2, <1>4, <1>8

LEMMA InOrderFacts ==
  ASSUME NEW S \in SUBSET Nat, IsFiniteSet(S)
  PROVE  /\ InOrder(S) \in Seq(Nat) /\ DOMAIN InOrder(S) = 1 .. Cardinality(S)
         /\ \A k \in DOMAIN InOrder(S) : InOrder(S)[k] \in S
         /\ \A j, k \in DOMAIN InOrder(S) : InOrder(S)[j] = InOrder(S)[k] => j = k
         /\ \A i \in S : \E k \in DOMAIN InOrder(S) : InOrder(S)[k] = i
         /\ S # {} => InOrder(S) # <<>>
<1> DEFINE R == {p \in S \X S : p[1] < p[2]}
           P(i) == {j \in S : <<j, i>> \in R}
           Q(i) == {j \in S : j < i}
           n == Cardinality(S)
<1>1. n \in Nat /\ (S # {} => n # 0)
  BY FS_CardinalityType, FS_EmptySet
<1>2. \A i, j \in S : <<i, j>> \in R <=> i < j
  BY SMT
<1>3. \A i \in S : P(i) = Q(i)
  BY <1>2
<1>4. /\ \A i, j \in S : i # j => <<i, j>> \in R \/ <<j, i>> \in R
      /\ \A i, j, k \in S : <<i, j>> \in R /\ <<j, k>> \in R => <<i, k>> \in R
      /\ \A i \in S : <<i, i>> \notin R
  BY <1>2, SMT
<1> HIDE DEF R
<1>5. /\ \A k \in 1 .. n : \E i \in S : Cardinality(P(i)) = k - 1
      /\ \A i \in S : Cardinality(P(i)) + 1 \in 1 .. n
      /\ \A i, j \in S : Cardinality(P(i)) = Cardinality(P(j)) => i = j
  BY <1>4, Ranks
<1>6. /\ \A k \in 1 .. n : \E i \in S : Cardinality(Q(i)) = k - 1
      /\ \A i \in S : Cardinality(Q(i)) + 1 \in 1 .. n
      /\ \A i, j \in S : Cardinality(Q(i)) = Cardinality(Q(j)) => i = j
  BY <1>3, <1>5
<1>7. \A i \in S : Cardinality(Q(i)) \in Nat
  BY FS_Subset, FS_CardinalityType
<1>8. InOrder(S) = [k \in 1 .. n |-> CHOOSE i \in S : Cardinality(Q(i)) = k - 1]
  BY DEF InOrder
<1>9. \A k \in 1 .. n : InOrder(S)[k] \in S /\ Cardinality(Q(InOrder(S)[k])) = k - 1
  BY <1>6, <1>8
<1>10. DOMAIN InOrder(S) = 1 .. n /\ InOrder(S) \in [1 .. n -> Nat]
  BY <1>8, <1>9
<1>11. \A i \in S : \E k \in 1 .. n : InOrder(S)[k] = i
  <2> SUFFICES ASSUME NEW i \in S PROVE \E k \in 1 .. n : InOrder(S)[k] = i
    OBVIOUS
  <2> DEFINE k == Cardinality(Q(i)) + 1
  <2>1. k \in 1 .. n
    BY <1>6
  <2>2. Cardinality(Q(InOrder(S)[k])) = k - 1 /\ InOrder(S)[k] \in S
    BY <1>9, <2>1
  <2>3. k - 1 = Cardinality(Q(i))
    <3>1. Cardinality(Q(i)) \in Nat
      BY <1>7
    <3> HIDE DEF Q
    <3> QED
      BY <3>1, SMT
  <2> QED
    BY <1>6, <2>1, <2>2, <2>3
<1> HIDE DEF n, Q
<1>12. \A j, k \in 1 .. n : InOrder(S)[j] = InOrder(S)[k] => j = k
  BY <1>1, <1>9, SMT
<1>13. InOrder(S) \in Seq(Nat)
  BY <1>1, <1>10, SMT
<1>14. S # {} => InOrder(S) # <<>>
  BY <1>1, <1>10, SMT
<1> QED
  BY <1>9, <1>10, <1>11, <1>12, <1>13, <1>14 DEF n

LEMMA ByTimeFacts ==
  ASSUME QueueTyped, NEW l \in All, NEW S \in SUBSET Msgs(l)
  PROVE  /\ ByTime(l, S) \in Seq(Nat)
         /\ \A k \in DOMAIN ByTime(l, S) : ByTime(l, S)[k] \in S
         /\ S # {} => ByTime(l, S) # <<>>
<1> DEFINE R == {p \in S \X S : Before(l, p[1], p[2])}
           P(i) == {j \in S : <<j, i>> \in R}
           Q(i) == {j \in S : Before(l, j, i)}
           n == Cardinality(S)
<1>1. Len(log[l]) \in Nat /\ S \subseteq Nat /\ \A i \in S : log[l][i].ts \in Nat
  <2>1. log[l] \in Seq(Message)
    BY DEF QueueTyped
  <2>2. Len(log[l]) \in Nat /\ \A i \in S : i \in Nat /\ log[l][i] \in Message
    BY <2>1, SMT DEF Msgs
  <2>3. \A m \in Message : m.ts \in Nat
    BY QueueAssumption, SMT DEF Message, QueueAssumption
  <2> QED
    BY <2>2, <2>3
<1>2. IsFiniteSet(S)
  <2>1. IsFiniteSet(Msgs(l))
    BY <1>1, FS_Interval, SMT DEF Msgs
  <2> QED
    BY <2>1, FS_Subset
<1>3. n \in Nat /\ (S # {} => n # 0)
  BY <1>2, FS_CardinalityType, FS_EmptySet
<1>4. \A i, j \in S : <<i, j>> \in R <=> Before(l, i, j)
  BY SMT
<1>5. \A i \in S : P(i) = Q(i)
  BY <1>4
<1> HIDE DEF R
<1>6. /\ \A i, j \in S : i # j => <<i, j>> \in R \/ <<j, i>> \in R
      /\ \A i, j, k \in S : <<i, j>> \in R /\ <<j, k>> \in R => <<i, k>> \in R
      /\ \A i \in S : <<i, i>> \notin R
  <2>1. /\ \A i, j \in S : i # j => Before(l, i, j) \/ Before(l, j, i)
        /\ \A i \in S : ~Before(l, i, i)
    BY <1>1, SMT DEF Before
  <2>2. ASSUME NEW i \in S, NEW j \in S, NEW k \in S, Before(l, i, j), Before(l, j, k)
        PROVE  Before(l, i, k)
    BY <1>1, <2>2, SMT DEF Before
  <2> QED
    BY <1>4, <2>1, <2>2
<1>7. /\ \A k \in 1 .. n : \E i \in S : Cardinality(P(i)) = k - 1
      /\ \A i \in S : Cardinality(P(i)) + 1 \in 1 .. n
      /\ \A i, j \in S : Cardinality(P(i)) = Cardinality(P(j)) => i = j
  BY <1>2, <1>6, Ranks
<1>8. \A k \in 1 .. n : \E i \in S : Cardinality(Q(i)) = k - 1
  BY <1>5, <1>7
<1>9. ByTime(l, S) = [k \in 1 .. n |-> CHOOSE i \in S : Cardinality(Q(i)) = k - 1]
  BY DEF ByTime
<1>10. \A k \in 1 .. n : ByTime(l, S)[k] \in S
  BY <1>8, <1>9
<1>11. DOMAIN ByTime(l, S) = 1 .. n /\ ByTime(l, S) \in [1 .. n -> Nat]
  BY <1>1, <1>9, <1>10
<1> HIDE DEF n, Q, P
<1>12. ByTime(l, S) \in Seq(Nat) /\ (S # {} => ByTime(l, S) # <<>>)
  BY <1>3, <1>11, SMT
<1> QED
  BY <1>10, <1>11, <1>12

\* What max_timestamp and last_seq_saved choose is there.
LEMMA MaximumExists ==
  ASSUME NEW S \in SUBSET Nat, IsFiniteSet(S), S # {}
  PROVE  \E i \in S : \A j \in S : j <= i
<1> DEFINE R == {p \in S \X S : p[1] > p[2]}
           P(i) == {j \in S : <<j, i>> \in R}
           n == Cardinality(S)
<1>1. n \in Nat /\ n # 0
  BY FS_CardinalityType, FS_EmptySet
<1>2. \A i, j \in S : <<i, j>> \in R <=> i > j
  BY SMT
<1> HIDE DEF R
<1>3. /\ \A i, j \in S : i # j => <<i, j>> \in R \/ <<j, i>> \in R
      /\ \A i, j, k \in S : <<i, j>> \in R /\ <<j, k>> \in R => <<i, k>> \in R
      /\ \A i \in S : <<i, i>> \notin R
  BY <1>2, SMT
<1>4. /\ \A k \in 1 .. n : \E i \in S : Cardinality(P(i)) = k - 1
      /\ \A i \in S : Cardinality(P(i)) + 1 \in 1 .. n
      /\ \A i, j \in S : Cardinality(P(i)) = Cardinality(P(j)) => i = j
  BY <1>3, Ranks
<1>5. 1 \in 1 .. n /\ 1 - 1 = 0
  <2> HIDE DEF n
  <2> QED
    BY <1>1, SMT
<1>6. PICK i \in S : Cardinality(P(i)) = 0
  BY <1>4, <1>5
<1>7. P(i) = {}
  <2>1. P(i) \in SUBSET S
    OBVIOUS
  <2>2. IsFiniteSet(P(i))
    BY <2>1, FS_Subset
  <2> QED
    BY <2>2, <1>6, FS_EmptySet
<1>8. \A j \in S : <<j, i>> \notin R
  BY <1>7
<1>9. \A j \in S : ~(j > i)
  BY <1>2, <1>8
<1>10. \A j \in S : j <= i
  BY <1>9, SMT
<1> QED
  BY <1>10

\* GetRecords: the records behind a position, as many as fit, follow one another.
LEMMA TakeNext ==
  ASSUME NEW p \in Nat, NEW m \in Nat, NEW n \in Nat,
         NEW S, S = Take(p + 1 .. m, n)
  PROVE  /\ IsFiniteSet(S) /\ Cardinality(S) \in Nat
         /\ \A i : i \in S <=> i \in p + 1 .. p + Cardinality(S)
<1> DEFINE T == p + 1 .. m
<1>1. T = p + 1 .. m
  OBVIOUS
<1>2. ASSUME NEW i \in T
      PROVE  Cardinality({j \in T : j < i}) = i - 1 - p
  <2>1. {j \in T : j < i} = p + 1 .. i - 1 /\ p + 1 \in Int /\ i - 1 \in Int /\ i > p
    BY <1>1, SMT
  <2>2. Cardinality(p + 1 .. i - 1) = IF p + 1 > i - 1 THEN 0 ELSE (i - 1) - (p + 1) + 1
    BY <2>1, FS_Interval
  <2>3. (IF p + 1 > i - 1 THEN 0 ELSE (i - 1) - (p + 1) + 1) = i - 1 - p
    BY <2>1, SMT
  <2> QED
    BY <2>1, <2>2, <2>3
<1>3. S = {i \in T : i - 1 - p < n}
  BY <1>2 DEF Take
<1> DEFINE q == IF m < p THEN p ELSE IF m < p + n THEN m ELSE p + n
<1>4. S = {i \in p + 1 .. m : i - 1 - p < n}
  BY <1>1, <1>3
<1>5. q \in Nat /\ q >= p
  BY SMT
<1>6. \A i : i \in S <=> i \in p + 1 .. q
  BY <1>4, SMT
<1>7. S = p + 1 .. q
  BY <1>6
<1> HIDE DEF q
<1>8. IsFiniteSet(S) /\ Cardinality(S) = IF p + 1 > q THEN 0 ELSE q - (p + 1) + 1
  BY <1>5, <1>7, FS_Interval, SMT
<1> QED
  BY <1>5, <1>7, <1>8, SMT

-----------------------------------------------------------------------------
(* A step of one lane leaves the others alone, but for the checkpoint file *)
(* that is written for all.                                                *)

Grown == forwarded \subseteq forwarded' /\ excused \subseteq excused' /\ refused \subseteq refused'

Frame(l) ==
  /\ kind' = kind /\ log' = log /\ Grown
  /\ \A k \in All : k # l => task'[k] = task[k] /\ cp'[k] = cp[k] /\ saved'[k] \in {saved[k], cp[k]}

Ahead == kind \in Polling => \A k \in All : saved'[k] >= saved[k]

Held(l) ==
  QueueTyped' /\ LaneInv(l)' /\ Frame(l) /\ (kind \in Polling => saved'[l] >= saved[l])

LEMMA LaneFacts ==
  ASSUME QueueTyped, NEW l \in Lane
  PROVE  /\ l \in All /\ log[l] \in Seq(Message) /\ task[l] \in TaskSet
         /\ saved[l] \in Nat /\ cp[l] \in Nat /\ Len(log[l]) \in Nat
         /\ task[l].batch \in Seq(Nat) /\ task[l].pos \in Nat /\ task[l].seen \subseteq Nat
<1>1. l \in All
  BY QueueAssumption, SMT DEF Lane, All, QueueAssumption
<1>2. log[l] \in Seq(Message) /\ task[l] \in TaskSet /\ saved[l] \in Nat /\ cp[l] \in Nat
  BY <1>1 DEF QueueTyped
<1>3. Len(log[l]) \in Nat
  BY <1>2, SMT
<1>4. task[l].batch \in Seq(Nat) /\ task[l].pos \in Nat /\ task[l].seen \subseteq Nat
  BY <1>2, SMT DEF TaskSet
<1> QED
  BY <1>1, <1>2, <1>3, <1>4

LEMMA PassedKept ==
  ASSUME NEW l, log'[l] = log[l], Grown
  PROVE  \A i : Passed(l, i) => Passed(l, i)'
BY DEF Passed, Grown

\* Another lane than the one that takes the step: it is one of a poller.
LEMMA OtherLane ==
  ASSUME QueueInv, NEW l \in Lane, Frame(l), NEW k \in Lane, k # l
  PROVE  LaneInv(k)' /\ saved'[k] >= saved[k]
<1>1. kind \in Polling /\ k \in All
  BY LaneFacts DEF QueueInv, Lane
<1>2. /\ kind' = kind /\ log' = log /\ task'[k] = task[k] /\ cp'[k] = cp[k]
      /\ saved'[k] \in {saved[k], cp[k]}
  BY <1>1 DEF Frame
<1>3. saved[k] \in Nat /\ cp[k] \in Nat
  BY LaneFacts DEF QueueInv
<1>4. \A i : Passed(k, i) => Passed(k, i)'
  BY <1>2, PassedKept DEF Frame
<1>5. saved[k] <= cp[k]
  BY <1>1 DEF QueueInv, LaneInv, Sequenced, Timed, Polling
<1>6. saved'[k] <= cp[k] /\ saved'[k] >= saved[k]
  BY <1>2, <1>3, <1>5, SMT
<1>7. Batched(k)'
  BY <1>2 DEF QueueInv, LaneInv, Batched, Msgs
<1>8. kind = "kinesis" => Sequenced(k)'
  <2> SUFFICES ASSUME kind = "kinesis" PROVE Sequenced(k)'
    OBVIOUS
  <2>1. Sequenced(k)
    BY DEF QueueInv, LaneInv
  <2>2. Upto(k, cp[k])' /\ cp'[k] = cp[k]
    BY <1>2, <1>4, <2>1 DEF Sequenced, Upto
  <2>3. \A i : InBatch(k, i) => InBatch(k, i)'
    BY <1>2 DEF InBatch
  <2> QED
    BY <1>2, <1>4, <1>6, <2>1, <2>2, <2>3 DEF Sequenced
<1>9. kind = "cloudwatch" => Timed(k)'
  BY <1>2, <1>4, <1>6 DEF QueueInv, LaneInv, Timed, Msgs
<1>10. kind \notin {"kafka", "rabbitmq", "jetstream"}
  BY <1>1 DEF Polling
<1> QED
  BY <1>2, <1>6, <1>7, <1>8, <1>9, <1>10 DEF LaneInv

LEMMA HeldIsEnough ==
  ASSUME QueueInv, NEW l \in Lane, Held(l)
  PROVE  QueueInv' /\ Ahead
<1>1. Lane' = Lane /\ (kind \in Polling => All = Lane)
  BY DEF Held, Frame, Lane, All
<1>2. \A k \in Lane : LaneInv(k)'
  BY OtherLane DEF Held
<1>3. ASSUME kind \in Polling, NEW k \in All PROVE saved'[k] >= saved[k]
  BY <1>1, <1>3, OtherLane DEF Held
<1> QED
  BY <1>1, <1>2, <1>3 DEF QueueInv, Held, Ahead

\* The fields of the task after a step that changes nothing else of the lane.
LEMMA TaskStep ==
  ASSUME QueueTyped, NEW l \in Lane, NEW t \in TaskSet, task' = [task EXCEPT ![l] = t],
         UNCHANGED <<kind, log, saved, cp>>, Grown
  PROVE  /\ task'[l] = t /\ QueueTyped' /\ Frame(l)
         /\ (kind \in Polling => saved'[l] >= saved[l])
         /\ \A i : Passed(l, i) => Passed(l, i)'
<1>1. l \in All /\ saved[l] \in Nat
  BY LaneFacts
<1>2. task'[l] = t /\ task' \in [All -> TaskSet] /\ \A k \in All : k # l => task'[k] = task[k]
  BY <1>1 DEF QueueTyped
<1>3. saved'[l] >= saved[l]
  BY <1>1, SMT
<1> QED
  BY <1>2, <1>3, PassedKept DEF QueueTyped, Frame

-----------------------------------------------------------------------------
(* Kafka.                                                                  *)

LEMMA StepRecv ==
  ASSUME QueueInv, NEW l \in Lane, recv(l)
  PROVE  Held(l)
<1> DEFINE t == [task[l] EXCEPT !.at = "send", !.batch = <<task[l].pos + 1>>, !.pos = @ + 1]
<1>0. task[l] \in TaskSet /\ task[l].pos \in Nat /\ l \in All
  BY LaneFacts DEF QueueInv
<1>1. <<task[l].pos + 1>> \in Seq(Nat) /\ task[l].pos + 1 \in Nat
  BY <1>0, SMT
<1>2. t \in TaskSet /\ t.at = "send" /\ t.batch = <<task[l].pos + 1>> /\ t.pos = task[l].pos + 1
  BY <1>0, <1>1 DEF TaskSet, At
<1>2a. task' = [task EXCEPT ![l] = t]
  BY <1>0 DEF recv, QueueInv, QueueTyped
<1> HIDE DEF t
<1>3. /\ task'[l] = t /\ QueueTyped' /\ Frame(l)
      /\ (kind \in Polling => saved'[l] >= saved[l])
      /\ \A i : Passed(l, i) => Passed(l, i)'
  BY <1>2, <1>2a, TaskStep DEF QueueInv, recv, Same, Const, Grown, history
<1>4. Batched(l) /\ Committed(l) /\ kind = "kafka" /\ task[l].at = "idle" /\ task[l].pos < Len(log[l])
  BY DEF QueueInv, LaneInv, recv, Ready
<1>5. kind' = kind /\ log' = log /\ saved' = saved
  BY DEF recv, Same, Const
<1>6. Current(l)' = task[l].pos + 1 /\ task'[l].batch # <<>> /\ Len(task'[l].batch) = 1
  <2>1. task'[l].batch = <<task[l].pos + 1>>
    BY <1>2, <1>3
  <2> QED
    BY <2>1, SMT DEF Current
<1>7. Batched(l)'
  BY <1>2, <1>3, <1>4, <1>5, <1>6, LaneFacts, SMT DEF Batched, Msgs, QueueInv, Polling
<1>8. Committed(l)'
  BY <1>2, <1>3, <1>4, <1>5, <1>6, LaneFacts, SMTT(30) DEF Committed, Upto, QueueInv
<1> QED
  BY <1>3, <1>4, <1>5, <1>7, <1>8 DEF Held, LaneInv

LEMMA StepRebalance ==
  ASSUME QueueInv, NEW l \in Lane, rebalance(l)
  PROVE  Held(l)
<1> DEFINE t == [task[l] EXCEPT !.pos = saved[l]]
<1>1. task[l] \in TaskSet /\ saved[l] \in Nat /\ l \in All
  BY LaneFacts DEF QueueInv
<1>2. t \in TaskSet /\ t.at = task[l].at /\ t.batch = task[l].batch /\ t.pos = saved[l]
  BY <1>1 DEF TaskSet
<1>3. task' = [task EXCEPT ![l] = t]
  BY <1>1 DEF rebalance, QueueInv, QueueTyped
<1> HIDE DEF t
<1>4. /\ task'[l] = t /\ QueueTyped' /\ Frame(l)
      /\ (kind \in Polling => saved'[l] >= saved[l])
      /\ \A i : Passed(l, i) => Passed(l, i)'
  BY <1>2, <1>3, TaskStep DEF QueueInv, rebalance, Same, Const, Grown, history
<1>5. Batched(l) /\ Committed(l) /\ kind = "kafka" /\ task[l].at \in {"idle", "send", "ack"}
  BY DEF QueueInv, LaneInv, rebalance
<1>6. kind' = kind /\ log' = log /\ saved' = saved /\ Current(l)' = Current(l)
  BY <1>2, <1>4 DEF rebalance, Same, Const, Current
<1>7. Batched(l)'
  BY <1>2, <1>4, <1>5, <1>6 DEF Batched, Msgs
<1>8. Committed(l)'
  BY <1>2, <1>4, <1>5, <1>6, LaneFacts, SMTT(30) DEF Committed, Upto, QueueInv
<1> QED
  BY <1>4, <1>5, <1>6, <1>7, <1>8 DEF Held, LaneInv

\* The same for a step that also moves the lane's position in the file.
LEMMA SaveStep ==
  ASSUME QueueTyped, NEW l \in Lane, NEW t \in TaskSet, task' = [task EXCEPT ![l] = t],
         UNCHANGED <<kind, log>>, Grown,
         cp' \in [All -> Nat], saved' \in [All -> Nat],
         \A k \in All : k # l => cp'[k] = cp[k] /\ saved'[k] \in {saved[k], cp[k]}
  PROVE  /\ task'[l] = t /\ QueueTyped' /\ Frame(l)
         /\ \A i : Passed(l, i) => Passed(l, i)'
<1>1. l \in All
  BY LaneFacts
<1>2. task'[l] = t /\ task' \in [All -> TaskSet] /\ \A k \in All : k # l => task'[k] = task[k]
  BY <1>1 DEF QueueTyped
<1> QED
  BY <1>2, PassedKept DEF QueueTyped, Frame

LEMMA StepCommitMessage ==
  ASSUME QueueInv, NEW l \in Lane, commit_message(l)
  PROVE  Held(l)
<1> DEFINE t == [task[l] EXCEPT !.at = "idle", !.batch = <<>>]
<1>1. task[l] \in TaskSet /\ saved[l] \in Nat /\ l \in All /\ <<>> \in Seq(Nat)
  BY LaneFacts, SMT DEF QueueInv
<1>2. t \in TaskSet /\ t.at = "idle" /\ t.batch = <<>> /\ t.pos = task[l].pos
  BY <1>1 DEF TaskSet, At
<1>3. task' = [task EXCEPT ![l] = t]
  BY <1>1 DEF commit_message, QueueInv, QueueTyped
<1> HIDE DEF t
<1>4. Batched(l) /\ Committed(l) /\ kind = "kafka" /\ task[l].at = "ack"
  BY DEF QueueInv, LaneInv, commit_message, Ready
<1>5. Current(l) \in Nat /\ Current(l) \in 1 .. Len(log[l])
  BY <1>4, LaneFacts, SMT DEF Batched, Committed, Current, QueueInv, Msgs
<1>6. /\ saved' \in [All -> Nat] /\ saved'[l] \in {saved[l], Current(l)}
      /\ \A k \in All : k # l => saved'[k] = saved[k]
  BY <1>1, <1>5 DEF commit_message, QueueInv, QueueTyped
<1>7. kind' = kind /\ log' = log /\ cp' = cp /\ UNCHANGED history
  BY DEF commit_message, Same, Const
<1>8. /\ task'[l] = t /\ QueueTyped' /\ Frame(l)
      /\ \A i : Passed(l, i) => Passed(l, i)'
  BY <1>2, <1>3, <1>6, <1>7, SaveStep DEF QueueInv, QueueTyped, Grown, history
<1>9. Batched(l)'
  BY <1>2, <1>8, SMTT(30) DEF Batched, Msgs
<1>10. Upto(l, Current(l)) /\ Upto(l, task[l].pos)
  <2>1. Current(l) <= Len(log[l]) /\ \A i \in 1 .. Current(l) : i = Current(l) \/ i \in 1 .. (Current(l) - 1)
    BY <1>5, SMT
  <2>2. \A i \in 1 .. Current(l) : Passed(l, i)
    BY <1>4, <2>1 DEF Committed
  <2>3. task[l].pos <= Len(log[l]) /\ \A i \in 1 .. task[l].pos : Passed(l, i)
    BY <1>4 DEF Committed
  <2> QED
    BY <2>1, <2>2, <2>3 DEF Upto
<1>11. Committed(l)'
  BY <1>2, <1>4, <1>6, <1>7, <1>8, <1>10 DEF Committed, Upto
<1> QED
  BY <1>4, <1>7, <1>8, <1>9, <1>11 DEF Held, LaneInv, Polling

-----------------------------------------------------------------------------
(* Steps that all consumers have.                                          *)

\* A task that has ended holds nothing.
LEMMA EndedTask ==
  ASSUME QueueInv, NEW l \in Lane, NEW t \in TaskSet, task' = [task EXCEPT ![l] = t],
         t.at \in {"stopped", "dead"}, t.batch = <<>>, t.seen = task[l].seen,
         UNCHANGED <<kind, log, saved, cp, acked>>, Grown
  PROVE  Held(l)
<1>1. /\ task'[l] = t /\ QueueTyped' /\ Frame(l)
      /\ (kind \in Polling => saved'[l] >= saved[l])
      /\ \A i : Passed(l, i) => Passed(l, i)'
  BY TaskStep DEF QueueInv
<1>2. LaneInv(l)
  BY DEF QueueInv
<1>3. \A k : k \notin DOMAIN task'[l].batch
  BY <1>1, SMTT(30)
<1>4. Batched(l)'
  BY <1>1, <1>3 DEF Batched
<1>5. kind = "kafka" => Committed(l)'
  BY <1>1, <1>2 DEF LaneInv, Committed, Upto
<1>6. kind \in {"rabbitmq", "jetstream"} => Acknowledged(l)'
  BY <1>1, <1>2, <1>3 DEF LaneInv, Acknowledged, Msgs
<1>7. kind = "kinesis" => Sequenced(l)'
  BY <1>1, <1>2 DEF LaneInv, Sequenced, Upto
<1>8. kind = "cloudwatch" => Timed(l)'
  BY <1>1, <1>2, <1>3 DEF LaneInv, Timed, Msgs
<1> QED
  BY <1>1, <1>4, <1>5, <1>6, <1>7, <1>8 DEF Held, LaneInv

LEMMA StepEnds ==
  ASSUME QueueInv, NEW l \in Lane,
         \/ start_failed(l) \/ start_stopped(l) \/ delivery_error(l) \/ re_acquire_failed(l)
         \/ stop_task(l) \/ refused_end(l)
  PROVE  Held(l)
<1>1. task[l] \in TaskSet /\ l \in All /\ <<>> \in Seq(Nat)
  BY LaneFacts, SMT DEF QueueInv
<1>2. UNCHANGED <<kind, log, saved, cp, acked>> /\ Grown
  BY DEF start_failed, start_stopped, delivery_error, re_acquire_failed, stop_task, refused_end,
         Same, Const, Grown, history
<1>3. CASE start_failed(l) \/ start_stopped(l) \/ delivery_error(l) \/ re_acquire_failed(l)
  <2>1. task[l].at \in {"start", "idle"}
    BY <1>3 DEF start_failed, start_stopped, delivery_error, re_acquire_failed, Ready
  <2>2. task[l].batch = <<>>
    BY <2>1 DEF QueueInv, LaneInv, Batched
  <2>3. PICK a \in {"stopped", "dead"} : task' = [task EXCEPT ![l].at = a]
    BY <1>3 DEF start_failed, start_stopped, delivery_error, re_acquire_failed, Goto
  <2> DEFINE t == [task[l] EXCEPT !.at = a]
  <2>4. t \in TaskSet /\ t.at = a /\ t.batch = <<>> /\ t.seen = task[l].seen
    BY <1>1, <2>2 DEF TaskSet, At
  <2>5. task' = [task EXCEPT ![l] = t]
    BY <1>1, <2>3 DEF QueueInv, QueueTyped
  <2> HIDE DEF t
  <2> QED
    BY <1>2, <2>4, <2>5, EndedTask
<1>4. CASE stop_task(l) \/ refused_end(l)
  <2>1. PICK a \in {"stopped", "dead"} : task' = [task EXCEPT ![l].at = a, ![l].batch = <<>>]
    BY <1>4 DEF stop_task, refused_end
  <2> DEFINE t == [task[l] EXCEPT !.at = a, !.batch = <<>>]
  <2>2. t \in TaskSet /\ t.at = a /\ t.batch = <<>> /\ t.seen = task[l].seen
    BY <1>1 DEF TaskSet, At
  <2>3. task' = [task EXCEPT ![l] = t]
    BY <1>1, <2>1 DEF QueueInv, QueueTyped
  <2> HIDE DEF t
  <2> QED
    BY <1>2, <2>2, <2>3, EndedTask
<1> QED
  BY <1>3, <1>4

LEMMA StepStartSource ==
  ASSUME QueueInv, NEW l \in Lane, start_source(l)
  PROVE  Held(l)
<1> DEFINE t == [NewTask EXCEPT !.at = "idle", !.pos = Begin(l)]
<1>1. saved[l] \in Nat /\ cp[l] \in Nat /\ Len(log[l]) \in Nat /\ l \in All /\ <<>> \in Seq(Nat) /\ 0 \in Nat
  BY LaneFacts, SMT DEF QueueInv
<1>2. Begin(l) \in Nat
  BY <1>1 DEF Begin
<1>3. t \in TaskSet /\ t.at = "idle" /\ t.batch = <<>> /\ t.pos = Begin(l) /\ t.seen = {}
  BY <1>1, <1>2 DEF TaskSet, At, NewTask
<1>4. task' = [task EXCEPT ![l] = t]
  BY DEF start_source
<1> HIDE DEF t
<1>5. UNCHANGED <<kind, log, saved, cp, acked>> /\ Grown
  BY DEF start_source, Same, Const, Grown
<1>6. /\ task'[l] = t /\ QueueTyped' /\ Frame(l)
      /\ (kind \in Polling => saved'[l] >= saved[l])
      /\ \A i : Passed(l, i) => Passed(l, i)'
  BY <1>3, <1>4, <1>5, TaskStep DEF QueueInv
<1>7. LaneInv(l)
  BY DEF QueueInv
<1>8. \A k : k \notin DOMAIN task'[l].batch
  BY <1>3, <1>6, SMT
<1>9. Batched(l)'
  BY <1>3, <1>6, <1>8 DEF Batched
<1>10. kind = "kafka" => Committed(l)'
  BY <1>3, <1>5, <1>6, <1>7 DEF LaneInv, Committed, Upto, Begin
<1>11. kind \in {"rabbitmq", "jetstream"} => Acknowledged(l)'
  BY <1>3, <1>5, <1>6, <1>7, <1>8 DEF LaneInv, Acknowledged, Msgs
<1>12. ASSUME kind = "kinesis" PROVE Sequenced(l)'
  <2>1. Sequenced(l)
    BY <1>7, <1>12 DEF LaneInv
  <2>2. cp[l] <= Begin(l) /\ Begin(l) <= Len(log[l])
    BY <1>1, <1>12, <2>1, SMT DEF Sequenced, Upto, Begin
  <2>3. \A i \in 1 .. Begin(l) : Passed(l, i)'
    <3>1. CASE cp[l] = 0
      <4>1. \A i \in 1 .. Begin(l) : <<l, i>> \in excused'
        BY <1>12, <3>1 DEF start_source
      <4> QED
        BY <4>1 DEF Passed
    <3>2. CASE cp[l] # 0
      BY <1>6, <1>12, <2>1, <3>2 DEF Begin, Sequenced, Upto
    <3> QED
      BY <3>1, <3>2
  <2>4. Upto(l, cp[l])' /\ cp'[l] = cp[l] /\ saved'[l] = saved[l]
    BY <1>5, <1>6, <2>1 DEF Sequenced, Upto
  <2> QED
    BY <1>3, <1>5, <1>6, <1>8, <2>1, <2>2, <2>3, <2>4 DEF Sequenced
<1>13. kind = "cloudwatch" => Timed(l)'
  BY <1>3, <1>5, <1>6, <1>7, <1>8 DEF LaneInv, Timed, Msgs
<1> QED
  BY <1>5, <1>6, <1>9, <1>10, <1>11, <1>12, <1>13 DEF Held, LaneInv

-----------------------------------------------------------------------------
(* RabbitMQ and JetStream.                                                 *)

\* A batch of messages that nobody has acknowledged is handed to the task.
LEMMA HandedOut ==
  ASSUME QueueInv, NEW l \in Lane, kind \in {"rabbitmq", "jetstream"},
         NEW b \in Seq(Nat), b # <<>>,
         \A k \in DOMAIN b : b[k] \in Msgs(l) \ acked,
         \A j, k \in DOMAIN b : b[j] = b[k] => j = k,
         task' = [task EXCEPT ![l].at = "send", ![l].batch = b],
         UNCHANGED <<kind, log, saved, cp, acked, forwarded, excused, refused>>
  PROVE  Held(l)
<1> DEFINE t == [task[l] EXCEPT !.at = "send", !.batch = b]
<1>1. task[l] \in TaskSet /\ l \in All
  BY LaneFacts DEF QueueInv
<1>2. t \in TaskSet /\ t.at = "send" /\ t.batch = b
  BY <1>1 DEF TaskSet, At
<1>3. task' = [task EXCEPT ![l] = t]
  BY <1>1 DEF QueueInv, QueueTyped
<1> HIDE DEF t
<1>4. /\ task'[l] = t /\ QueueTyped' /\ Frame(l)
      /\ (kind \in Polling => saved'[l] >= saved[l])
      /\ \A i : Passed(l, i) => Passed(l, i)'
  BY <1>2, <1>3, TaskStep DEF QueueInv, Grown
<1>5. Acknowledged(l)
  BY DEF QueueInv, LaneInv
<1>6. Batched(l)'
  BY <1>2, <1>4 DEF Batched, Msgs
<1>7. Acknowledged(l)'
  <2>1. task'[l].at = "send" /\ task'[l].batch = b
    BY <1>2, <1>4
  <2>2. \A i \in acked' : i \in Msgs(l)' /\ Passed(l, i)'
    BY <1>4, <1>5 DEF Acknowledged, Msgs
  <2>3. \A k \in DOMAIN b : b[k] \notin acked'
    BY SMT
  <2>4. task'[l].at # "ack"
    BY <2>1
  <2> QED
    BY <2>1, <2>2, <2>3, <2>4, ZenonT(60) DEF Acknowledged
<1> QED
  BY <1>4, <1>6, <1>7 DEF Held, LaneInv

LEMMA StepDelivery ==
  ASSUME QueueInv, NEW l \in Lane, next_delivery(l) \/ fetch(l)
  PROVE  Held(l)
<1>1. /\ UNCHANGED <<kind, log, saved, cp, acked, forwarded, excused, refused>>
      /\ kind \in {"rabbitmq", "jetstream"}
  BY DEF next_delivery, fetch, Same, Const, history
<1>2. Msgs(l) \subseteq Nat /\ IsFiniteSet(Msgs(l))
  <2>1. Len(log[l]) \in Nat
    BY LaneFacts DEF QueueInv
  <2> QED
    BY <2>1, FS_Interval, SMTT(40) DEF Msgs
<1>3. CASE next_delivery(l)
  <2>1. PICK i \in Msgs(l) \ (acked \cup out) :
               task' = [task EXCEPT ![l].at = "send", ![l].batch = <<i>>]
    BY <1>3 DEF next_delivery
  <2>2. /\ <<i>> \in Seq(Nat) /\ <<i>> # <<>> /\ \A k \in DOMAIN <<i>> : <<i>>[k] = i
        /\ \A j, k \in DOMAIN <<i>> : j = k
    BY <1>2, SMT
  <2> QED
    BY <1>1, <2>1, <2>2, HandedOut
<1>4. CASE fetch(l)
  <2>1. PICK n : LET S == Take(Msgs(l) \ (acked \cup out), n)
                 IN  S # {} /\ task' = [task EXCEPT ![l].at = "send", ![l].batch = InOrder(S)]
    BY <1>4 DEF fetch
  <2> DEFINE S == Take(Msgs(l) \ (acked \cup out), n)
  <2>2. S \in SUBSET Msgs(l) /\ \A i \in S : i \notin acked
    BY DEF Take
  <2>3. S # {} /\ task' = [task EXCEPT ![l].at = "send", ![l].batch = InOrder(S)]
    BY <2>1
  <2> HIDE DEF S
  <2>4. IsFiniteSet(S) /\ S \in SUBSET Nat
    BY <1>2, <2>2, FS_Subset
  <2>5. /\ InOrder(S) \in Seq(Nat) /\ InOrder(S) # <<>>
        /\ \A k \in DOMAIN InOrder(S) : InOrder(S)[k] \in S
        /\ \A j, k \in DOMAIN InOrder(S) : InOrder(S)[j] = InOrder(S)[k] => j = k
    BY <2>3, <2>4, InOrderFacts
  <2> QED
    BY <1>1, <2>2, <2>3, <2>5, HandedOut
<1> QED
  BY <1>3, <1>4

LEMMA TailFacts ==
  ASSUME NEW b \in Seq(Nat), b # <<>>
  PROVE  /\ Tail(b) \in Seq(Nat) /\ 1 \in DOMAIN b /\ Head(b) = b[1] /\ Head(b) \in Nat
         /\ Len(b) = 1 => Tail(b) = <<>>
         /\ \A k \in DOMAIN Tail(b) : k + 1 \in DOMAIN b /\ k + 1 # 1 /\ Tail(b)[k] = b[k + 1]
         /\ \A k \in DOMAIN b : k = 1 \/ (k - 1 \in DOMAIN Tail(b) /\ Tail(b)[k - 1] = b[k])
         /\ \A j, k \in DOMAIN Tail(b) : j + 1 = k + 1 => j = k
<1>1. Len(b) \in Nat /\ Len(b) # 0 /\ DOMAIN b = 1 .. Len(b) /\ b \in [1 .. Len(b) -> Nat]
  BY SMT
<1>2. /\ Tail(b) \in Seq(Nat) /\ DOMAIN Tail(b) = 1 .. Len(b) - 1
      /\ \A k \in 1 .. Len(b) - 1 : Tail(b)[k] = b[k + 1]
  BY <1>1, SMT
<1>3. Head(b) = b[1]
  BY SMT
<1>4. 1 \in DOMAIN b /\ Head(b) \in Nat
  BY <1>1, <1>3, SMT
<1>5. Len(b) = 1 => Tail(b) = <<>>
  BY <1>2, SMT
<1>6. \A k \in DOMAIN Tail(b) : k + 1 \in DOMAIN b /\ k + 1 # 1 /\ Tail(b)[k] = b[k + 1]
  BY <1>1, <1>2, SMT
<1>7. ASSUME NEW k \in DOMAIN b, k # 1
      PROVE  k - 1 \in DOMAIN Tail(b) /\ Tail(b)[k - 1] = b[k]
  <2>1. k - 1 \in DOMAIN Tail(b) /\ (k - 1) + 1 = k
    BY <1>1, <1>2, <1>7, SMT
  <2> QED
    BY <1>6, <2>1
<1>8. \A j, k \in DOMAIN Tail(b) : j + 1 = k + 1 => j = k
  BY <1>1, <1>2, SMT
<1> QED
  BY <1>2, <1>3, <1>4, <1>5, <1>6, <1>7, <1>8

LEMMA StepAck ==
  ASSUME QueueInv, NEW l \in Lane, ack(l)
  PROVE  Held(l)
<1> DEFINE a == IF Len(task[l].batch) = 1 THEN "idle" ELSE "send"
           b == task[l].batch
           t == [task[l] EXCEPT !.batch = Tail(b), !.at = a]
<1>1. task[l] \in TaskSet /\ l \in All /\ b \in Seq(Nat)
  BY LaneFacts DEF QueueInv
<1>2. /\ Batched(l) /\ Acknowledged(l) /\ b # <<>> /\ Passed(l, Current(l))
      /\ kind \in {"rabbitmq", "jetstream"}
  BY DEF QueueInv, LaneInv, ack, Ready, Batched, Acknowledged
<1>3. /\ Tail(b) \in Seq(Nat) /\ 1 \in DOMAIN b /\ Current(l) = b[1]
      /\ Len(b) = 1 => Tail(b) = <<>>
      /\ \A k \in DOMAIN Tail(b) : k + 1 \in DOMAIN b /\ k + 1 # 1 /\ Tail(b)[k] = b[k + 1]
      /\ \A j, k \in DOMAIN Tail(b) : j + 1 = k + 1 => j = k
  BY <1>1, <1>2, TailFacts DEF Current
<1>4. t \in TaskSet /\ t.at = a /\ t.batch = Tail(b)
  BY <1>1, <1>3 DEF TaskSet, At
<1>5. task' = [task EXCEPT ![l] = t]
  BY <1>1 DEF ack, QueueInv, QueueTyped
<1>6. (a = "idle" => Tail(b) = <<>>) /\ a \in {"idle", "send"}
  BY <1>3
<1>7. /\ \A k \in DOMAIN b : b[k] \in Msgs(l) /\ b[k] \notin acked
      /\ \A j, k \in DOMAIN b : b[j] = b[k] => j = k
      /\ \A i \in acked : i \in Msgs(l) /\ Passed(l, i)
  BY <1>2 DEF Batched, Acknowledged
<1> HIDE DEF t, a, b
<1>8. UNCHANGED <<kind, log, saved, cp, forwarded, excused, refused>>
  BY DEF ack, Same, Const, history
<1>9. /\ task'[l] = t /\ QueueTyped' /\ Frame(l)
      /\ (kind \in Polling => saved'[l] >= saved[l])
      /\ \A i : Passed(l, i) => Passed(l, i)'
  BY <1>4, <1>5, <1>8, TaskStep DEF QueueInv, Grown
<1>10. task'[l].at = a /\ task'[l].batch = Tail(b) /\ Msgs(l)' = Msgs(l)
  BY <1>4, <1>8, <1>9 DEF Msgs
<1>11. acked' = acked \/ acked' = acked \cup {b[1]}
  BY <1>3 DEF ack
<1>12. Batched(l)'
  <2>1. \A k \in DOMAIN Tail(b) : Tail(b)[k] \in Msgs(l)
    BY <1>3, <1>7
  <2>2. a # "ack" /\ (a # "send" => Tail(b) = <<>>)
    BY <1>6
  <2> QED
    BY <1>10, <2>1, <2>2 DEF Batched
<1>13. \A i \in acked' : i \in Msgs(l)' /\ Passed(l, i)'
  <2>1. b[1] \in Msgs(l) /\ Passed(l, b[1])
    BY <1>2, <1>3, <1>7
  <2> QED
    BY <1>7, <1>9, <1>10, <1>11, <2>1
<1>14. ASSUME NEW k \in DOMAIN Tail(b) PROVE Tail(b)[k] \notin acked'
  <2>1. Tail(b)[k] = b[k + 1] /\ b[k + 1] \notin acked /\ b[k + 1] # b[1]
    BY <1>3, <1>7
  <2>2. \A i \in acked' : i \in acked \/ i = b[1]
    BY <1>11
  <2> QED
    BY <2>1, <2>2
<1>15. ASSUME NEW j \in DOMAIN Tail(b), NEW k \in DOMAIN Tail(b), Tail(b)[j] = Tail(b)[k]
       PROVE  j = k
  BY <1>3, <1>7, <1>15, ZenonT(60)
<1>16. Acknowledged(l)'
  BY <1>6, <1>10, <1>13, <1>14, <1>15 DEF Acknowledged
<1> QED
  BY <1>2, <1>8, <1>9, <1>12, <1>16 DEF Held, LaneInv

-----------------------------------------------------------------------------
(* A message is done with: sent, not worth sending, or refused.            *)

LEMMA SettledAtOnce ==
  ASSUME QueueInv, NEW l \in Lane, HasCurrent(l), kind \notin Polling, task' = Handled(l),
         UNCHANGED <<kind, log, saved, cp, acked>>, Grown,
         NEW c, c = Current(l), Passed(l, c)'
  PROVE  Held(l)
<1> DEFINE t == [task[l] EXCEPT !.at = "ack"]
<1>1. task[l] \in TaskSet /\ l \in All
  BY LaneFacts DEF QueueInv
<1>2. t \in TaskSet /\ t.at = "ack" /\ t.batch = task[l].batch /\ t.pos = task[l].pos
  BY <1>1 DEF TaskSet, At
<1>3. task' = [task EXCEPT ![l] = t]
  BY <1>1 DEF Handled, QueueInv, QueueTyped
<1> HIDE DEF t
<1>4. /\ task'[l] = t /\ QueueTyped' /\ Frame(l)
      /\ (kind \in Polling => saved'[l] >= saved[l])
      /\ \A i : Passed(l, i) => Passed(l, i)'
  BY <1>2, <1>3, TaskStep DEF QueueInv
<1>5. LaneInv(l) /\ task[l].at = "send" /\ task[l].batch # <<>>
  BY DEF QueueInv, HasCurrent, Ready
<1>6. Current(l)' = c
  BY <1>2, <1>4 DEF Current
<1>7. Batched(l)'
  BY <1>2, <1>4, <1>5 DEF LaneInv, Batched, Msgs
<1>8. kind = "kafka" => Committed(l)'
  <2> SUFFICES ASSUME kind = "kafka" PROVE Committed(l)'
    OBVIOUS
  <2>1. Committed(l)
    BY <1>5 DEF LaneInv
  <2>2. task'[l].at = "ack" /\ task'[l].batch = task[l].batch /\ task'[l].pos = task[l].pos
    BY <1>2, <1>4
  <2> QED
    BY <1>4, <1>5, <1>6, <2>1, <2>2 DEF Committed, Upto
<1>9. kind \in {"rabbitmq", "jetstream"} => Acknowledged(l)'
  <2> SUFFICES ASSUME kind \in {"rabbitmq", "jetstream"} PROVE Acknowledged(l)'
    OBVIOUS
  <2>1. Acknowledged(l)
    BY <1>5 DEF LaneInv
  <2>2. task'[l].at = "ack" /\ task'[l].batch = task[l].batch
    BY <1>2, <1>4
  <2> QED
    BY <1>4, <1>6, <2>1, <2>2 DEF Acknowledged, Msgs
<1> QED
  BY <1>4, <1>7, <1>8, <1>9 DEF Held, LaneInv, Polling

LEMMA SettledWithTheBatch ==
  ASSUME QueueInv, NEW l \in Lane, HasCurrent(l), kind \in Polling, task' = Handled(l),
         UNCHANGED <<kind, log, saved, cp>>, Grown,
         NEW c, c = Current(l), Passed(l, c)'
  PROVE  Held(l)
<1> DEFINE b == task[l].batch
           s == task[l].seen \cup {c}
           t == [task[l] EXCEPT !.batch = Tail(b), !.seen = s]
<1>1. task[l] \in TaskSet /\ l \in All /\ b \in Seq(Nat) /\ task[l].seen \subseteq Nat
  BY LaneFacts DEF QueueInv
<1>2. LaneInv(l) /\ task[l].at = "send" /\ b # <<>>
  BY DEF QueueInv, HasCurrent, Ready
<1>3. /\ Tail(b) \in Seq(Nat) /\ 1 \in DOMAIN b /\ c = b[1] /\ c \in Nat
      /\ \A k \in DOMAIN Tail(b) : k + 1 \in DOMAIN b /\ Tail(b)[k] = b[k + 1]
      /\ \A k \in DOMAIN b : k = 1 \/ (k - 1 \in DOMAIN Tail(b) /\ Tail(b)[k - 1] = b[k])
  BY <1>1, <1>2, TailFacts DEF Current
<1>4. s \in SUBSET Nat
  BY <1>1, <1>3
<1>5. t \in TaskSet /\ t.at = "send" /\ t.batch = Tail(b) /\ t.seen = s /\ t.pos = task[l].pos
  BY <1>1, <1>2, <1>3, <1>4 DEF TaskSet
<1>6. task' = [task EXCEPT ![l] = t]
  BY <1>1 DEF Handled, QueueInv, QueueTyped
<1>7. \A i : InBatch(l, i) <=> \E k \in DOMAIN b : b[k] = i
  BY DEF InBatch
<1>8. /\ \A k \in DOMAIN b : b[k] \in Msgs(l)
      /\ kind = "kinesis" => Sequenced(l) /\ \A k \in DOMAIN b : b[k] \in cp[l] + 1 .. task[l].pos
      /\ kind = "cloudwatch" => Timed(l) /\ \A k \in DOMAIN b : log[l][b[k]].ts > cp[l]
  BY <1>2 DEF LaneInv, Batched, Sequenced, Timed
<1>9. \A i \in s : i \in task[l].seen \/ i = c
  OBVIOUS
<1>10. s # {}
  OBVIOUS
<1> HIDE DEF t, b, s
<1>11. /\ task'[l] = t /\ QueueTyped' /\ Frame(l)
       /\ (kind \in Polling => saved'[l] >= saved[l])
       /\ \A i : Passed(l, i) => Passed(l, i)'
  BY <1>5, <1>6, TaskStep DEF QueueInv
<1>12. /\ task'[l].at = "send" /\ task'[l].batch = Tail(b) /\ task'[l].seen = s
       /\ task'[l].pos = task[l].pos /\ Msgs(l)' = Msgs(l)
  BY <1>5, <1>11 DEF Msgs
<1>13. Batched(l)'
  <2>1. \A k \in DOMAIN Tail(b) : Tail(b)[k] \in Msgs(l)
    BY <1>3, <1>8
  <2> QED
    BY <1>12, <2>1 DEF Batched
<1>14. ASSUME kind = "kinesis" PROVE Sequenced(l)'
  <2>1. ASSUME NEW i \in 1 .. task[l].pos PROVE Passed(l, i)' \/ InBatch(l, i)'
    <3>1. CASE Passed(l, i)
      BY <1>11, <3>1
    <3>2. CASE InBatch(l, i)
      <4>1. PICK k \in DOMAIN b : b[k] = i
        BY <1>7, <3>2
      <4>2. CASE k = 1
        BY <1>3, <4>1, <4>2
      <4>3. CASE k # 1
        <5>1. k - 1 \in DOMAIN Tail(b) /\ Tail(b)[k - 1] = i
          BY <1>3, <4>1, <4>3
        <5> QED
          BY <1>12, <5>1 DEF InBatch
      <4> QED
        BY <4>2, <4>3
    <3> QED
      BY <1>8, <1>14, <1>2, <2>1, <3>1, <3>2 DEF Sequenced
  <2>2. \A k \in DOMAIN Tail(b) : Tail(b)[k] \in cp[l] + 1 .. task[l].pos
    BY <1>3, <1>8, <1>14
  <2>3. \A i \in s : i \in cp[l] + 1 .. task[l].pos
    <3>1. c \in cp[l] + 1 .. task[l].pos
      BY <1>3, <1>8, <1>14
    <3>2. \A i \in task[l].seen : i \in cp[l] + 1 .. task[l].pos
      BY <1>2, <1>8, <1>14 DEF Sequenced
    <3> QED
      BY <1>9, <3>1, <3>2
  <2>4. cp'[l] = cp[l] /\ saved'[l] = saved[l] /\ Upto(l, cp[l])'
    BY <1>8, <1>11, <1>14 DEF Sequenced, Upto
  <2>5. cp[l] <= task[l].pos /\ task[l].pos <= Len(log[l]) /\ saved[l] <= cp[l]
    BY <1>2, <1>8, <1>14 DEF Sequenced
  <2> QED
    BY <1>12, <2>1, <2>2, <2>3, <2>4, <2>5 DEF Sequenced
<1>15. ASSUME kind = "cloudwatch" PROVE Timed(l)'
  <2>1. \A k \in DOMAIN Tail(b) : log[l][Tail(b)[k]].ts > cp[l]
    BY <1>3, <1>8, <1>15
  <2>2. \A i \in s : i \in Msgs(l) /\ Passed(l, i)' /\ log[l][i].ts > cp[l]
    <3>1. c \in Msgs(l) /\ log[l][c].ts > cp[l]
      BY <1>3, <1>8, <1>15
    <3>2. \A i \in task[l].seen : i \in Msgs(l) /\ Passed(l, i) /\ log[l][i].ts > cp[l]
      BY <1>8, <1>15 DEF Timed
    <3> QED
      BY <1>9, <1>11, <3>1, <3>2
  <2>3. \A i \in Msgs(l) : log[l][i].ts >= 1 /\ (log[l][i].ts <= cp[l] => Passed(l, i)')
    BY <1>8, <1>11, <1>15 DEF Timed
  <2>4. saved[l] <= cp[l]
    BY <1>8, <1>15 DEF Timed
  <2> QED
    BY <1>10, <1>12, <2>1, <2>2, <2>3, <2>4 DEF Timed
<1> QED
  BY <1>11, <1>13, <1>14, <1>15 DEF Held, LaneInv, Polling

LEMMA StepHandled ==
  ASSUME QueueInv, NEW l \in Lane, forward(l) \/ ignore(l) \/ refused_ack(l)
  PROVE  Held(l)
<1>1. HasCurrent(l) /\ task' = Handled(l) /\ UNCHANGED <<kind, log, saved, cp, acked>> /\ Grown
  BY DEF forward, ignore, refused_ack, Same, Const, Grown, history
<1>2. PICK c : c = Current(l)
  OBVIOUS
<1>3. \/ log[l][c].body # "line"
      \/ <<l, c>> \in forwarded' \cup refused'
  BY <1>2 DEF forward, ignore, refused_ack, IsLine
<1>4. Passed(l, c)'
  BY <1>1, <1>3 DEF Passed
<1> QED
  BY <1>1, <1>2, <1>4, SettledAtOnce, SettledWithTheBatch

-----------------------------------------------------------------------------
(* Kinesis.                                                                *)

LEMMA StepGetRecords ==
  ASSUME QueueInv, NEW l \in Lane, get_records(l)
  PROVE  Held(l)
<1> DEFINE S == Take({i \in Msgs(l) : i > task[l].pos}, batch_size)
           q == task[l].pos + Cardinality(S)
           b == InOrder(S)
           t == [task[l] EXCEPT !.at = "send", !.batch = b, !.pos = q]
<1>1. /\ task[l] \in TaskSet /\ l \in All /\ task[l].pos \in Nat /\ Len(log[l]) \in Nat
      /\ saved[l] \in Nat /\ cp[l] \in Nat /\ batch_size \in Nat
  BY LaneFacts, QueueAssumption DEF QueueInv, QueueAssumption
<1>2. kind = "kinesis" /\ task[l].at = "idle" /\ Batched(l) /\ Sequenced(l) /\ S # {}
  BY DEF QueueInv, LaneInv, get_records, Ready
<1>3. IsFiniteSet(S) /\ Cardinality(S) \in Nat /\ S = task[l].pos + 1 .. q /\ S \subseteq Msgs(l)
  <2>1. {i \in Msgs(l) : i > task[l].pos} = task[l].pos + 1 .. Len(log[l])
    BY <1>1, SMT DEF Msgs
  <2>2. S = Take(task[l].pos + 1 .. Len(log[l]), batch_size) /\ S \subseteq Msgs(l)
    BY <2>1 DEF Take
  <2> HIDE DEF S
  <2>3. /\ IsFiniteSet(S) /\ Cardinality(S) \in Nat
        /\ \A i : i \in S <=> i \in task[l].pos + 1 .. task[l].pos + Cardinality(S)
    <3>1. task[l].pos \in Nat /\ Len(log[l]) \in Nat /\ batch_size \in Nat
      BY <1>1
    <3>2. IsFiniteSet(S) /\ Cardinality(S) \in Nat
      BY <2>2, <3>1, TakeNext
    <3>3. \A i : i \in S <=> i \in task[l].pos + 1 .. task[l].pos + Cardinality(S)
      BY <2>2, <3>1, TakeNext
    <3> QED
      BY <3>2, <3>3
  <2> QED
    BY <2>2, <2>3
<1>4. t.at = "send" /\ t.batch = b /\ t.pos = q /\ t.seen = task[l].seen
  BY <1>1 DEF TaskSet
<1>5. task' = [task EXCEPT ![l] = t]
  BY <1>1 DEF get_records, QueueInv, QueueTyped
<1> HIDE DEF S
<1>6. q \in Nat /\ S \subseteq Nat /\ q \in S /\ task[l].pos <= q
  <2> DEFINE a == task[l].pos
             n == Cardinality(S)
  <2>1. a \in Nat /\ n \in Nat /\ q = a + n
    BY <1>1, <1>3
  <2>2. S = a + 1 .. q /\ \E i : i \in S
    BY <1>2, <1>3
  <2> HIDE DEF a, n, q
  <2>3. q \in Nat /\ a <= q /\ S \subseteq Nat /\ q \in S
    BY <2>1, <2>2, SMTT(30)
  <2> QED
    BY <2>3 DEF a
<1>7. q <= Len(log[l])
  <2>1. q \in Msgs(l)
    BY <1>3, <1>6
  <2> HIDE DEF q
  <2> QED
    BY <1>1, <2>1, SMT DEF Msgs
<1>8. /\ b \in Seq(Nat)
      /\ \A k \in DOMAIN b : b[k] \in S
      /\ \A i \in S : \E k \in DOMAIN b : b[k] = i
  BY <1>3, <1>6, InOrderFacts
<1>9. t \in TaskSet
  BY <1>1, <1>6, <1>8 DEF TaskSet, At
<1> HIDE DEF t, b, q
<1>10. UNCHANGED <<kind, log, saved, cp, forwarded, excused, refused>>
  BY DEF get_records, Same, Const, history
<1>11. /\ task'[l] = t /\ QueueTyped' /\ Frame(l)
       /\ (kind \in Polling => saved'[l] >= saved[l])
       /\ \A i : Passed(l, i) => Passed(l, i)'
  BY <1>5, <1>9, <1>10, TaskStep DEF QueueInv, Grown
<1>12. /\ task'[l].at = "send" /\ task'[l].batch = b /\ task'[l].pos = q
       /\ task'[l].seen = {} /\ Msgs(l)' = Msgs(l)
  BY <1>2, <1>4, <1>10, <1>11 DEF Sequenced, Msgs
<1>13. Batched(l)'
  BY <1>3, <1>8, <1>12 DEF Batched
<1>14. cp[l] <= task[l].pos /\ saved[l] <= cp[l] /\ Upto(l, cp[l])
  BY <1>2 DEF Sequenced
<1>15. \A i \in 1 .. task[l].pos : Passed(l, i)
  <2>1. \A i : ~InBatch(l, i)
    BY <1>2, SMT DEF InBatch, Batched
  <2> QED
    BY <1>2, <2>1 DEF Sequenced
<1>16. ASSUME NEW i \in 1 .. q PROVE Passed(l, i)' \/ InBatch(l, i)'
  <2>1. i \in 1 .. task[l].pos \/ i \in S
    BY <1>1, <1>3, <1>6, SMT
  <2> QED
    BY <1>8, <1>11, <1>12, <1>15, <2>1 DEF InBatch
<1>17. \A i \in S : i \in cp[l] + 1 .. q
  BY <1>1, <1>3, <1>6, <1>14, SMT
<1>18. cp[l] <= q
  BY <1>1, <1>6, <1>14, SMT
<1>19. Upto(l, cp[l])' /\ cp'[l] = cp[l] /\ saved'[l] = saved[l] /\ log' = log
  BY <1>10, <1>11, <1>14 DEF Upto
<1>20. \A k \in DOMAIN b : b[k] \in cp[l] + 1 .. q
  BY <1>8, <1>17
<1>21. Sequenced(l)'
  BY <1>7, <1>12, <1>14, <1>16, <1>18, <1>19, <1>20 DEF Sequenced
<1> QED
  BY <1>2, <1>10, <1>11, <1>13, <1>21 DEF Held, LaneInv

LEMMA StepReAcquire ==
  ASSUME QueueInv, NEW l \in Lane, re_acquire_iterator(l)
  PROVE  Held(l)
<1> DEFINE t == [task[l] EXCEPT !.pos = cp[l]]
<1>1. task[l] \in TaskSet /\ l \in All /\ cp[l] \in Nat /\ Len(log[l]) \in Nat
  BY LaneFacts DEF QueueInv
<1>2. kind = "kinesis" /\ task[l].at = "idle" /\ Batched(l) /\ Sequenced(l)
  BY DEF QueueInv, LaneInv, re_acquire_iterator, Ready
<1>3. t \in TaskSet /\ t.at = "idle" /\ t.batch = <<>> /\ t.pos = cp[l] /\ t.seen = {}
  BY <1>1, <1>2 DEF TaskSet, Batched, Sequenced
<1>4. task' = [task EXCEPT ![l] = t]
  BY <1>1 DEF re_acquire_iterator, QueueInv, QueueTyped
<1> HIDE DEF t
<1>5. UNCHANGED <<kind, log, saved, cp, forwarded, excused, refused>>
  BY DEF re_acquire_iterator, Same, Const, history
<1>6. /\ task'[l] = t /\ QueueTyped' /\ Frame(l)
      /\ (kind \in Polling => saved'[l] >= saved[l])
      /\ \A i : Passed(l, i) => Passed(l, i)'
  BY <1>3, <1>4, <1>5, TaskStep DEF QueueInv, Grown
<1>7. \A k : k \notin DOMAIN task'[l].batch
  BY <1>3, <1>6, SMT
<1>8. Batched(l)'
  BY <1>3, <1>6, <1>7 DEF Batched
<1>9. Upto(l, cp[l]) /\ Upto(l, cp[l])' /\ saved[l] <= cp[l] /\ cp[l] <= cp[l]
  BY <1>1, <1>2, <1>5, <1>6, SMTT(30) DEF Sequenced, Upto
<1>10. Sequenced(l)'
  BY <1>3, <1>5, <1>6, <1>7, <1>9 DEF Sequenced, Upto
<1> QED
  BY <1>2, <1>5, <1>6, <1>8, <1>10 DEF Held, LaneInv

LEMMA StepRecordsDone ==
  ASSUME QueueInv, NEW l \in Lane, records_done(l)
  PROVE  Held(l)
<1> DEFINE S == {i \in task[l].seen : log[l][i].body # "binary"}
           p == CHOOSE i \in S : \A j \in S : j <= i
           t == [task[l] EXCEPT !.at = "idle", !.seen = {}]
<1>1. /\ task[l] \in TaskSet /\ l \in All /\ cp[l] \in Nat /\ saved[l] \in Nat
      /\ Len(log[l]) \in Nat /\ task[l].pos \in Nat
  BY LaneFacts DEF QueueInv
<1>2. /\ kind = "kinesis" /\ task[l].at = "send" /\ task[l].batch = <<>>
      /\ Batched(l) /\ Sequenced(l)
  BY DEF QueueInv, LaneInv, records_done, Ready
<1>3. t \in TaskSet /\ t.at = "idle" /\ t.batch = <<>> /\ t.pos = task[l].pos /\ t.seen = {}
  BY <1>1, <1>2 DEF TaskSet, At
<1>4. task' = [task EXCEPT ![l] = t]
  BY <1>1 DEF records_done, QueueInv, QueueTyped
<1> HIDE DEF t
<1>5. UNCHANGED <<kind, log, forwarded, excused, refused>> /\ Grown
  BY DEF records_done, Same, Const, history, Grown
<1>6. cp \in [All -> Nat] /\ saved \in [All -> Nat]
  BY DEF QueueInv, QueueTyped
<1>7. /\ saved[l] <= cp[l] /\ cp[l] <= task[l].pos /\ task[l].pos <= Len(log[l])
      /\ \A i \in 1 .. task[l].pos : Passed(l, i)
  <2>1. \A i : ~InBatch(l, i)
    BY <1>2, SMT DEF InBatch
  <2> QED
    BY <1>2, <2>1 DEF Sequenced
<1>8. /\ cp' \in [All -> Nat] /\ saved' \in [All -> Nat]
      /\ \A k \in All : k # l => cp'[k] = cp[k] /\ saved'[k] \in {saved[k], cp[k]}
      /\ saved[l] <= saved'[l] /\ saved'[l] <= cp'[l] /\ cp'[l] <= task[l].pos
  <2>1. CASE S = {}
    <3>1. cp' = cp /\ saved' = saved
      BY <2>1 DEF records_done, last_seq_saved
    <3>2. saved[l] <= saved[l]
      BY <1>1, SMT
    <3> QED
      BY <1>6, <1>7, <3>1, <3>2
  <2>2. CASE S # {}
    <3>1. /\ cp' = [cp EXCEPT ![l] = p]
          /\ saved' = saved \/ saved' = [cp EXCEPT ![l] = cp'[l]]
      BY <2>2 DEF records_done, last_seq_saved, save
    <3>2. S \subseteq cp[l] + 1 .. task[l].pos
      BY <1>2 DEF Sequenced
    <3>3. S \in SUBSET Nat /\ IsFiniteSet(S)
      <4> HIDE DEF S
      <4>1. cp[l] + 1 .. task[l].pos \subseteq Nat /\ IsFiniteSet(cp[l] + 1 .. task[l].pos)
        <5>1. cp[l] + 1 \in Int /\ task[l].pos \in Int /\ cp[l] + 1 .. task[l].pos \subseteq Nat
          BY <1>1, SMT
        <5> QED
          BY <5>1, FS_Interval
      <4> QED
        BY <3>2, <4>1, FS_Subset
    <3>4. p \in S
      <4> HIDE DEF S
      <4> QED
        BY <2>2, <3>3, MaximumExists
    <3> HIDE DEF p, S
    <3>5. p \in Nat /\ cp[l] <= p /\ p <= task[l].pos
      BY <1>1, <3>2, <3>4, SMT
    <3>6. cp'[l] = p /\ cp' \in [All -> Nat] /\ \A k \in All : k # l => cp'[k] = cp[k]
      BY <1>1, <1>6, <3>1, <3>5
    <3>7. /\ saved' \in [All -> Nat] /\ saved'[l] \in {saved[l], p}
          /\ \A k \in All : k # l => saved'[k] \in {saved[k], cp[k]}
      BY <1>1, <1>6, <3>1, <3>5, <3>6
    <3>8. saved[l] <= saved'[l] /\ saved'[l] <= p
      BY <1>1, <1>7, <3>5, <3>7, SMT
    <3> QED
      BY <3>5, <3>6, <3>7, <3>8
  <2> QED
    BY <2>1, <2>2
<1>9. /\ task'[l] = t /\ QueueTyped' /\ Frame(l)
      /\ \A i : Passed(l, i) => Passed(l, i)'
  BY <1>3, <1>4, <1>5, <1>8, SaveStep DEF QueueInv
<1>10. \A k : k \notin DOMAIN task'[l].batch
  BY <1>3, <1>9, SMTT(30)
<1>11. Batched(l)'
  BY <1>3, <1>9, <1>10 DEF Batched
<1>12. /\ saved'[l] \in Nat /\ cp'[l] \in Nat /\ cp'[l] <= Len(log[l]) /\ saved'[l] >= saved[l]
       /\ \A i \in 1 .. cp'[l] : i \in 1 .. task[l].pos
  BY <1>1, <1>7, <1>8, SMT
<1>13. (log' = log) /\ Upto(l, cp[l])' /\ \A i \in 1 .. task[l].pos : Passed(l, i)'
  BY <1>5, <1>7, <1>9, <1>12 DEF Upto
<1>14. Sequenced(l)'
  BY <1>3, <1>7, <1>8, <1>9, <1>10, <1>12, <1>13 DEF Sequenced, Upto
<1> QED
  BY <1>2, <1>5, <1>9, <1>11, <1>12, <1>14 DEF Held, LaneInv

-----------------------------------------------------------------------------
(* CloudWatch.                                                             *)

LEMMA StepFilter ==
  ASSUME QueueInv, NEW l \in Lane, filter_log_events(l)
  PROVE  Held(l)
<1> DEFINE S == Page(l).first
           b == ByTime(l, S)
           t == [task[l] EXCEPT !.at = "send", !.batch = b, !.last = Page(l).last]
<1>1. /\ task[l] \in TaskSet /\ l \in All /\ cp[l] \in Nat /\ saved[l] \in Nat
      /\ Len(log[l]) \in Nat
  BY LaneFacts DEF QueueInv
<1>2. /\ kind = "cloudwatch" /\ Batched(l) /\ Timed(l)
      /\ S # {} \/ task[l].at = "page"
  BY DEF QueueInv, LaneInv, filter_log_events
<1>3. S \subseteq Msgs(l) /\ \A i \in S : log[l][i].ts >= start_time(l)
  BY DEF Page
<1>4. Page(l).last \in BOOLEAN
  <2>1. PICK n : Page(l).last = (n <= batch_size)
    BY DEF Page
  <2> QED
    BY <2>1, SMT
<1>5. task' = [task EXCEPT ![l] = t]
  BY <1>1 DEF filter_log_events, QueueInv, QueueTyped
<1> HIDE DEF S
<1>6. /\ b \in Seq(Nat) /\ (S # {} => b # <<>>)
      /\ \A k \in DOMAIN b : b[k] \in S
  BY <1>1, <1>3, ByTimeFacts DEF QueueInv
<1>7. t \in TaskSet /\ t.at = "send" /\ t.batch = b /\ t.seen = task[l].seen
  BY <1>1, <1>4, <1>6 DEF TaskSet, At
<1> HIDE DEF t, b
<1>8. UNCHANGED <<kind, log, saved, cp, forwarded, excused, refused>>
  BY DEF filter_log_events, Same, Const, history
<1>9. /\ task'[l] = t /\ QueueTyped' /\ Frame(l)
      /\ (kind \in Polling => saved'[l] >= saved[l])
      /\ \A i : Passed(l, i) => Passed(l, i)'
  BY <1>5, <1>7, <1>8, TaskStep DEF QueueInv, Grown
<1>10. /\ task'[l].at = "send" /\ task'[l].batch = b /\ task'[l].seen = task[l].seen
       /\ Msgs(l)' = Msgs(l)
  BY <1>7, <1>8, <1>9 DEF Msgs
<1>11. Batched(l)'
  BY <1>3, <1>6, <1>10 DEF Batched
<1>12. ASSUME NEW i \in S PROVE log[l][i].ts > cp[l]
  <2>1. log[l][i].ts \in Nat /\ log[l][i].ts >= 1 /\ log[l][i].ts >= start_time(l)
    <3>1. i \in Msgs(l) /\ log[l] \in Seq(Message)
      BY <1>3, LaneFacts DEF QueueInv
    <3>2. log[l][i] \in Message
      BY <3>1, SMT DEF Msgs
    <3>3. log[l][i].ts \in Nat
      BY <3>2, QueueAssumption, SMT DEF Message, QueueAssumption
    <3> QED
      BY <1>2, <1>3, <3>1, <3>3 DEF Timed
  <2> QED
    BY <1>1, <2>1, SMT DEF start_time
<1>13. \A k \in DOMAIN b : log[l][b[k]].ts > cp[l]
  BY <1>6, <1>12
<1>14. b # <<>> \/ task[l].seen # {}
  BY <1>2, <1>6 DEF Timed
<1>15. /\ \A i \in task[l].seen : i \in Msgs(l) /\ Passed(l, i)' /\ log[l][i].ts > cp[l]
       /\ \A i \in Msgs(l) : log[l][i].ts >= 1 /\ (log[l][i].ts <= cp[l] => Passed(l, i)')
       /\ saved[l] <= cp[l]
  BY <1>2, <1>9 DEF Timed
<1>16. Timed(l)'
  BY <1>8, <1>10, <1>13, <1>14, <1>15 DEF Timed
<1> QED
  BY <1>2, <1>8, <1>9, <1>11, <1>16 DEF Held, LaneInv

\* The batch is over or was given up, with some messages more or none at all seen.
LEMMA PollStep ==
  ASSUME QueueInv, NEW l \in Lane, kind = "cloudwatch",
         NEW t \in TaskSet, task' = [task EXCEPT ![l] = t],
         t.batch = <<>>, t.at \in {"idle", "page", "send"}, t.at # "idle" => t.seen # {},
         UNCHANGED <<kind, log, saved, cp>>, Grown,
         \A i \in t.seen : i \in Msgs(l) /\ Passed(l, i)' /\ log[l][i].ts > cp[l]
  PROVE  Held(l)
<1>1. /\ task'[l] = t /\ QueueTyped' /\ Frame(l)
      /\ (kind \in Polling => saved'[l] >= saved[l])
      /\ \A i : Passed(l, i) => Passed(l, i)'
  BY TaskStep DEF QueueInv
<1>2. \A k : k \notin DOMAIN task'[l].batch
  BY <1>1, SMT
<1>3. Batched(l)'
  BY <1>1, <1>2 DEF Batched
<1>4. Timed(l) /\ Msgs(l)' = Msgs(l)
  BY DEF QueueInv, LaneInv, Msgs
<1>5. \A i \in Msgs(l) : log[l][i].ts >= 1 /\ (log[l][i].ts <= cp[l] => Passed(l, i)')
  BY <1>1, <1>4 DEF Timed
<1>6. (t.at = "send" => t.seen # {}) /\ (t.at = "page" => t.seen # {})
  OBVIOUS
<1>7. Timed(l)'
  BY <1>1, <1>2, <1>4, <1>5, <1>6 DEF Timed
<1> QED
  BY <1>1, <1>3, <1>7 DEF Held, LaneInv

LEMMA StepPoll ==
  ASSUME QueueInv, NEW l \in Lane, poll_error(l) \/ page_done(l) \/ refused_poll(l)
  PROVE  Held(l)
<1>1. task[l] \in TaskSet /\ l \in All /\ <<>> \in Seq(Nat) /\ task[l].batch \in Seq(Nat) /\ task[l].seen \subseteq Nat
  BY LaneFacts, SMT DEF QueueInv
<1>2. /\ kind = "cloudwatch" /\ Batched(l) /\ Timed(l)
      /\ UNCHANGED <<kind, log, saved, cp>> /\ Grown
  BY DEF QueueInv, LaneInv, poll_error, page_done, refused_poll, Same, Const, Grown, history
<1>3. \A i : Passed(l, i) => Passed(l, i)'
  BY <1>2, PassedKept
<1>4. \A i \in task[l].seen : i \in Msgs(l) /\ Passed(l, i)' /\ log[l][i].ts > cp[l]
  BY <1>2, <1>3 DEF Timed
<1>5. CASE poll_error(l)
  <2> DEFINE t == [task[l] EXCEPT !.at = "idle", !.seen = {}]
  <2>1. task[l].batch = <<>>
    BY <1>2, <1>5 DEF Batched, poll_error, Ready
  <2>2. t \in TaskSet /\ t.at = "idle" /\ t.batch = <<>> /\ t.seen = {}
    BY <1>1, <2>1 DEF TaskSet, At
  <2>3. task' = [task EXCEPT ![l] = t]
    BY <1>1, <1>5 DEF poll_error, QueueInv, QueueTyped
  <2> HIDE DEF t
  <2> QED
    BY <1>2, <2>2, <2>3, PollStep
<1>6. CASE page_done(l)
  <2> DEFINE t == [task[l] EXCEPT !.at = "page"]
  <2>1. task[l].batch = <<>> /\ task[l].at = "send" /\ task[l].seen # {}
    BY <1>2, <1>6 DEF Timed, page_done, Ready
  <2>2. t \in TaskSet /\ t.at = "page" /\ t.batch = <<>> /\ t.seen = task[l].seen
    BY <1>1, <2>1 DEF TaskSet, At
  <2>3. task' = [task EXCEPT ![l] = t]
    BY <1>1, <1>6 DEF page_done, Goto, QueueInv, QueueTyped
  <2> HIDE DEF t
  <2> QED
    BY <1>2, <1>4, <2>1, <2>2, <2>3, PollStep
<1>7. CASE refused_poll(l)
  <2>1. PICK c : c = Current(l)
    OBVIOUS
  <2> DEFINE s == task[l].seen \cup {c}
             t == [task[l] EXCEPT !.batch = <<>>, !.last = TRUE, !.seen = s]
  <2>2. task[l].batch # <<>> /\ task[l].at = "send" /\ <<l, c>> \in refused'
    BY <1>7, <2>1 DEF refused_poll, HasCurrent, Ready
  <2>3. 1 \in DOMAIN task[l].batch /\ c = task[l].batch[1] /\ c \in Nat
    BY <1>1, <2>1, <2>2, TailFacts DEF Current
  <2>4. c \in Msgs(l) /\ log[l][c].ts > cp[l]
    BY <1>2, <2>3 DEF Batched, Timed
  <2>5. Passed(l, c)'
    BY <2>2 DEF Passed
  <2>6. s \in SUBSET Nat /\ s # {}
    BY <1>1, <2>3
  <2>7. \A i \in s : i \in Msgs(l) /\ Passed(l, i)' /\ log[l][i].ts > cp[l]
    BY <1>4, <2>4, <2>5
  <2>8. t \in TaskSet /\ t.at = "send" /\ t.batch = <<>> /\ t.seen = s
    BY <1>1, <2>2, <2>6 DEF TaskSet, At
  <2>9. task' = [task EXCEPT ![l] = t]
    BY <1>1, <1>7, <2>1 DEF refused_poll, QueueInv, QueueTyped
  <2> HIDE DEF t, s
  <2> QED
    BY <1>2, <2>6, <2>7, <2>8, <2>9, PollStep
<1> QED
  BY <1>5, <1>6, <1>7

LEMMA StepPollDone ==
  ASSUME QueueInv, NEW l \in Lane, poll_done(l)
  PROVE  Held(l)
<1> DEFINE S == {log[l][i].ts : i \in task[l].seen}
           p == max_timestamp(l)
           t == [task[l] EXCEPT !.at = "idle", !.seen = {}]
<1>1. /\ task[l] \in TaskSet /\ l \in All /\ cp[l] \in Nat /\ saved[l] \in Nat
      /\ Len(log[l]) \in Nat /\ log[l] \in Seq(Message)
  BY LaneFacts DEF QueueInv
<1>2. /\ kind = "cloudwatch" /\ task[l].at = "send" /\ task[l].batch = <<>>
      /\ Batched(l) /\ Timed(l) /\ task[l].seen # {}
  BY DEF QueueInv, LaneInv, poll_done, Ready, Timed
<1>3. t \in TaskSet /\ t.at = "idle" /\ t.batch = <<>> /\ t.seen = {}
  BY <1>1, <1>2 DEF TaskSet, At
<1>4. task' = [task EXCEPT ![l] = t]
  BY <1>1 DEF poll_done, QueueInv, QueueTyped
<1> HIDE DEF t
<1>5. UNCHANGED <<kind, log, forwarded, refused>> /\ Grown
  BY DEF poll_done, Same, Const, Grown
<1>6. \A i \in Msgs(l) : log[l][i].ts \in 0 .. MaxTime
  <2>1. \A i \in Msgs(l) : log[l][i] \in Message
    BY <1>1, SMT DEF Msgs
  <2> QED
    BY <2>1 DEF Message
<1>7. S \subseteq 0 .. MaxTime /\ S # {} /\ \A s \in S : s > cp[l]
  BY <1>2, <1>6 DEF Timed
<1>8. p \in S
  <2>1. 0 .. MaxTime \subseteq Nat /\ IsFiniteSet(0 .. MaxTime)
    <3>1. 0 \in Int /\ MaxTime \in Int /\ 0 .. MaxTime \subseteq Nat
      BY QueueAssumption, SMT DEF QueueAssumption
    <3> QED
      BY <3>1, FS_Interval
  <2>2. p = CHOOSE x \in S : \A y \in S : y <= x
    BY DEF max_timestamp
  <2> HIDE DEF S, p
  <2>3. S \in SUBSET Nat /\ IsFiniteSet(S)
    BY <1>7, <2>1, FS_Subset
  <2>4. \E x \in S : \A y \in S : y <= x
    BY <1>7, <2>3, MaximumExists
  <2> QED
    BY <2>2, <2>4
<1> HIDE DEF S
<1>9. p \in Nat /\ cp[l] <= p /\ p <= p
  <2> HIDE DEF p
  <2> QED
    BY <1>1, <1>7, <1>8, QueueAssumption, SMT DEF QueueAssumption
<1>10. cp \in [All -> Nat] /\ saved \in [All -> Nat] /\ saved[l] <= cp[l]
  BY <1>2 DEF QueueInv, QueueTyped, Timed
<1>11. /\ cp' = [cp EXCEPT ![l] = p]
       /\ saved' = saved \/ saved' = [cp EXCEPT ![l] = p]
  BY DEF poll_done, save
<1>12. \A i \in Msgs(l) : i \notin task[l].seen /\ log[l][i].ts <= p => <<l, i>> \in excused'
  BY DEF poll_done
<1> HIDE DEF p
<1>13. cp'[l] = p /\ cp' \in [All -> Nat] /\ \A k \in All : k # l => cp'[k] = cp[k]
  BY <1>1, <1>9, <1>10, <1>11
<1>14. /\ saved' \in [All -> Nat] /\ saved'[l] \in {saved[l], p}
       /\ \A k \in All : k # l => saved'[k] \in {saved[k], cp[k]}
  BY <1>1, <1>9, <1>10, <1>11
<1>15. saved'[l] >= saved[l] /\ saved'[l] <= p
  BY <1>1, <1>9, <1>10, <1>14, SMT
<1>16. /\ task'[l] = t /\ QueueTyped' /\ Frame(l)
       /\ \A i : Passed(l, i) => Passed(l, i)'
  BY <1>3, <1>4, <1>5, <1>13, <1>14, SaveStep DEF QueueInv
<1>17. (\A k : k \notin DOMAIN task'[l].batch) /\ Msgs(l)' = Msgs(l)
  <2>1. task'[l].batch = <<>>
    BY <1>3, <1>16
  <2>2. Msgs(l)' = Msgs(l)
    BY <1>5 DEF Msgs
  <2> QED
    BY <2>1, <2>2, SMT
<1>18. Batched(l)'
  BY <1>3, <1>16, <1>17 DEF Batched
<1>19. \A i \in Msgs(l) : log[l][i].ts >= 1 /\ (log[l][i].ts <= p => Passed(l, i)')
  <2>1. \A i \in Msgs(l) : log[l][i].ts >= 1 /\ (i \in task[l].seen => Passed(l, i)')
    BY <1>2, <1>16 DEF Timed
  <2>2. \A i : <<l, i>> \in excused' => Passed(l, i)'
    BY DEF Passed
  <2> QED
    BY <1>12, <2>1, <2>2
<1>20. Timed(l)'
  BY <1>3, <1>5, <1>13, <1>15, <1>16, <1>17, <1>19 DEF Timed
<1> QED
  BY <1>2, <1>5, <1>15, <1>16, <1>18, <1>20 DEF Held, LaneInv

-----------------------------------------------------------------------------
(* Producers and the process.                                              *)

\* A new message is behind every position; with CloudWatch it is younger than the
\* checkpoint or excused.
LEMMA StepPublish ==
  ASSUME QueueInv, NEW l \in All, NEW b \in Body, NEW ts \in 0 .. MaxTime, publish(l, b, ts)
  PROVE  QueueInv' /\ Ahead
<1> DEFINE m == [body |-> b, ts |-> ts]
<1>1. l \in Lane /\ kind' = kind /\ UNCHANGED <<acked, saved, cp, task>> /\ Grown /\ Lane' = Lane
  BY DEF publish, Grown, Lane
<1>2. m \in Message /\ m.ts = ts
  BY DEF Message, Body
<1>3. /\ log[l] \in Seq(Message) /\ Len(log[l]) \in Nat /\ log \in [All -> Seq(Message)]
      /\ log' = [log EXCEPT ![l] = Append(log[l], m)]
  BY LaneFacts, <1>1 DEF QueueInv, QueueTyped, publish
<1> HIDE DEF m
<1>4. /\ Append(log[l], m) \in Seq(Message) /\ Len(Append(log[l], m)) = Len(log[l]) + 1
      /\ \A i \in 1 .. Len(log[l]) : Append(log[l], m)[i] = log[l][i]
      /\ Append(log[l], m)[Len(log[l]) + 1] = m
  BY <1>2, <1>3, SMT
<1>5. log' \in [All -> Seq(Message)] /\ log'[l] = Append(log[l], m) /\ \A k \in All : k # l => log'[k] = log[k]
  BY <1>3, <1>4
<1>6. QueueTyped'
  BY <1>1, <1>5 DEF QueueInv, QueueTyped
<1>7. ASSUME NEW k \in Lane
      PROVE  /\ Len(log[k]) \in Nat /\ Len(log'[k]) \in Nat /\ Len(log[k]) <= Len(log'[k])
             /\ \A i \in Msgs(k) : i \in Msgs(k)' /\ log'[k][i] = log[k][i]
             /\ \A i \in Msgs(k)' : i \in Msgs(k) \/ (k = l /\ i = Len(log[l]) + 1)
  <2>1. Len(log[k]) \in Nat /\ k \in All
    BY LaneFacts DEF QueueInv
  <2>2. CASE k = l
    BY <1>3, <1>4, <1>5, <2>2, SMT DEF Msgs
  <2>3. CASE k # l
    <3>1. log'[k] = log[k]
      BY <1>5, <2>1, <2>3
    <3> QED
      BY <2>1, <3>1, SMT DEF Msgs
  <2> QED
    BY <2>2, <2>3
<1>8. ASSUME NEW k \in Lane, NEW i \in Msgs(k), Passed(k, i)
      PROVE  Passed(k, i)'
  BY <1>1, <1>7, <1>8 DEF Passed, Grown
<1>9. ASSUME NEW k \in Lane, NEW n \in Nat, Upto(k, n)
      PROVE  n <= Len(log'[k]) /\ \A i \in 1 .. n : Passed(k, i)'
  <2>1. n <= Len(log[k]) /\ \A i \in 1 .. n : Passed(k, i) /\ i \in Msgs(k)
    BY <1>7, <1>9, SMT DEF Upto, Msgs
  <2>2. n <= Len(log'[k])
    BY <1>7, <2>1, SMT
  <2> QED
    BY <1>8, <2>1, <2>2
<1>10. ASSUME NEW k \in Lane PROVE LaneInv(k)'
  <2>1. LaneInv(k)
    BY DEF QueueInv
  <2>2. saved[k] \in Nat /\ cp[k] \in Nat /\ task[k].pos \in Nat /\ task[k].batch \in Seq(Nat)
    BY LaneFacts DEF QueueInv
  <2>3. Batched(k)'
    BY <1>1, <1>7, <2>1 DEF LaneInv, Batched
  <2>4. ASSUME kind = "kafka" PROVE Committed(k)'
    <3>1. Committed(k)
      BY <2>1, <2>4 DEF LaneInv
    <3>2. Current(k)' = Current(k) /\ task' = task /\ saved' = saved
      BY <1>1 DEF Current
    <3>3. ASSUME task[k].at \in {"send", "ack"}
          PROVE  /\ Len(task[k].batch) = 1 /\ task[k].pos <= Len(log'[k])
                 /\ \A i \in 1 .. task[k].pos : i \in Msgs(k)
                 /\ Current(k) \in Msgs(k)
                 /\ \A i \in 1 .. (Current(k) - 1) : i \in Msgs(k)
      <4>1. Len(task[k].batch) = 1 /\ task[k].pos <= Len(log[k])
        BY <3>1, <3>3 DEF Committed
      <4>2. 1 \in DOMAIN task[k].batch
        BY <2>2, <4>1, SMT
      <4>3. Current(k) \in Msgs(k)
        BY <2>1, <2>2, <4>2, <4>1, SMT DEF LaneInv, Batched, Current
      <4>4. Len(log[k]) \in Nat /\ Len(log[k]) <= Len(log'[k]) /\ Len(log'[k]) \in Nat
        BY <1>7
      <4>5. task[k].pos <= Len(log'[k]) /\ \A i \in 1 .. task[k].pos : i \in Msgs(k)
        BY <2>2, <4>1, <4>4, SMT DEF Msgs
      <4>6. \A i \in 1 .. (Current(k) - 1) : i \in Msgs(k)
        BY <4>3, <4>4, SMT DEF Msgs
      <4> QED
        BY <4>1, <4>3, <4>5, <4>6
    <3>4. \A i \in Msgs(k) : Passed(k, i) => Passed(k, i)'
      BY <1>8
    <3>5. /\ Upto(k, saved[k])'
          /\ task[k].at = "idle" => Upto(k, task[k].pos)'
      BY <1>9, <2>2, <3>1, <3>2 DEF Committed, Upto
    <3>6. ASSUME task[k].at \in {"send", "ack"}
          PROVE  /\ \A i \in 1 .. task[k].pos : Passed(k, i)' \/ i = Current(k)
                 /\ \A i \in 1 .. (Current(k) - 1) : Passed(k, i)'
                 /\ task[k].at = "ack" => Passed(k, Current(k))'
      BY <3>1, <3>2, <3>3, <3>4, <3>6 DEF Committed
    <3> QED
      BY <3>2, <3>3, <3>5, <3>6 DEF Committed
  <2>5. ASSUME kind \in {"rabbitmq", "jetstream"} PROVE Acknowledged(k)'
    <3>1. Acknowledged(k) /\ Batched(k)
      BY <2>1, <2>5 DEF LaneInv
    <3>2. Current(k)' = Current(k) /\ task' = task /\ acked' = acked
      BY <1>1 DEF Current
    <3>3. task[k].at = "ack" => Current(k) \in Msgs(k)
      <4> SUFFICES ASSUME task[k].at = "ack" PROVE Current(k) \in Msgs(k)
        OBVIOUS
      <4>1. task[k].batch # <<>> /\ \A j \in DOMAIN task[k].batch : task[k].batch[j] \in Msgs(k)
        BY <3>1 DEF Batched
      <4>2. 1 \in DOMAIN task[k].batch /\ Current(k) = task[k].batch[1]
        BY <2>2, <4>1, TailFacts DEF Current
      <4> QED
        BY <4>1, <4>2
    <3>4. task[k].at = "ack" => Passed(k, Current(k))'
      BY <1>8, <3>1, <3>2, <3>3 DEF Acknowledged
    <3> QED
      BY <1>7, <1>8, <3>1, <3>2, <3>4 DEF Acknowledged
  <2>6. ASSUME kind = "kinesis" PROVE Sequenced(k)'
    <3>1. Sequenced(k)
      BY <2>1, <2>6 DEF LaneInv
    <3>2. Upto(k, cp[k])'
      BY <1>1, <1>9, <2>2, <3>1 DEF Sequenced, Upto
    <3>3. task[k].at \in {"idle", "send"} =>
            task[k].pos <= Len(log'[k]) /\ \A i \in 1 .. task[k].pos : i \in Msgs(k)
      BY <1>7, <2>2, <3>1, SMTT(30) DEF Sequenced, Msgs
    <3>4. \A i : InBatch(k, i) => InBatch(k, i)'
      BY <1>1 DEF InBatch
    <3>5. task[k].at \in {"idle", "send"} =>
            \A i \in 1 .. task[k].pos : Passed(k, i)' \/ InBatch(k, i)'
      BY <1>8, <3>1, <3>3, <3>4 DEF Sequenced
    <3> QED
      BY <1>1, <3>1, <3>2, <3>3, <3>5 DEF Sequenced
  <2>7. ASSUME kind = "cloudwatch" PROVE Timed(k)'
    <3>1. Timed(k) /\ Batched(k)
      BY <2>1, <2>7 DEF LaneInv
    <3>2. ASSUME NEW i \in Msgs(k)'
          PROVE  log'[k][i].ts >= 1 /\ (log'[k][i].ts <= cp[k] => Passed(k, i)')
      <4>1. CASE i \in Msgs(k)
        BY <1>7, <1>8, <3>1, <4>1 DEF Timed
      <4>2. CASE k = l /\ i = Len(log[l]) + 1
        <5>1. log'[k][i].ts = ts
          <6>1. log'[k][i] = m
            BY <1>4, <1>5, <4>2
          <6> QED
            BY <1>2, <6>1
        <5>2. ts >= 1
          BY <2>7, SMT DEF publish
        <5>3. ts <= cp[k] => <<k, i>> \in excused'
          BY <2>7, <4>2 DEF publish
        <5> QED
          BY <5>1, <5>2, <5>3 DEF Passed
      <4> QED
        BY <1>7, <3>2, <4>1, <4>2
    <3>3. \A j \in DOMAIN task[k].batch : log'[k][task[k].batch[j]].ts > cp[k]
      BY <1>7, <3>1 DEF Timed, Batched
    <3>4. \A i \in task[k].seen : i \in Msgs(k)' /\ Passed(k, i)' /\ log'[k][i].ts > cp[k]
      BY <1>7, <1>8, <3>1 DEF Timed
    <3> QED
      BY <1>1, <3>1, <3>2, <3>3, <3>4 DEF Timed
  <2> QED
    BY <1>1, <2>3, <2>4, <2>5, <2>6, <2>7 DEF LaneInv
<1>11. Ahead
  <2>1. \A k \in All : saved[k] \in Nat
    BY DEF QueueInv, QueueTyped
  <2>2. \A k \in All : saved[k] >= saved[k]
    BY <2>1, SMT
  <2> QED
    BY <1>1, <2>2 DEF Ahead
<1> QED
  BY <1>1, <1>6, <1>10, <1>11 DEF QueueInv

LEMMA StepRestart ==
  ASSUME QueueInv, restart
  PROVE  QueueInv' /\ Ahead
<1>1. /\ UNCHANGED <<kind, log, acked, saved, task, forwarded, excused, refused>>
      /\ cp' = saved /\ Lane' = Lane
  BY DEF restart, Const, history, Lane
<1>2. QueueTyped'
  BY <1>1 DEF QueueInv, QueueTyped
<1>3. \A k \in All : saved[k] \in Nat
  BY DEF QueueInv, QueueTyped
<1>4. Ahead
  <2>1. \A k \in All : saved[k] >= saved[k]
    BY <1>3, SMT
  <2> QED
    BY <1>1, <2>1 DEF Ahead
<1>5. ASSUME NEW k \in Lane PROVE LaneInv(k)'
  <2>1. LaneInv(k)
    BY DEF QueueInv
  <2>2. /\ saved[k] \in Nat /\ cp[k] \in Nat /\ Len(log[k]) \in Nat /\ task[k].pos \in Nat
        /\ log[k] \in Seq(Message)
    BY LaneFacts DEF QueueInv
  <2>3. (\A i : Passed(k, i) <=> Passed(k, i)') /\ Msgs(k)' = Msgs(k)
        /\ \A i : InBatch(k, i) <=> InBatch(k, i)'
    BY <1>1 DEF Passed, Msgs, InBatch
  <2>4. Batched(k)'
    BY <1>1, <2>1, <2>3 DEF LaneInv, Batched
  <2>5. kind = "kafka" => Committed(k)'
    BY <1>1, <2>1, <2>3 DEF LaneInv, Committed, Upto, Current
  <2>6. kind \in {"rabbitmq", "jetstream"} => Acknowledged(k)'
    BY <1>1, <2>1, <2>3 DEF LaneInv, Acknowledged, Current
  <2>7. ASSUME kind = "kinesis" PROVE Sequenced(k)'
    <3>1. Sequenced(k)
      BY <2>1, <2>7 DEF LaneInv
    <3>2. /\ saved[k] <= saved[k] /\ saved[k] <= cp[k] /\ saved[k] <= Len(log[k])
          /\ \A i \in 1 .. saved[k] : i \in 1 .. cp[k]
          /\ \A i, p \in Nat : i \in cp[k] + 1 .. p => i \in saved[k] + 1 .. p
          /\ \A p \in Nat : cp[k] <= p => saved[k] <= p
      BY <2>2, <3>1, SMT DEF Sequenced, Upto
    <3>3. Upto(k, cp[k])'
      BY <1>1, <2>3, <3>1, <3>2 DEF Sequenced, Upto
    <3>4. cp[k] + 1 .. task[k].pos \subseteq saved[k] + 1 .. task[k].pos
      BY <2>2, <3>2, SMT
    <3> QED
      BY <1>1, <2>2, <2>3, <3>1, <3>2, <3>3, <3>4 DEF Sequenced
  <2>8. ASSUME kind = "cloudwatch" PROVE Timed(k)'
    <3>1. Timed(k) /\ Batched(k)
      BY <2>1, <2>8 DEF LaneInv
    <3>2. \A i \in Msgs(k) : log[k][i].ts \in Nat
      <4>1. \A i \in Msgs(k) : log[k][i] \in Message
        BY <2>2, SMT DEF Msgs
      <4>2. \A m \in Message : m.ts \in Nat
        BY QueueAssumption, SMT DEF Message, QueueAssumption
      <4> QED
        BY <4>1, <4>2
    <3>3. \A i \in Msgs(k) : /\ log[k][i].ts <= saved[k] => log[k][i].ts <= cp[k]
                             /\ log[k][i].ts > cp[k] => log[k][i].ts > saved[k]
      BY <2>2, <3>1, <3>2, SMTT(90) DEF Timed
    <3>4. saved[k] <= saved[k]
      BY <2>2, SMT
    <3>5. /\ \A i \in Msgs(k) : log[k][i].ts >= 1 /\ (log[k][i].ts <= saved[k] => Passed(k, i)')
          /\ \A j \in DOMAIN task[k].batch : log[k][task[k].batch[j]].ts > saved[k]
          /\ \A i \in task[k].seen : i \in Msgs(k) /\ Passed(k, i)' /\ log[k][i].ts > saved[k]
      BY <2>3, <3>1, <3>3 DEF Timed, Batched
    <3> QED
      BY <1>1, <2>3, <3>1, <3>4, <3>5 DEF Timed
  <2> QED
    BY <1>1, <2>4, <2>5, <2>6, <2>7, <2>8 DEF LaneInv
<1> QED
  BY <1>1, <1>2, <1>4, <1>5 DEF QueueInv

LEMMA NewTaskFacts ==
  NewTask \in TaskSet /\ NewTask.at = "start" /\ NewTask.batch = <<>> /\ NewTask.seen = {}
<1>1. <<>> \in Seq(Nat) /\ 0 \in Nat
  BY SMT
<1> QED
  BY <1>1 DEF NewTask, TaskSet, At

LEMMA StepEnd ==
  ASSUME QueueInv, End
  PROVE  QueueInv' /\ Ahead
<1>1. /\ UNCHANGED <<kind, log, acked, saved, cp, forwarded, excused, refused>>
      /\ Lane' = Lane /\ task' = [l \in All |-> NewTask]
  BY DEF End, Const, history, Lane
<1>2. QueueTyped'
  BY <1>1, NewTaskFacts DEF QueueInv, QueueTyped
<1>3. \A k \in All : saved[k] \in Nat
  BY DEF QueueInv, QueueTyped
<1>4. Ahead
  <2>1. \A k \in All : saved[k] >= saved[k]
    BY <1>3, SMT
  <2> QED
    BY <1>1, <2>1 DEF Ahead
<1>5. ASSUME NEW k \in Lane PROVE LaneInv(k)'
  <2>1. LaneInv(k) /\ k \in All
    BY LaneFacts DEF QueueInv
  <2>2. task'[k] = NewTask
    BY <1>1, <2>1
  <2>3. task'[k].at = "start" /\ task'[k].batch = <<>> /\ task'[k].seen = {}
    BY <2>2, NewTaskFacts
  <2>4. \A j : j \notin DOMAIN task'[k].batch
    BY <2>3, SMT
  <2>5. (\A i : Passed(k, i) <=> Passed(k, i)') /\ Msgs(k)' = Msgs(k)
    BY <1>1 DEF Passed, Msgs
  <2>6. Batched(k)'
    BY <2>3, <2>4 DEF Batched
  <2>7. kind = "kafka" => Committed(k)'
    BY <1>1, <2>1, <2>3, <2>5 DEF LaneInv, Committed, Upto
  <2>8. kind \in {"rabbitmq", "jetstream"} => Acknowledged(k)'
    BY <1>1, <2>1, <2>3, <2>4, <2>5 DEF LaneInv, Acknowledged
  <2>9. kind = "kinesis" => Sequenced(k)'
    BY <1>1, <2>1, <2>3, <2>5 DEF LaneInv, Sequenced, Upto
  <2>10. kind = "cloudwatch" => Timed(k)'
    BY <1>1, <2>1, <2>3, <2>4, <2>5 DEF LaneInv, Timed
  <2> QED
    BY <1>1, <2>6, <2>7, <2>8, <2>9, <2>10 DEF LaneInv
<1> QED
  BY <1>1, <1>2, <1>4, <1>5 DEF QueueInv

\* Steps of the channel, of the broker and of no lane.
LEMMA StepElsewhere ==
  ASSUME QueueInv, UNCHANGED <<kind, log, acked, saved, cp, task, forwarded, excused, refused>>
  PROVE  QueueInv' /\ Ahead
<1>1. \A k \in All : saved[k] \in Nat
  BY DEF QueueInv, QueueTyped
<1>2. \A k \in All : saved[k] >= saved[k]
  BY <1>1, SMT
<1>3. Ahead
  BY <1>2 DEF Ahead
<1>4. ASSUME NEW k \in Lane PROVE LaneInv(k)'
  <2>1. LaneInv(k)
    BY DEF QueueInv
  <2>2. /\ (\A i : Passed(k, i) <=> Passed(k, i)') /\ Msgs(k)' = Msgs(k)
        /\ \A i : InBatch(k, i) <=> InBatch(k, i)'
    BY DEF Passed, Msgs, InBatch
  <2>3. Batched(k)'
    BY <2>1, <2>2 DEF LaneInv, Batched
  <2>4. kind = "kafka" => Committed(k)'
    BY <2>1, <2>2 DEF LaneInv, Committed, Upto, Current
  <2>5. kind \in {"rabbitmq", "jetstream"} => Acknowledged(k)'
    BY <2>1, <2>2 DEF LaneInv, Acknowledged, Current
  <2>6. kind = "kinesis" => Sequenced(k)'
    BY <2>1, <2>2 DEF LaneInv, Sequenced, Upto
  <2>7. kind = "cloudwatch" => Timed(k)'
    BY <2>1, <2>2 DEF LaneInv, Timed
  <2> QED
    BY <2>3, <2>4, <2>5, <2>6, <2>7 DEF LaneInv
<1>5. Lane' = Lane /\ QueueTyped'
  BY DEF Lane, QueueInv, QueueTyped
<1> QED
  BY <1>3, <1>4, <1>5 DEF QueueInv

-----------------------------------------------------------------------------
LEMMA QueueStep ==
  ASSUME QueueInv, [QueueNext]_queue_vars
  PROVE  QueueInv' /\ (Ahead \/ UNCHANGED queue_vars)
<1>1. CASE \E l \in All, b \in Body, ts \in 0 .. MaxTime : publish(l, b, ts)
  BY <1>1, StepPublish
<1>2. ASSUME NEW l \in All, Consumer(l) \/ Trouble(l) PROVE QueueInv' /\ Ahead
  <2>1. l \in Lane
    BY <1>2 DEF Consumer, Trouble, start_source, start_stopped, stop_task, recv, next_delivery, fetch,
       get_records, filter_log_events, forward, ignore, refused_end, refused_ack, refused_poll,
       commit_message, ack, records_done, page_done, poll_done, start_failed, rebalance, recv_error,
       delivery_error, re_acquire_iterator, re_acquire_failed, poll_error, Ready, HasCurrent
  <2>2. CASE recv_error(l)
    BY <2>2, StepElsewhere DEF recv_error, Same, Const, history
  <2>3. CASE ~recv_error(l)
    <3>1. Held(l)
      BY <1>2, <2>1, <2>3, StepStartSource, StepEnds, StepRecv, StepDelivery, StepGetRecords, StepFilter,
         StepHandled, StepPoll, StepCommitMessage, StepAck, StepRecordsDone, StepPollDone,
         StepRebalance, StepReAcquire
         DEF Consumer, Trouble
    <3> QED
      BY <2>1, <3>1, HeldIsEnough
  <2> QED
    BY <2>2, <2>3
<1>3. CASE \/ \E i \in 1 .. MaxMessages : ack_wait_over(i)
           \/ take_event \/ close_channel \/ signal_stop
  <2>1. UNCHANGED <<kind, log, acked, saved, cp, task, forwarded, excused, refused>>
    BY <1>3 DEF ack_wait_over, take_event, close_channel, signal_stop, Same, Const, history
  <2> QED
    BY <2>1, StepElsewhere
<1>4. CASE kill \/ exit
  BY <1>4, StepEnd DEF kill, exit
<1>5. CASE restart
  BY <1>5, StepRestart
<1>6. CASE UNCHANGED queue_vars
  BY <1>6, StepElsewhere DEF queue_vars
<1> QED
  BY <1>1, <1>2, <1>3, <1>4, <1>5, <1>6 DEF QueueNext

LEMMA QueueStart ==
  ASSUME QueueInit
  PROVE  QueueInv
<1>1. /\ log = [l \in All |-> <<>>] /\ saved = [l \in All |-> 0] /\ cp = [l \in All |-> 0]
      /\ task = [l \in All |-> NewTask] /\ kind \in Kinds /\ acked = {}
  BY DEF QueueInit
<1>2. <<>> \in Seq(Message) /\ 0 \in Nat /\ Len(<<>>) = 0 /\ 1 .. 0 = {} /\ 0 <= 0
  BY SMT
<1>3. QueueTyped
  BY <1>1, <1>2, NewTaskFacts DEF QueueTyped
<1>4. ASSUME NEW k \in Lane PROVE LaneInv(k)
  <2>1. k \in All
    BY <1>3, LaneFacts
  <2>2. log[k] = <<>> /\ saved[k] = 0 /\ cp[k] = 0 /\ task[k] = NewTask
    BY <1>1, <2>1
  <2>3. task[k].at = "start" /\ task[k].batch = <<>> /\ task[k].seen = {}
    BY <2>2, NewTaskFacts
  <2>4. \A j : j \notin DOMAIN task[k].batch
    BY <2>3, SMT
  <2>5. Upto(k, 0) /\ Msgs(k) = {}
    BY <1>2, <2>2 DEF Upto, Msgs
  <2>6. Batched(k) /\ Committed(k) /\ Acknowledged(k) /\ Sequenced(k) /\ Timed(k)
    BY <1>1, <1>2, <2>2, <2>3, <2>4, <2>5 DEF Batched, Committed, Acknowledged, Sequenced, Timed
  <2> QED
    BY <2>6 DEF LaneInv
<1> QED
  BY <1>3, <1>4 DEF QueueInv

LEMMA QueueInvSuffices ==
  ASSUME QueueInv
  PROVE  AtLeastOnce /\ NotReprocessed
<1>1. kind \in {"kafka", "rabbitmq", "jetstream", "kinesis", "cloudwatch"}
  BY QueueAssumption DEF QueueAssumption, QueueInv, QueueTyped
<1>2. ASSUME NEW l \in Lane
      PROVE  /\ kind \in {"kafka", "kinesis"} => Settled(l) = 1 .. saved[l]
             /\ kind \in {"rabbitmq", "jetstream"} => Settled(l) = acked
             /\ kind = "cloudwatch" =>
                  Settled(l) = {i \in Msgs(l) : saved[l] > 0 /\ log[l][i].ts <= saved[l]}
  BY DEF Settled
<1>3. ASSUME NEW l \in Lane
      PROVE  /\ saved[l] \in Nat /\ cp[l] \in Nat /\ LaneInv(l) /\ task[l].batch \in Seq(Nat)
             /\ \A i \in Msgs(l) : log[l][i].ts \in Nat
  <2>1. /\ saved[l] \in Nat /\ cp[l] \in Nat /\ LaneInv(l) /\ task[l].batch \in Seq(Nat)
        /\ log[l] \in Seq(Message)
    BY LaneFacts DEF QueueInv
  <2>2. \A i \in Msgs(l) : log[l][i] \in Message
    BY <2>1, SMT DEF Msgs
  <2>3. \A m \in Message : m.ts \in Nat
    BY QueueAssumption, SMT DEF Message, QueueAssumption
  <2> QED
    BY <2>1, <2>2, <2>3
<1>4. ASSUME NEW l \in Lane, NEW i \in Msgs(l), i \in Settled(l)
      PROVE  Passed(l, i)
  <2>1. CASE kind = "kafka"
    BY <1>2, <1>3, <1>4, <2>1 DEF LaneInv, Committed, Upto
  <2>2. CASE kind \in {"rabbitmq", "jetstream"}
    BY <1>2, <1>3, <1>4, <2>2 DEF LaneInv, Acknowledged
  <2>3. CASE kind = "kinesis"
    <3>1. Upto(l, cp[l]) /\ saved[l] <= cp[l] /\ i \in 1 .. saved[l]
      BY <1>2, <1>3, <1>4, <2>3 DEF LaneInv, Sequenced
    <3>2. i \in 1 .. cp[l]
      BY <1>3, <3>1, SMTT(30)
    <3> QED
      BY <3>1, <3>2 DEF Upto
  <2>4. CASE kind = "cloudwatch"
    <3>1. saved[l] <= cp[l] /\ log[l][i].ts <= saved[l] /\ (log[l][i].ts <= cp[l] => Passed(l, i))
      BY <1>2, <1>3, <1>4, <2>4 DEF LaneInv, Timed
    <3>2. log[l][i].ts <= cp[l]
      BY <1>3, <3>1, SMT
    <3> QED
      BY <3>1, <3>2
  <2> QED
    BY <1>1, <2>1, <2>2, <2>3, <2>4
<1>5. AtLeastOnce
  BY <1>4 DEF AtLeastOnce, Passed, Lines, Forwarded, Refused
<1>6. ASSUME NEW l \in Lane, kind # "kafka", task[l].at = "send", task[l].batch # <<>>
      PROVE  Current(l) \notin Settled(l)
  <2>1. 1 \in DOMAIN task[l].batch /\ Current(l) = task[l].batch[1]
    BY <1>3, <1>6, TailFacts DEF Current
  <2>2. Current(l) \in Msgs(l)
    BY <1>3, <2>1 DEF LaneInv, Batched
  <2>3. CASE kind \in {"rabbitmq", "jetstream"}
    <3>1. task[l].batch[1] \notin acked
      BY <1>3, <2>1, <2>3 DEF LaneInv, Acknowledged
    <3>2. \A i : i \in Settled(l) <=> i \in acked
      BY <1>2, <2>3
    <3> QED
      BY <2>1, <3>1, <3>2
  <2>4. CASE kind = "kinesis"
    <3>1. Current(l) \in cp[l] + 1 .. task[l].pos /\ saved[l] <= cp[l]
      BY <1>3, <1>6, <2>1, <2>4 DEF LaneInv, Sequenced
    <3>2. Current(l) \notin 1 .. saved[l]
      BY <1>3, <3>1, SMT
    <3> QED
      BY <1>2, <2>4, <3>2
  <2>5. CASE kind = "cloudwatch"
    <3>1. log[l][Current(l)].ts > cp[l] /\ saved[l] <= cp[l]
      BY <1>3, <2>1, <2>5 DEF LaneInv, Timed
    <3>2. ~(log[l][Current(l)].ts <= saved[l])
      BY <1>3, <2>2, <3>1, SMT
    <3> QED
      BY <1>2, <2>5, <3>2
  <2> QED
    BY <1>1, <1>6, <2>3, <2>4, <2>5
<1>7. NotReprocessed
  BY <1>6 DEF NotReprocessed
<1> QED
  BY <1>5, <1>7

\* The consumers of hiveguard-queue deliver at least once: after any crash, lost
\* commit, rebalance or failed request, what a new session will not be given again
\* was sent to the pipeline (or given up, or skipped on purpose); what is sent is not
\* settled yet, except by Kafka; and no task takes back a position in the checkpoint
\* file that all shards or log groups share.
THEOREM QueuesAreFaithful == QueueSpec => QueueFaithful
<1>1. QueueInit => QueueInv
  BY QueueStart
<1>2. QueueInv /\ [QueueNext]_queue_vars => QueueInv'
  BY QueueStep
<1>3. QueueInv => AtLeastOnce /\ NotReprocessed
  BY QueueInvSuffices
<1>4. QueueInv /\ [QueueNext]_queue_vars =>
        [(kind \in Polling) => \A l \in All : saved'[l] >= saved[l]]_queue_vars
  BY QueueStep DEF Ahead
<1> QED
  BY <1>1, <1>2, <1>3, <1>4, PTL DEF QueueSpec, QueueFaithful, CheckpointsAdvance
=============================================================================
