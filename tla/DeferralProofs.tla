--------------------------- MODULE DeferralProofs ----------------------------
(****************************************************************************)
(* The safety of the deferral, for any set of receivers, any gap times,     *)
(* protocol timeouts and hold times, and any resolution of the clock.       *)
(*                                                                          *)
(* Inv is inductive: the types, that a record of the tree holds a packet,   *)
(* that no write is in the future, and the two properties NoLostWakeup and  *)
(* DeferralBounded.  DeliveryInv adds, when no two records ever have the    *)
(* same time, what relates the tree to the newest commands, and MotionInv   *)
(* how long a motion may wait in it.                                        *)
(****************************************************************************)
EXTENDS Deferral, TLAPS

-----------------------------------------------------------------------------
(* How far the millisecond arithmetic of timeval.c is from the instants it  *)
(* works on, for every clock resolution.                                    *)

\* Division of naturals, in the form the provers need it below.
LEMMA DivMod ==
    ASSUME NEW a \in Nat, NEW b \in Nat \ {0}
    PROVE  /\ a \div b \in Nat
           /\ a % b \in Nat
           /\ a % b < b
           /\ a = b * (a \div b) + (a % b)
  OBVIOUS

\* A difference cut down to milliseconds is within a millisecond of itself.
LEMMA TruncMsBounds ==
    ASSUME NEW x \in Int
    PROVE  /\ TruncMs(x) \in Int
           /\ TicksPerMs * TruncMs(x) < x + TicksPerMs
           /\ TicksPerMs * TruncMs(x) > x - TicksPerMs
<1>0. TicksPerMs \in Nat \ {0}
  BY TimevalAssumption
<1>1. CASE x >= 0
  <2>1. x \in Nat
    BY <1>1
  <2> DEFINE q == x \div TicksPerMs
             r == x % TicksPerMs
  <2>2. q \in Nat /\ r \in Nat /\ r < TicksPerMs /\ x = TicksPerMs * q + r
    BY <1>0, <2>1, DivMod
  <2>3. TruncMs(x) = q
    BY <1>1 DEF TruncMs
  <2> HIDE DEF q, r
  <2> QED
    BY <1>0, <2>2, <2>3
<1>2. CASE x < 0
  <2>1. -x \in Nat
    BY <1>2
  <2> DEFINE q == (-x) \div TicksPerMs
             r == (-x) % TicksPerMs
  <2>2. q \in Nat /\ r \in Nat /\ r < TicksPerMs /\ -x = TicksPerMs * q + r
    BY <1>0, <2>1, DivMod
  <2>3. TruncMs(x) = -q
    BY <1>2 DEF TruncMs
  <2> HIDE DEF q, r
  <2>4. TicksPerMs * (-q) = -(TicksPerMs * q)
    BY <1>0, <2>2
  <2> QED
    BY <1>0, <2>2, <2>3, <2>4
<1> QED
  BY <1>1, <1>2

\* The milliseconds between two instants are off by less than one, either way.
LEMMA ElapsedBounds ==
    ASSUME NEW s \in Nat, NEW e \in Nat
    PROVE  /\ time_elapsed(s, e) \in Int
           /\ TicksPerMs * time_elapsed(s, e) < (e - s) + TicksPerMs
           /\ TicksPerMs * time_elapsed(s, e) > (e - s) - TicksPerMs
<1> DEFINE K == TicksPerMs
           D == TicksPerSec
           x == tv_usec(e) - tv_usec(s)
           y == tv_sec(e) - tv_sec(s)
<1>0. K \in Nat \ {0} /\ MsPerSec \in Nat \ {0} /\ D = MsPerSec * K
  BY TimevalAssumption DEF TicksPerSec
<1>1. D \in Nat \ {0}
  BY <1>0
<1>2. /\ tv_sec(s) \in Nat /\ tv_usec(s) \in Nat
      /\ s = D * tv_sec(s) + tv_usec(s)
  BY <1>1, DivMod DEF tv_sec, tv_usec
<1>3. /\ tv_sec(e) \in Nat /\ tv_usec(e) \in Nat
      /\ e = D * tv_sec(e) + tv_usec(e)
  BY <1>1, DivMod DEF tv_sec, tv_usec
<1>4. x \in Int /\ y \in Int
  BY <1>2, <1>3
<1>5. e - s = D * y + x
  <2> HIDE DEF D
  <2>1. D * y = D * tv_sec(e) - D * tv_sec(s)
    BY <1>1, <1>2, <1>3
  <2> QED
    BY <1>1, <1>2, <1>3, <2>1
<1>6. /\ TruncMs(x) \in Int
      /\ K * TruncMs(x) < x + K
      /\ K * TruncMs(x) > x - K
  BY <1>4, TruncMsBounds
<1>7. time_elapsed(s, e) = y * MsPerSec + TruncMs(x)
  BY DEF time_elapsed
<1> HIDE DEF x, y, K, D
<1>8. K * (y * MsPerSec + TruncMs(x)) = D * y + K * TruncMs(x)
  BY <1>0, <1>4, <1>6
<1>9. K * TruncMs(x) \in Int /\ D * y \in Int
  BY <1>0, <1>1, <1>4, <1>6
<1>10. /\ time_elapsed(s, e) \in Int
       /\ K * time_elapsed(s, e) < (e - s) + K
       /\ K * time_elapsed(s, e) > (e - s) - K
  BY <1>0, <1>4, <1>5, <1>6, <1>7, <1>8, <1>9
<1> QED
  BY <1>10 DEF K

\* Time ahead: a result of 0 means less than a millisecond ahead.
LEMMA FromNowBounds ==
    ASSUME NEW n \in Nat, NEW t \in Nat
    PROVE  /\ time_from_now(n, t) \in Nat
           /\ time_from_now(n, t) = 0 => t < n + TicksPerMs
           /\ time_from_now(n, t) > 0 =>
                 timeval_adjust(n, time_from_now(n, t)) < t + TicksPerMs
<1> DEFINE el == time_elapsed(n, t)
<1>0. TicksPerMs \in Nat \ {0}
  BY TimevalAssumption
<1>1. /\ el \in Int
      /\ TicksPerMs * el < (t - n) + TicksPerMs
      /\ TicksPerMs * el > (t - n) - TicksPerMs
  BY ElapsedBounds
<1>2. time_from_now(n, t) = IF el < 0 THEN 0 ELSE el
  BY DEF time_from_now, AtLeastZero
<1> HIDE DEF el
<1>3. TicksPerMs * el \in Int /\ TicksPerMs * el = el * TicksPerMs
  BY <1>0, <1>1
<1>4. el <= 0 => TicksPerMs * el <= 0
  BY <1>0, <1>1
<1> QED
  BY <1>0, <1>1, <1>2, <1>3, <1>4 DEF timeval_adjust

\* Time passed: the test of ccwriter_too_soon errs by less than a millisecond,
\* and only in letting a packet go too early.
LEMMA SinceBounds ==
    ASSUME NEW n \in Nat, NEW t \in Nat, t <= n, NEW g \in Nat
    PROVE  /\ time_since(n, t) \in Nat
           /\ time_since(n, t) < g => n - t < g * TicksPerMs
           /\ ~(time_since(n, t) < g) => n - t > (g - 1) * TicksPerMs
<1> DEFINE el == time_elapsed(t, n)
<1>0. TicksPerMs \in Nat \ {0}
  BY TimevalAssumption
<1>1. /\ el \in Int
      /\ TicksPerMs * el < (n - t) + TicksPerMs
      /\ TicksPerMs * el > (n - t) - TicksPerMs
  BY ElapsedBounds
<1>2. time_since(n, t) = IF el < 0 THEN 0 ELSE el
  BY DEF time_since, AtLeastZero
<1> HIDE DEF el
<1>3. TicksPerMs * el \in Int /\ g * TicksPerMs \in Nat
  BY <1>0, <1>1
<1>4. (g - 1) * TicksPerMs = g * TicksPerMs - TicksPerMs
  BY <1>0
<1>5. ASSUME el < g PROVE TicksPerMs * el <= g * TicksPerMs - TicksPerMs
  <2>1. el <= g - 1
    BY <1>1, <1>5
  <2>2. TicksPerMs * el <= TicksPerMs * (g - 1)
    BY <1>0, <1>1, <2>1
  <2> QED
    BY <1>0, <1>4, <2>2
<1>6. ASSUME el >= g PROVE TicksPerMs * el >= g * TicksPerMs
  BY <1>0, <1>1, <1>6
<1>7. ASSUME time_since(n, t) < g PROVE n - t < g * TicksPerMs
  BY <1>0, <1>1, <1>2, <1>3, <1>5, <1>7
<1>8. ASSUME ~(time_since(n, t) < g) PROVE n - t > (g - 1) * TicksPerMs
  <2>1. CASE el < 0
    BY <1>0, <1>2, <1>4, <1>8, <2>1
  <2>2. CASE el >= 0
    BY <1>0, <1>1, <1>2, <1>3, <1>4, <1>6, <1>8, <2>2
  <2> QED
    BY <1>1, <2>1, <2>2
<1> QED
  BY <1>1, <1>2, <1>7, <1>8

-----------------------------------------------------------------------------
(* The invariant.                                                           *)

QueuedHasPacket == \A d \in Dpkts : tree[d] > 0 => packet[d] \in Packets

SentInPast == \A d \in Dpkts : sent[d] <= now

Inv == /\ TypeOK
       /\ QueuedHasPacket
       /\ SentInPast
       /\ NoLostWakeup
       /\ DeferralBounded

-----------------------------------------------------------------------------
(* The helpers.                                                             *)

LEMMA Constants ==
    /\ TicksPerMs \in Nat \ {0}
    /\ PipeCap \in Nat \ {0}
    /\ Start \in Nat
    /\ \A d \in Dpkts : Gap[d] \in Nat /\ Timeout[d] \in Nat
    /\ HoldTimes \subseteq Nat
    /\ NoPacket \notin Packets
  BY TimevalAssumption, DeferralAssumption

LEMMA AdjustType ==
    ASSUME NEW t \in Nat, NEW ms \in Nat
    PROVE  /\ timeval_adjust(t, ms) \in Nat
           /\ timeval_adjust(t, ms) = t + ms * TicksPerMs
           /\ ms * TicksPerMs \in Nat
  BY Constants DEF timeval_adjust

\* Removing a record leaves a tree, with no more nodes for any record.
LEMMA RemovalsShrink ==
    ASSUME NEW STATE tr, tr \in [Dpkts -> Nat], NEW STATE keys, NEW d \in Dpkts,
           NEW rest \in Removals(tr, keys, d)
    PROVE  /\ rest \in [Dpkts -> Nat]
           /\ \A e \in Dpkts : rest[e] <= tr[e]
<1>1. CASE Found(tr, keys, d) = {}
  BY <1>1 DEF Removals
<1>2. CASE Found(tr, keys, d) # {}
  <2>1. PICK e \in Found(tr, keys, d) : rest = [tr EXCEPT ![e] = @ - 1]
    BY <1>2 DEF Removals
  <2>2. e \in Dpkts /\ tr[e] > 0
    BY <2>1 DEF Found, Queued
  <2> QED
    BY <2>1, <2>2
<1> QED
  BY <1>1, <1>2

\* When times differ, removing a record unlinks a node of that record only.
LEMMA RemovalsExact ==
    ASSUME ~ClockTies,
           NEW STATE tr, tr \in [Dpkts -> Nat], NEW STATE keys, NEW d \in Dpkts,
           NEW rest \in Removals(tr, keys, d)
    PROVE  rest = [tr EXCEPT ![d] = IF @ > 0 THEN @ - 1 ELSE 0]
<1>1. Found(tr, keys, d) = Queued(tr) \cap {d}
  BY DEF Found
<1>2. CASE tr[d] > 0
  <2>1. Found(tr, keys, d) = {d}
    BY <1>1, <1>2 DEF Queued
  <2> QED
    BY <1>2, <2>1 DEF Removals
<1>3. CASE ~(tr[d] > 0)
  <2>1. Found(tr, keys, d) = {} /\ tr[d] = 0
    BY <1>1, <1>3 DEF Queued
  <2> QED
    BY <1>3, <2>1 DEF Removals
<1> QED
  BY <1>2, <1>3

\* defer_rearm, called at least once, leaves a wake-up for the first record.
LEMMA RearmWakes ==
    ASSUME now \in Nat, itimer \in Nat \cup {Disarmed},
           tree' \in [Dpkts -> Nat], tv' \in [Dpkts -> Nat],
           NEW n \in Nat \ {0}, NEW STATE bytes, bytes \in 0..PipeCap,
           Rearm(n, bytes)
    PROVE  /\ itimer' \in Nat \cup {Disarmed}
           /\ pipe' \in 0..PipeCap
           /\ NoLostWakeup'
<1>0. TicksPerMs \in Nat \ {0} /\ PipeCap \in Nat \ {0}
  BY Constants
<1>1. CASE Queued(tree') = {} /\ timer_disarm(bytes)
  BY <1>1 DEF NoLostWakeup, Heads, timer_disarm
<1>2. ASSUME NEW d \in Heads(tree', tv'),
             timer_arm(time_from_now(now, tv'[d]), n, bytes)
      PROVE  /\ itimer' \in Nat \cup {Disarmed}
             /\ pipe' \in 0..PipeCap
             /\ NoLostWakeup'
  <2> DEFINE ms == time_from_now(now, tv'[d])
  <2>1. d \in Dpkts /\ tv'[d] \in Nat
    BY DEF Heads, Queued
  <2>2. \A e \in Heads(tree', tv') : tv'[e] = tv'[d]
    BY <2>1 DEF Heads, Queued
  <2>3. /\ ms \in Nat
        /\ ms > 0 => timeval_adjust(now, ms) < tv'[d] + TicksPerMs
    BY <2>1, FromNowBounds
  <2>4. CASE ms = 0
    <3>1. pipe' = AtMost(bytes + n, PipeCap)
          /\ itimer' = IF bytes < PipeCap THEN Disarmed ELSE itimer
      BY <1>2, <2>4 DEF timer_arm
    <3>2. pipe' \in 0..PipeCap /\ pipe' > 0
      BY <1>0, <3>1 DEF AtMost
    <3> QED
      BY <3>1, <3>2 DEF NoLostWakeup
  <2>5. CASE ms > 0
    <3>1. pipe' = bytes /\ itimer' = timeval_adjust(now, ms)
      BY <1>2, <2>5 DEF timer_arm
    <3>2. itimer' \in Nat /\ itimer' < tv'[d] + TicksPerMs
      BY <2>3, <2>5, <3>1, AdjustType
    <3> QED
      BY <2>2, <3>1, <3>2 DEF NoLostWakeup, Disarmed
  <2> QED
    BY <2>3, <2>4, <2>5
<1> QED
  BY <1>1, <1>2 DEF Rearm

-----------------------------------------------------------------------------
(* One packet through the writer, as ccwriter_do_write_ and as the two      *)
(* forms of defer_packet.  The tree tr and the times keys are those the     *)
(* code reaches it with: no fuller than the tree before the step.           *)

LEMMA DeferByEffect ==
    ASSUME Inv, NEW d \in Dpkts, NEW STATE p, p \in Packets, NEW ms \in Nat,
           NEW STATE tr, tr \in [Dpkts -> Nat], \A e \in Dpkts : tr[e] <= tree[e],
           NEW STATE keys, keys \in [Dpkts -> Nat],
           DeferBy(d, p, ms, tr, keys)
    PROVE  /\ tv' \in [Dpkts -> Nat]
           /\ tv'[d] = now + ms * TicksPerMs
           /\ \A e \in Dpkts \ {d} : tv'[e] = keys[e]
           /\ packet' \in [Dpkts -> Packets \cup {NoPacket}]
           /\ tree' \in [Dpkts -> Nat]
           /\ \A e \in Dpkts \ {d} : tree'[e] <= tree[e]
           /\ QueuedHasPacket'
<1>1. timeval_adjust(now, ms) \in Nat
      /\ timeval_adjust(now, ms) = now + ms * TicksPerMs
  BY AdjustType DEF Inv, TypeOK
<1>2. PICK rest \in Removals(tr, keys, d) : tree' = Added(rest, d)
  BY DEF DeferBy
<1>3. rest \in [Dpkts -> Nat] /\ \A e \in Dpkts : rest[e] <= tr[e]
  BY RemovalsShrink
<1>4. tree' = [rest EXCEPT ![d] = @ + 1]
  BY <1>2 DEF Added
<1>5. /\ tree' \in [Dpkts -> Nat]
      /\ \A e \in Dpkts \ {d} : tree'[e] <= tree[e]
  BY <1>3, <1>4 DEF Inv, TypeOK
<1>6. packet' = [packet EXCEPT ![d] = p]
  BY DEF DeferBy
<1>7. packet' \in [Dpkts -> Packets \cup {NoPacket}]
  BY <1>6 DEF Inv, TypeOK
<1>8. QueuedHasPacket'
  BY <1>5, <1>6 DEF Inv, TypeOK, QueuedHasPacket
<1>9. tv' = [keys EXCEPT ![d] = timeval_adjust(now, ms)]
  BY DEF DeferBy
<1> QED
  BY <1>1, <1>5, <1>7, <1>8, <1>9

LEMMA ForgetEffect ==
    ASSUME Inv, NEW d \in Dpkts,
           NEW STATE tr, tr \in [Dpkts -> Nat], \A e \in Dpkts : tr[e] <= tree[e],
           NEW STATE keys, keys \in [Dpkts -> Nat],
           Forget(d, tr, keys)
    PROVE  /\ tv' = keys
           /\ packet' = packet
           /\ tree' \in [Dpkts -> Nat]
           /\ \A e \in Dpkts : tree'[e] <= tree[e]
           /\ QueuedHasPacket'
<1>1. tree' \in [Dpkts -> Nat] /\ \A e \in Dpkts : tree'[e] <= tr[e]
  BY RemovalsShrink DEF Forget
<1>2. \A e \in Dpkts : tree'[e] <= tree[e]
  BY <1>1 DEF Inv, TypeOK
<1> QED
  BY <1>1, <1>2 DEF Forget, Inv, TypeOK, QueuedHasPacket

\* What a packet through the writer leaves of Inv; Rearm gives the rest.
WriterInv ==
    /\ tv \in [Dpkts -> Nat]
    /\ sent \in [Dpkts -> Nat]
    /\ packet \in [Dpkts -> Packets \cup {NoPacket}]
    /\ n_cnt \in [Dpkts -> 0..1]
    /\ tree \in [Dpkts -> Nat]
    /\ wire \in [Dpkts -> Packets \cup {NoPacket}]
    /\ QueuedHasPacket
    /\ DeferralBounded

LEMMA DoWriteEffect ==
    ASSUME Inv, NEW d \in Dpkts, NEW STATE p, p \in Packets,
           NEW STATE tr, tr \in [Dpkts -> Nat], \A e \in Dpkts : tr[e] <= tree[e],
           NEW STATE keys, keys \in [Dpkts -> Nat],
           \A e \in Dpkts \ {d} : keys[e] = tv[e],
           \/ tr = tree /\ keys[d] = tv[d]
           \/ keys[d] = now + Timeout[d] * TicksPerMs,
           DoWrite(d, p, tr, keys)
    PROVE  WriterInv' /\ \A e \in Dpkts : sent'[e] <= now
<1> DEFINE K == TicksPerMs
           G == Gap[d] * TicksPerMs
           T == Timeout[d] * TicksPerMs
           L == (LongestWait(d) + 1) * TicksPerMs
<1>0. now \in Nat /\ sent \in [Dpkts -> Nat] /\ sent[d] <= now /\ tv \in [Dpkts -> Nat]
  BY DEF Inv, TypeOK, SentInPast
<1>1. K \in Nat \ {0} /\ Gap[d] \in Nat /\ Timeout[d] \in Nat
  BY Constants
<1>2. G \in Nat /\ T \in Nat /\ L \in Nat /\ 2 * G < L /\ T < L
  <2>1. LongestWait(d) \in Nat /\ 2 * Gap[d] <= LongestWait(d)
        /\ Timeout[d] <= LongestWait(d)
    BY <1>1 DEF LongestWait
  <2>2. L = LongestWait(d) * K + K
    BY <1>1, <2>1
  <2>3. (2 * Gap[d]) * K <= LongestWait(d) * K /\ T <= LongestWait(d) * K
    BY <1>1, <2>1
  <2>4. (2 * Gap[d]) * K = 2 * G
    BY <1>1
  <2>5. G \in Nat /\ T \in Nat /\ LongestWait(d) * K \in Nat
    BY <1>1, <2>1
  <2> QED
    BY <1>1, <2>2, <2>3, <2>4, <2>5
<1>3. \A e \in Dpkts : tree[e] > 0 =>
         tv[e] < sent[e] + (LongestWait(e) + 1) * TicksPerMs
  BY DEF Inv, DeferralBounded, Queued
<1> HIDE DEF G, T, L, K
<1>4. ASSUME tv' \in [Dpkts -> Nat], tree' \in [Dpkts -> Nat],
             \A e \in Dpkts \ {d} : tv'[e] = tv[e] /\ tree'[e] <= tree[e],
             \A e \in Dpkts \ {d} : sent'[e] = sent[e],
             tree'[d] > 0 => tv'[d] < sent'[d] + L
      PROVE  DeferralBounded'
  <2> SUFFICES ASSUME NEW e \in Dpkts, tree'[e] > 0
               PROVE  tv'[e] < sent'[e] + (LongestWait(e) + 1) * TicksPerMs
    BY DEF DeferralBounded, Queued
  <2>1. CASE e = d
    BY <1>4, <2>1 DEF L
  <2>2. CASE e # d
    <3>1. tree[e] > 0
      BY <1>4, <2>2 DEF Inv, TypeOK
    <3> QED
      BY <1>3, <1>4, <2>2, <3>1
  <2> QED
    BY <2>1, <2>2
<1>5. CASE /\ ccwriter_too_soon(d)
           /\ DeferBy(d, p, Gap[d], tr, keys)
           /\ UNCHANGED <<sent, n_cnt, wire>>
  <2>1. now - sent[d] < G
    BY <1>0, <1>1, <1>5, SinceBounds DEF ccwriter_too_soon, G
  <2>2. /\ tv' \in [Dpkts -> Nat]
        /\ tv'[d] = now + G
        /\ \A e \in Dpkts \ {d} : tv'[e] = keys[e]
        /\ packet' \in [Dpkts -> Packets \cup {NoPacket}]
        /\ tree' \in [Dpkts -> Nat]
        /\ \A e \in Dpkts \ {d} : tree'[e] <= tree[e]
        /\ QueuedHasPacket'
    BY <1>1, <1>5, DeferByEffect DEF G
  <2>3. tv'[d] < sent'[d] + L
    BY <1>0, <1>2, <1>5, <2>1, <2>2
  <2>4. DeferralBounded'
    BY <1>4, <1>5, <2>2, <2>3
  <2> QED
    BY <1>0, <1>5, <2>2, <2>4 DEF WriterInv, Inv, TypeOK, SentInPast
<1>6. CASE /\ ~ccwriter_too_soon(d)
           /\ wire' = [wire EXCEPT ![d] = p]
           /\ sent' = [sent EXCEPT ![d] = now]
           /\ CheckDeferred(d, p, tr, keys)
  <2>1. /\ wire' \in [Dpkts -> Packets \cup {NoPacket}]
        /\ sent' \in [Dpkts -> Nat]
        /\ sent'[d] = now
        /\ \A e \in Dpkts \ {d} : sent'[e] = sent[e]
        /\ \A e \in Dpkts : sent'[e] <= now
    BY <1>0, <1>6 DEF Inv, TypeOK, SentInPast
  <2>2. n_cnt' \in [Dpkts -> 0..1]
    BY <1>6 DEF CheckDeferred, Inv, TypeOK
  <2>3. ASSUME NEW ms \in {Gap[d], Timeout[d]}, DeferBy(d, p, ms, tr, keys)
        PROVE  WriterInv'
    <3>1. ms \in Nat
      BY <1>1
    <3>2. /\ tv' \in [Dpkts -> Nat]
          /\ tv'[d] = now + ms * TicksPerMs
          /\ \A e \in Dpkts \ {d} : tv'[e] = keys[e]
          /\ packet' \in [Dpkts -> Packets \cup {NoPacket}]
          /\ tree' \in [Dpkts -> Nat]
          /\ \A e \in Dpkts \ {d} : tree'[e] <= tree[e]
          /\ QueuedHasPacket'
      BY <2>3, <3>1, DeferByEffect
    <3>3. ms * TicksPerMs = G \/ ms * TicksPerMs = T
      BY DEF G, T
    <3>4. tv'[d] < sent'[d] + L
      BY <1>0, <1>2, <2>1, <3>2, <3>3
    <3>5. DeferralBounded'
      BY <1>4, <2>1, <3>2, <3>4
    <3> QED
      BY <2>1, <2>2, <3>2, <3>5 DEF WriterInv
  <2>4. ASSUME Forget(d, tr, keys)
        PROVE  WriterInv'
    <3>1. /\ tv' = keys
          /\ packet' = packet
          /\ tree' \in [Dpkts -> Nat]
          /\ \A e \in Dpkts : tree'[e] <= tree[e]
          /\ QueuedHasPacket'
      BY <2>4, ForgetEffect
    <3>2. tree'[d] > 0 => tv'[d] < sent'[d] + L
      <4>1. CASE keys[d] = tv[d]
        <5>1. tree'[d] > 0 => tree[d] > 0
          BY <3>1 DEF Inv, TypeOK
        <5>2. tree[d] > 0 => tv[d] < sent[d] + L
          BY <1>3 DEF L
        <5> QED
          BY <1>0, <1>2, <2>1, <3>1, <4>1, <5>1, <5>2
      <4>2. CASE keys[d] = now + T
        BY <1>0, <1>2, <2>1, <3>1, <4>2
      <4> QED
        BY <4>1, <4>2 DEF T
    <3>3. DeferralBounded'
      BY <1>4, <2>1, <3>1, <3>2
    <3> QED
      BY <2>1, <2>2, <3>1, <3>3 DEF WriterInv, Inv, TypeOK
  <2> QED
    BY <1>6, <2>1, <2>3, <2>4 DEF CheckDeferred
<1> QED
  BY <1>5, <1>6 DEF DoWrite

-----------------------------------------------------------------------------
(* Inv is inductive.                                                        *)

LEMMA InitInv == Init => Inv
<1> SUFFICES ASSUME Init PROVE Inv
  OBVIOUS
<1>1. TypeOK
  BY Constants DEF Init, TypeOK, Disarmed
<1>2. Queued(tree) = {}
  BY DEF Init, Queued
<1> QED
  BY <1>1, <1>2, Constants
     DEF Init, Inv, QueuedHasPacket, SentInPast, NoLostWakeup, Heads,
         DeferralBounded

\* A record popped from the tree is in Dpkts and holds a packet.
LEMMA HeadHasPacket ==
    ASSUME Inv, NEW d \in Heads(tree, tv)
    PROVE  d \in Dpkts /\ packet[d] \in Packets
  BY DEF Inv, QueuedHasPacket, Heads, Queued

LEMMA WriteInv ==
    ASSUME Inv, NEW d \in Dpkts, NEW c \in Cmds, NEW hold \in HoldTimes,
           Write(d, c, hold)
    PROVE  Inv'
<1> DEFINE p == [cmd |-> c, expire |-> timeval_adjust(now, hold)]
<1>0. now \in Nat /\ tree \in [Dpkts -> Nat] /\ tv \in [Dpkts -> Nat]
      /\ itimer \in Nat \cup {Disarmed} /\ pipe \in 0..PipeCap
  BY DEF Inv, TypeOK
<1>1. p \in Packets
  BY <1>0, Constants, AdjustType DEF Packets
<1>2. /\ newest' = [newest EXCEPT ![d] = p]
      /\ DoWrite(d, p, tree, tv)
      /\ Rearm(1, pipe)
      /\ accepted' = accepted + 1
      /\ now' = now
  BY DEF Write
<1> HIDE DEF p
<1>3. \A e \in Dpkts : tree[e] <= tree[e]
  BY <1>0
<1>4. WriterInv' /\ \A e \in Dpkts : sent'[e] <= now
  BY <1>0, <1>1, <1>2, <1>3, DoWriteEffect
<1>5. /\ itimer' \in Nat \cup {Disarmed}
      /\ pipe' \in 0..PipeCap
      /\ NoLostWakeup'
  <2>1. tree' \in [Dpkts -> Nat] /\ tv' \in [Dpkts -> Nat]
    BY <1>4 DEF WriterInv
  <2> QED
    BY <1>0, <1>2, <2>1, RearmWakes
<1>6. newest' \in [Dpkts -> Packets \cup {NoPacket}] /\ accepted' \in Nat
  BY <1>1, <1>2 DEF Inv, TypeOK
<1>7. TypeOK'
  BY <1>0, <1>2, <1>4, <1>5, <1>6 DEF TypeOK, WriterInv
<1> QED
  BY <1>2, <1>4, <1>5, <1>7 DEF Inv, WriterInv, SentInPast

LEMMA DeferNextInv == ASSUME Inv, DeferNext PROVE Inv'
<1>0. now \in Nat /\ tree \in [Dpkts -> Nat] /\ tv \in [Dpkts -> Nat]
      /\ itimer \in Nat \cup {Disarmed} /\ pipe \in 0..PipeCap
  BY DEF Inv, TypeOK
<1>1. PICK d \in Heads(tree, tv) : \E rest \in Removals(tree, tv, d) :
         DoWrite(d, packet[d], rest,
                 [tv EXCEPT ![d] = timeval_adjust(now, Timeout[d])])
  BY DEF DeferNext
<1>2. d \in Dpkts /\ packet[d] \in Packets
  BY HeadHasPacket
<1>3. PICK rest \in Removals(tree, tv, d) :
         DoWrite(d, packet[d], rest,
                 [tv EXCEPT ![d] = timeval_adjust(now, Timeout[d])])
  BY <1>1
<1>4. rest \in [Dpkts -> Nat] /\ \A e \in Dpkts : rest[e] <= tree[e]
  BY <1>0, <1>2, RemovalsShrink
<1> DEFINE keys == [tv EXCEPT ![d] = timeval_adjust(now, Timeout[d])]
<1>5. /\ keys \in [Dpkts -> Nat]
      /\ keys[d] = now + Timeout[d] * TicksPerMs
      /\ \A e \in Dpkts \ {d} : keys[e] = tv[e]
  BY <1>0, <1>2, Constants, AdjustType
<1>6. DoWrite(d, packet[d], rest, keys)
  BY <1>3
<1> HIDE DEF keys
<1>7. WriterInv' /\ \A e \in Dpkts : sent'[e] <= now
  BY <1>2, <1>4, <1>5, <1>6, DoWriteEffect
<1>8. /\ Rearm(2, pipe - 1) /\ pipe - 1 \in 0..PipeCap
      /\ now' = now /\ newest' = newest /\ accepted' = accepted
  BY <1>0, Constants DEF DeferNext
<1>9. /\ itimer' \in Nat \cup {Disarmed}
      /\ pipe' \in 0..PipeCap
      /\ NoLostWakeup'
  <2>1. tree' \in [Dpkts -> Nat] /\ tv' \in [Dpkts -> Nat]
    BY <1>7 DEF WriterInv
  <2> QED
    BY <1>0, <1>8, <2>1, RearmWakes
<1>10. TypeOK'
  BY <1>0, <1>7, <1>8, <1>9 DEF TypeOK, WriterInv, Inv
<1> QED
  BY <1>7, <1>8, <1>9, <1>10 DEF Inv, WriterInv, SentInPast

\* The other actions leave the records alone.
LEMMA ClockInv ==
    ASSUME Inv, DeferNothing \/ TimerFires \/ Tick \/ UNCHANGED vars
    PROVE  Inv'
<1> USE DEF Inv, TypeOK, QueuedHasPacket, SentInPast, DeferralBounded, Queued
<1>0. PipeCap \in Nat \ {0}
  BY Constants
<1>1. CASE DeferNothing
  <2>1. UNCHANGED <<now, tv, sent, packet, n_cnt, tree, newest, wire, accepted>>
    BY <1>1 DEF DeferNothing, dpktVars, history
  <2>2. pipe' \in 0..PipeCap /\ itimer' \in Nat \cup {Disarmed}
    BY <1>0, <1>1 DEF DeferNothing, timer_disarm
  <2>3. NoLostWakeup'
    BY <1>1, <2>1 DEF DeferNothing, NoLostWakeup, Heads
  <2> QED
    BY <2>1, <2>2, <2>3
<1>2. CASE TimerFires
  <2>1. UNCHANGED <<now, tv, sent, packet, n_cnt, tree, newest, wire, accepted>>
    BY <1>2 DEF TimerFires, dpktVars, history
  <2>2. /\ pipe' \in 0..PipeCap /\ pipe' > 0
        /\ itimer' \in Nat \cup {Disarmed}
    BY <1>0, <1>2 DEF TimerFires, AtMost
  <2>3. NoLostWakeup'
    BY <2>2 DEF NoLostWakeup
  <2> QED
    BY <2>1, <2>2, <2>3
<1>3. CASE Tick
  <2>1. /\ UNCHANGED <<tv, sent, packet, n_cnt, tree, itimer, pipe, newest,
                       wire, accepted>>
        /\ now' = now + 1
    BY <1>3 DEF Tick, dpktVars, history
  <2>2. NoLostWakeup'
    BY <2>1 DEF NoLostWakeup, Heads
  <2> QED
    BY <2>1, <2>2
<1>4. CASE UNCHANGED vars
  BY <1>4 DEF vars, NoLostWakeup, Heads
<1> QED
  BY <1>1, <1>2, <1>3, <1>4

LEMMA NextInv == Inv /\ [Next]_vars => Inv'
  BY WriteInv, DeferNextInv, ClockInv DEF Next, AtHorizon

LEMMA InvAlways == Spec => []Inv
  BY InitInv, NextInv, PTL DEF Spec

\* Every variable keeps its type, the counts of the tree never negative.
THEOREM TypeCorrect == Spec => []TypeOK
<1>1. Inv => TypeOK
  BY DEF Inv
<1> QED
  BY <1>1, InvAlways, PTL

\* No wake-up is lost, whatever ties the clock makes.
THEOREM WakeupKept == Spec => []NoLostWakeup
<1>1. Inv => NoLostWakeup
  BY DEF Inv
<1> QED
  BY <1>1, InvAlways, PTL

\* No packet is put off beyond the longest wait of its receiver, whatever ties
\* the clock makes.
THEOREM DelayBounded == Spec => []DeferralBounded
<1>1. Inv => DeferralBounded
  BY DEF Inv
<1> QED
  BY <1>1, InvAlways, PTL

-----------------------------------------------------------------------------
(* The gap.                                                                 *)

\* Packets for one receiver are more than the gap less a millisecond apart:
\* a record that is written is one that ccwriter_too_soon let pass.
THEOREM GapAlwaysKept == Spec => GapKept
<1> DEFINE Kept == \A d \in Dpkts : sent'[d] # sent[d] \/ wire'[d] # wire[d] =>
                      now - sent[d] > (Gap[d] - 1) * TicksPerMs
<1>1. ASSUME Inv, NEW e \in Dpkts, NEW STATE p, NEW STATE tr, NEW STATE keys,
             DoWrite(e, p, tr, keys)
      PROVE  Kept
  <2>1. CASE UNCHANGED <<sent, wire>>
    BY <2>1
  <2>2. CASE /\ ~ccwriter_too_soon(e)
             /\ wire' = [wire EXCEPT ![e] = p]
             /\ sent' = [sent EXCEPT ![e] = now]
    <3>1. now - sent[e] > (Gap[e] - 1) * TicksPerMs
      BY <1>1, <2>2, SinceBounds, Constants
         DEF ccwriter_too_soon, Inv, TypeOK, SentInPast
    <3>2. \A d \in Dpkts \ {e} : sent'[d] = sent[d] /\ wire'[d] = wire[d]
      BY <1>1, <2>2 DEF Inv, TypeOK
    <3> QED
      BY <3>1, <3>2
  <2> QED
    BY <1>1, <2>1, <2>2 DEF DoWrite
<1>2. ASSUME Inv, [Next]_vars
      PROVE  Kept
  <2>1. CASE \E d \in Dpkts, c \in Cmds, hold \in HoldTimes : Write(d, c, hold)
    BY <1>1, <1>2, <2>1 DEF Write
  <2>2. CASE DeferNext
    BY <1>1, <1>2, <2>2 DEF DeferNext, Heads, Queued
  <2>3. CASE UNCHANGED <<sent, wire>>
    BY <2>3
  <2> QED
    BY <1>2, <2>1, <2>2, <2>3
       DEF Next, DeferNothing, TimerFires, Tick, AtHorizon, vars, dpktVars,
           history
<1>3. Inv /\ [Next]_vars => [Kept]_vars
  BY <1>2
<1> QED
  BY <1>3, InvAlways, PTL DEF Spec, GapKept

-----------------------------------------------------------------------------
(* Delivery, when no two records have the same time.                        *)

\* A record is in the tree once, with the newest command, or not at all, the
\* newest command having been written.
DeliveryInv ==
    \A d \in Dpkts : /\ tree[d] <= 1
                     /\ tree[d] > 0 => packet[d] = newest[d]
                     /\ tree[d] = 0 => wire[d] = newest[d]

LEMMA DoWriteDelivers ==
    ASSUME ~ClockTies, Inv, DeliveryInv, NEW d \in Dpkts, NEW STATE p,
           NEW STATE tr, tr \in {tree, [tree EXCEPT ![d] = 0]}, NEW STATE keys,
           DoWrite(d, p, tr, keys)
    PROVE  \/ /\ tree' = [tree EXCEPT ![d] = 1]
              /\ packet' = [packet EXCEPT ![d] = p]
              /\ \/ UNCHANGED wire
                 \/ wire' = [wire EXCEPT ![d] = p]
           \/ /\ tree' = [tree EXCEPT ![d] = 0]
              /\ packet' = packet
              /\ wire' = [wire EXCEPT ![d] = p]
<1>1. tree \in [Dpkts -> Nat] /\ tree[d] \in {0, 1}
  BY DEF Inv, TypeOK, DeliveryInv
<1>2. tr \in [Dpkts -> Nat] /\ tr[d] \in {0, 1}
  BY <1>1
<1>3. ASSUME NEW rest \in Removals(tr, keys, d)
      PROVE  rest = [tree EXCEPT ![d] = 0]
  BY <1>1, <1>2, RemovalsExact
<1>4. ASSUME NEW ms, DeferBy(d, p, ms, tr, keys)
      PROVE  /\ tree' = [tree EXCEPT ![d] = 1]
             /\ packet' = [packet EXCEPT ![d] = p]
  <2>1. PICK rest \in Removals(tr, keys, d) : tree' = Added(rest, d)
    BY <1>4 DEF DeferBy
  <2>2. rest = [tree EXCEPT ![d] = 0]
    BY <1>3
  <2>3. tree' = [tree EXCEPT ![d] = 1]
    BY <1>1, <2>1, <2>2 DEF Added
  <2> QED
    BY <1>4, <2>3 DEF DeferBy
<1>5. ASSUME Forget(d, tr, keys)
      PROVE  tree' = [tree EXCEPT ![d] = 0] /\ packet' = packet
  BY <1>3, <1>5 DEF Forget
<1> QED
  BY <1>4, <1>5 DEF DoWrite, CheckDeferred

LEMMA WriteDelivers ==
    ASSUME ~ClockTies, Inv, DeliveryInv,
           NEW d \in Dpkts, NEW c \in Cmds, NEW hold \in HoldTimes,
           Write(d, c, hold)
    PROVE  DeliveryInv' /\ (MB!Keep(d) \/ MB!Pass(d))
<1> DEFINE p == [cmd |-> c, expire |-> timeval_adjust(now, hold)]
<1>1. newest' = [newest EXCEPT ![d] = p] /\ DoWrite(d, p, tree, tv)
  BY DEF Write
<1>2. p \in Packets
  BY Constants, AdjustType DEF Packets, Inv, TypeOK
<1> HIDE DEF p
<1>3. \/ /\ tree' = [tree EXCEPT ![d] = 1]
         /\ packet' = [packet EXCEPT ![d] = p]
         /\ \/ UNCHANGED wire
            \/ wire' = [wire EXCEPT ![d] = p]
      \/ /\ tree' = [tree EXCEPT ![d] = 0]
         /\ packet' = packet
         /\ wire' = [wire EXCEPT ![d] = p]
  BY <1>1, DoWriteDelivers
<1>4. DeliveryInv'
  BY <1>1, <1>3 DEF DeliveryInv, Inv, TypeOK
<1>5. newest'[d] \in Packets /\ newest' = [newest EXCEPT ![d] = newest'[d]]
  BY <1>1, <1>2 DEF Inv, TypeOK
<1>6. \/ tree' = [tree EXCEPT ![d] = 1] /\ Queued(tree)' = Queued(tree) \cup {d}
      \/ tree' = [tree EXCEPT ![d] = 0] /\ Queued(tree)' = Queued(tree) \ {d}
  BY <1>3 DEF Queued, Inv, TypeOK
<1>7. newest'[d] = p /\ (tree' = [tree EXCEPT ![d] = 1] => tree'[d] = 1)
      /\ (tree' = [tree EXCEPT ![d] = 0] => tree'[d] = 0)
  BY <1>1 DEF Inv, TypeOK
<1>8. MB!Keep(d) \/ MB!Pass(d)
  BY <1>3, <1>5, <1>6, <1>7 DEF MB!Keep, MB!Pass, MB!Submit
<1> QED
  BY <1>4, <1>8

LEMMA DeferNextDelivers ==
    ASSUME ~ClockTies, Inv, DeliveryInv, DeferNext
    PROVE  DeliveryInv' /\ (UNCHANGED MB!vars \/ \E d \in Dpkts : MB!Deliver(d))
<1>1. PICK d \in Heads(tree, tv) : \E rest \in Removals(tree, tv, d) :
         DoWrite(d, packet[d], rest,
                 [tv EXCEPT ![d] = timeval_adjust(now, Timeout[d])])
  BY DEF DeferNext
<1>2. d \in Dpkts /\ tree[d] = 1 /\ packet[d] = newest[d] /\ d \in Queued(tree)
  BY DEF Heads, Queued, Inv, TypeOK, DeliveryInv
<1>3. PICK rest \in Removals(tree, tv, d) :
         DoWrite(d, packet[d], rest,
                 [tv EXCEPT ![d] = timeval_adjust(now, Timeout[d])])
  BY <1>1
<1>4. rest = [tree EXCEPT ![d] = 0]
  BY <1>2, RemovalsExact DEF Inv, TypeOK
<1>5. \/ /\ tree' = [tree EXCEPT ![d] = 1]
         /\ packet' = [packet EXCEPT ![d] = packet[d]]
         /\ \/ UNCHANGED wire
            \/ wire' = [wire EXCEPT ![d] = packet[d]]
      \/ /\ tree' = [tree EXCEPT ![d] = 0]
         /\ packet' = packet
         /\ wire' = [wire EXCEPT ![d] = packet[d]]
  BY <1>2, <1>3, <1>4, DoWriteDelivers
<1>6. newest' = newest
  BY DEF DeferNext
<1>7. DeliveryInv'
  BY <1>2, <1>5, <1>6 DEF DeliveryInv, Inv, TypeOK
<1>8. \/ tree' = tree /\ Queued(tree)' = Queued(tree)
      \/ Queued(tree)' = Queued(tree) \ {d}
  BY <1>2, <1>5 DEF Queued, Inv, TypeOK
<1>9. CASE UNCHANGED wire /\ tree' = [tree EXCEPT ![d] = 1]
  <2>1. Queued(tree)' = Queued(tree)
    BY <1>2, <1>9 DEF Queued, Inv, TypeOK
  <2> QED
    BY <1>6, <1>7, <1>9, <2>1 DEF MB!vars
<1>10. CASE wire' = [wire EXCEPT ![d] = packet[d]]
  <2>1. MB!Deliver(d)
    BY <1>2, <1>6, <1>8, <1>10 DEF MB!Deliver
  <2> QED
    BY <1>2, <1>7, <2>1
<1> QED
  BY <1>5, <1>9, <1>10

LEMMA NextDelivers ==
    ASSUME ~ClockTies, Inv, DeliveryInv, [Next]_vars
    PROVE  DeliveryInv' /\ [MB!Next]_(MB!vars)
<1>1. CASE \E d \in Dpkts, c \in Cmds, hold \in HoldTimes : Write(d, c, hold)
  BY <1>1, WriteDelivers DEF MB!Next
<1>2. CASE DeferNext
  BY <1>2, DeferNextDelivers DEF MB!Next
<1>3. CASE UNCHANGED <<tree, packet, newest, wire>>
  BY <1>3 DEF DeliveryInv, Queued, MB!vars
<1> QED
  BY <1>1, <1>2, <1>3
     DEF Next, DeferNothing, TimerFires, Tick, AtHorizon, vars, dpktVars,
         history

LEMMA InitDelivers == Init => DeliveryInv /\ MB!Init
  BY DEF Init, DeliveryInv, MB!Init, Queued

LEMMA DeliveryAlways == ASSUME ~ClockTies PROVE Spec => []DeliveryInv
<1>1. Inv /\ DeliveryInv /\ [Next]_vars => DeliveryInv'
  BY NextDelivers
<1> QED
  BY <1>1, InitDelivers, InvAlways, PTL DEF Spec

\* When no two records have the same time, a command that does not wait has
\* been written: cl_rbtree_remove removes the specified record.
THEOREM NothingLost == ASSUME ~ClockTies PROVE Spec => []NoCommandLost
<1>1. DeliveryInv => NoCommandLost
  BY DEF DeliveryInv, NoCommandLost
<1> QED
  BY <1>1, DeliveryAlways, PTL

\* When no two records have the same time, the deferral implements the mailbox.
THEOREM ImplementsMailbox == ASSUME ~ClockTies PROVE Spec => MailboxSpec
<1>1. Init => MB!Init
  BY InitDelivers
<1>2. Inv /\ DeliveryInv /\ [Next]_vars => [MB!Next]_(MB!vars)
  BY NextDelivers
<1> QED
  BY <1>1, <1>2, InvAlways, DeliveryAlways, PTL DEF Spec, MailboxSpec, MB!Spec
-----------------------------------------------------------------------------
(* The end of a motion, when no two records have the same time.             *)

\* The instant at which the motion in a packet is over, or the loop prompt.
Over(p) == AtLeast(p.expire, PromptFrom)

\* A motion in the tree was last written before it was over, and waits for two
\* gap times after that at most.
MotionWaits ==
    \A d \in Dpkts : tree[d] > 0 /\ ~ccpacket_is_stop(packet[d]) =>
        /\ sent[d] <= Over(packet[d])
        /\ tv[d] <= Over(packet[d]) + (2 * Gap[d]) * TicksPerMs

\* Once the loop keeps up with the clock, no record is a millisecond late.
Prompt == now <= PromptFrom \/ \A d \in Dpkts : tree[d] > 0 => now < tv[d] + TicksPerMs

\* A tree that is not empty has a first record, however many there are.
HasFirst == Queued(tree) = {} \/ Heads(tree, tv) # {}

MotionInv == MotionWaits /\ Prompt /\ HasFirst

LEMMA OverIs ==
    ASSUME NEW p \in Packets
    PROVE  Over(p) \in Nat /\ p.expire \in Nat /\ Over(p) >= p.expire /\ Over(p) >= PromptFrom
<1>1. p.expire \in Nat /\ PromptFrom \in Nat
  BY DeferralAssumption DEF Packets
<1> QED
  BY <1>1 DEF Over, AtLeast

\* A command that its receiver would drop too early goes on after that.
LEMMA ExpiredLater ==
    ASSUME now \in Nat, NEW p \in Packets, NEW ms \in Nat, ccpacket_is_expired(p, ms)
    PROVE  now + ms * TicksPerMs < p.expire
<1>1. p.expire \in Nat
  BY OverIs
<1>2. PICK K \in Nat \ {0} : K = TicksPerMs
  BY Constants
<1>3. PICK el \in Int : el = time_elapsed(now, p.expire)
  BY <1>1, ElapsedBounds
<1>4. K * el < (p.expire - now) + K
  BY <1>1, <1>2, <1>3, ElapsedBounds
<1>5. el > ms
  BY <1>3 DEF ccpacket_is_expired, time_from_now, AtLeastZero
<1>6. K * el >= K * ms + K
  <2>1. PICK j \in Nat : el = ms + 1 + j
    <3>1. el - ms - 1 \in Nat
      BY <1>5
    <3> QED
      BY <3>1
  <2>2. K * (ms + 1 + j) = K * ms + K + K * j /\ K * j \in Nat /\ K * ms \in Nat
    BY <1>2
  <2> QED
    BY <1>2, <2>1, <2>2
<1>7. K * ms = ms * K /\ K * ms \in Nat /\ K * el \in Int
  BY <1>2
<1> QED
  BY <1>1, <1>2, <1>4, <1>6, <1>7

\* A packet through the writer that is not too late.  The times keys differ
\* from tv in that of d alone.
LEMMA DoWriteEnds ==
    ASSUME ~ClockTies, Inv, DeliveryInv, MotionInv, NEW d \in Dpkts, NEW STATE p, p \in Packets,
           NEW STATE tr, tr \in {tree, [tree EXCEPT ![d] = 0]},
           NEW STATE keys, keys \in [Dpkts -> Nat], \A e \in Dpkts \ {d} : keys[e] = tv[e],
           ~ccpacket_is_stop(p) => sent[d] <= Over(p),
           DoWrite(d, p, tr, keys), now' = now
    PROVE  MotionWaits' /\ Prompt'
<1>1. /\ now \in Nat /\ tv \in [Dpkts -> Nat] /\ sent \in [Dpkts -> Nat] /\ sent[d] <= now
      /\ tree \in [Dpkts -> Nat] /\ packet \in [Dpkts -> Packets \cup {NoPacket}]
  BY DEF Inv, TypeOK, SentInPast
<1>2. PICK K \in Nat \ {0} : K = TicksPerMs
  BY Constants
<1>3. PICK g \in Nat, t \in Nat : g = Gap[d] /\ t = Timeout[d]
  BY Constants
<1>4. PICK G \in Nat, T \in Nat : G = g * K /\ T = t * K
  BY <1>2, <1>3
<1>5. (2 * Gap[d]) * TicksPerMs = 2 * G
  BY <1>2, <1>3, <1>4
<1>6. Over(p) \in Nat /\ p.expire \in Nat /\ Over(p) >= p.expire
  BY OverIs
<1>7. \/ tree' = [tree EXCEPT ![d] = 1] /\ packet' = [packet EXCEPT ![d] = p]
      \/ tree' = [tree EXCEPT ![d] = 0] /\ packet' = packet
  BY DoWriteDelivers, SMTT(30)
<1>8. \A e \in Dpkts \ {d} : tree'[e] = tree[e] /\ packet'[e] = packet[e]
  BY <1>1, <1>7
<1>9. \A e \in Dpkts \ {d} : tv'[e] = tv[e] /\ sent'[e] = sent[e]
  BY <1>1 DEF DoWrite, CheckDeferred, DeferBy, Forget
<1>10. ASSUME tree'[d] > 0
       PROVE  /\ packet'[d] = p /\ tv'[d] \in Nat /\ tv'[d] >= now
              /\ ~ccpacket_is_stop(p) => sent'[d] <= Over(p) /\ tv'[d] <= Over(p) + 2 * G
  <2>1. tree' = [tree EXCEPT ![d] = 1] /\ packet' = [packet EXCEPT ![d] = p]
    BY <1>1, <1>7, <1>10
  <2>2. packet'[d] = p
    BY <1>1, <2>1
  <2>3. CASE ccwriter_too_soon(d) /\ DeferBy(d, p, Gap[d], tr, keys) /\ sent' = sent
    <3>1. tv'[d] = now + G
      BY <1>2, <1>3, <1>4, <2>3 DEF DeferBy, timeval_adjust
    <3>2. now - sent[d] < G
      BY <1>1, <1>2, <1>3, <1>4, <2>3, SinceBounds DEF ccwriter_too_soon
    <3> QED
      BY <1>1, <1>6, <2>2, <2>3, <3>1, <3>2
  <2>4. CASE sent' = [sent EXCEPT ![d] = now] /\ CheckDeferred(d, p, tr, keys)
    <3>1. CASE ccpacket_is_stop(p) /\ DeferBy(d, p, Gap[d], tr, keys)
      <4>1. tv'[d] = now + G
        BY <1>2, <1>3, <1>4, <3>1 DEF DeferBy, timeval_adjust
      <4> QED
        BY <1>1, <2>2, <3>1, <4>1
    <3>2. CASE ccpacket_is_expired(p, Timeout[d]) /\ DeferBy(d, p, Timeout[d], tr, keys)
      <4>1. tv'[d] = now + T
        BY <1>2, <1>3, <1>4, <3>2 DEF DeferBy, timeval_adjust
      <4>2. now + T < p.expire
        BY <1>1, <1>2, <1>3, <1>4, <3>2, ExpiredLater
      <4>3. sent'[d] = now
        BY <1>1, <2>4
      <4> QED
        BY <1>1, <1>4, <1>6, <2>2, <4>1, <4>2, <4>3
    <3>3. CASE Forget(d, tr, keys)
      <4>1. tree' \in Removals(tr, keys, d) /\ tr \in [Dpkts -> Nat] /\ tr[d] <= 1
        BY <1>1, <3>3 DEF Forget, DeliveryInv
      <4>2. tree' = [tr EXCEPT ![d] = IF @ > 0 THEN @ - 1 ELSE 0]
        BY <4>1, RemovalsExact
      <4>3. tree'[d] = 0
        BY <4>1, <4>2
      <4> QED
        BY <1>10, <4>3
    <3> QED
      BY <2>4, <3>1, <3>2, <3>3 DEF CheckDeferred
  <2> QED
    BY <2>3, <2>4 DEF DoWrite
<1>11. MotionWaits'
  <2> SUFFICES ASSUME NEW e \in Dpkts, tree'[e] > 0, ~ccpacket_is_stop(packet'[e])
               PROVE  /\ sent'[e] <= Over(packet'[e])
                      /\ tv'[e] <= Over(packet'[e]) + (2 * Gap[e]) * TicksPerMs
    BY DEF MotionWaits, ccpacket_is_stop, Over, AtLeast
  <2>1. CASE e = d
    BY <1>5, <1>10, <2>1
  <2>2. CASE e # d
    BY <1>8, <1>9, <2>2 DEF MotionInv, MotionWaits
  <2> QED
    BY <2>1, <2>2
<1>12. Prompt'
  <2> SUFFICES ASSUME now > PromptFrom, NEW e \in Dpkts, tree'[e] > 0
               PROVE  now < tv'[e] + TicksPerMs
    BY <1>1, DeferralAssumption DEF Prompt
  <2>1. CASE e = d
    BY <1>1, <1>2, <1>10, <2>1
  <2>2. CASE e # d
    BY <1>1, <1>8, <1>9, <2>2, DeferralAssumption DEF MotionInv, Prompt
  <2> QED
    BY <2>1, <2>2
<1> QED
  BY <1>11, <1>12

LEMMA WriteEnds ==
    ASSUME ~ClockTies, Inv, DeliveryInv, MotionInv,
           NEW d \in Dpkts, NEW c \in Cmds, NEW hold \in HoldTimes, Write(d, c, hold)
    PROVE  /\ MotionInv'
           /\ \A e \in Dpkts : sent'[e] # sent[e] => now <= Over(wire'[e])
<1>1. now \in Nat /\ tv \in [Dpkts -> Nat] /\ sent \in [Dpkts -> Nat] /\ sent[d] <= now
      /\ wire \in [Dpkts -> Packets \cup {NoPacket}]
  BY DEF Inv, TypeOK, SentInPast
<1>2. PICK p : p = [cmd |-> c, expire |-> timeval_adjust(now, hold)]
  OBVIOUS
<1>3. DoWrite(d, p, tree, tv) /\ now' = now
  BY <1>2 DEF Write
<1>4. timeval_adjust(now, hold) \in Nat /\ timeval_adjust(now, hold) >= now
  BY <1>1, Constants, AdjustType
<1>5. p \in Packets /\ p.expire >= now
  BY <1>2, <1>4 DEF Packets
<1>6. Over(p) \in Nat /\ now <= Over(p)
  BY <1>1, <1>5, OverIs
<1>7. MotionInv'
  <2>1. MotionWaits' /\ Prompt'
    BY <1>1, <1>3, <1>5, <1>6, DoWriteEnds
  <2>2. HasFirst'
    BY DEF Write, Rearm, HasFirst
  <2> QED
    BY <2>1, <2>2 DEF MotionInv
<1>8. ASSUME NEW e \in Dpkts, sent'[e] # sent[e] PROVE now <= Over(wire'[e])
  <2>1. sent' = [sent EXCEPT ![d] = now] /\ wire' = [wire EXCEPT ![d] = p]
    BY <1>3, <1>8 DEF DoWrite
  <2>2. e = d
    BY <1>1, <1>8, <2>1
  <2> QED
    BY <1>1, <1>6, <2>1, <2>2
<1> QED
  BY <1>7, <1>8

\* What is popped is late by less than the two gaps and the millisecond.
LEMMA DeferNextEnds ==
    ASSUME ~ClockTies, Inv, DeliveryInv, MotionInv, DeferNext
    PROVE  /\ MotionInv'
           /\ \A e \in Dpkts : sent'[e] # sent[e] /\ ~ccpacket_is_stop(wire'[e]) =>
                 now <= Over(wire'[e]) + (2 * Gap[e] + 1) * TicksPerMs
<1>1. /\ now \in Nat /\ tv \in [Dpkts -> Nat] /\ sent \in [Dpkts -> Nat]
      /\ tree \in [Dpkts -> Nat] /\ wire \in [Dpkts -> Packets \cup {NoPacket}]
  BY DEF Inv, TypeOK
<1>2. PICK d \in Heads(tree, tv) : \E rest \in Removals(tree, tv, d) :
         DoWrite(d, packet[d], rest,
                 [tv EXCEPT ![d] = timeval_adjust(now, Timeout[d])])
  BY DEF DeferNext
<1>3. d \in Dpkts /\ packet[d] \in Packets /\ tree[d] = 1
  BY <1>1, HeadHasPacket DEF Heads, Queued, DeliveryInv
<1>4. PICK rest \in Removals(tree, tv, d) :
         DoWrite(d, packet[d], rest,
                 [tv EXCEPT ![d] = timeval_adjust(now, Timeout[d])])
  BY <1>2
<1>5. rest = [tree EXCEPT ![d] = 0]
  BY <1>1, <1>3, RemovalsExact
<1>6. PICK keys \in [Dpkts -> Nat] :
         /\ keys = [tv EXCEPT ![d] = timeval_adjust(now, Timeout[d])]
         /\ \A e \in Dpkts \ {d} : keys[e] = tv[e]
  <2>1. timeval_adjust(now, Timeout[d]) \in Nat
    BY <1>1, <1>3, Constants, AdjustType
  <2> QED
    BY <1>1, <1>3, <2>1
<1>7. PICK p \in Packets : p = packet[d]
  BY <1>3
<1>8. DoWrite(d, p, rest, keys) /\ now' = now
  BY <1>4, <1>6, <1>7 DEF DeferNext
<1>9. ~ccpacket_is_stop(p) =>
         sent[d] <= Over(p) /\ tv[d] <= Over(p) + (2 * Gap[d]) * TicksPerMs
  BY <1>3, <1>7 DEF MotionInv, MotionWaits
<1>10. MotionInv'
  <2>1. ~ccpacket_is_stop(p) => sent[d] <= Over(p)
    BY <1>9
  <2>2. MotionWaits' /\ Prompt'
    BY <1>3, <1>5, <1>6, <1>8, <2>1, DoWriteEnds
  <2>3. HasFirst'
    BY DEF DeferNext, Rearm, HasFirst
  <2> QED
    BY <2>2, <2>3 DEF MotionInv
<1>11. ASSUME NEW e \in Dpkts, sent'[e] # sent[e], ~ccpacket_is_stop(wire'[e])
       PROVE  now <= Over(wire'[e]) + (2 * Gap[e] + 1) * TicksPerMs
  <2>1. sent' = [sent EXCEPT ![d] = now] /\ wire' = [wire EXCEPT ![d] = p]
    BY <1>8, <1>11 DEF DoWrite
  <2>2. e = d
    BY <1>1, <1>11, <2>1
  <2>3. wire'[e] = p
    BY <1>1, <2>1, <2>2
  <2>4. PICK K \in Nat \ {0}, G \in Nat :
           K = TicksPerMs /\ (2 * Gap[d]) * TicksPerMs = G /\ (2 * Gap[d] + 1) * TicksPerMs = G + K
    <3>1. PICK K \in Nat \ {0}, g \in Nat : K = TicksPerMs /\ g = 2 * Gap[d]
      BY <1>3, Constants
    <3>2. g * K \in Nat /\ (g + 1) * K = g * K + K
      BY <3>1
    <3> QED
      BY <3>1, <3>2
  <2>5. Over(p) \in Nat /\ Over(p) >= PromptFrom /\ PromptFrom \in Nat
    BY <1>7, OverIs, DeferralAssumption
  <2>6. now <= PromptFrom \/ now < tv[d] + K
    BY <1>3, <2>4 DEF MotionInv, Prompt
  <2>7. tv[d] <= Over(p) + G /\ tv[d] \in Nat
    BY <1>1, <1>3, <1>9, <1>11, <2>3, <2>4
  <2>8. now <= Over(p) + (G + K)
    BY <1>1, <2>4, <2>5, <2>6, <2>7
  <2> QED
    BY <2>2, <2>3, <2>4, <2>8
<1> QED
  BY <1>10, <1>11

\* Once the loop is prompt, time does not pass while a record is due: the timer
\* is armed, by NoLostWakeup, to expire less than a millisecond late.
LEMMA TickEnds == ASSUME Inv, MotionInv, Tick PROVE MotionInv'
<1>1. /\ now \in Nat /\ tv \in [Dpkts -> Nat] /\ tree \in [Dpkts -> Nat]
      /\ itimer \in Nat \cup {Disarmed} /\ PromptFrom \in Nat /\ TicksPerMs \in Nat \ {0}
  BY Constants, DeferralAssumption DEF Inv, TypeOK
<1>2. now' = now + 1 /\ UNCHANGED <<tv, sent, packet, tree>>
  BY DEF Tick, dpktVars
<1>3. MotionWaits'
  BY <1>2 DEF MotionInv, MotionWaits, ccpacket_is_stop, Over, AtLeast
<1>4. Prompt'
  <2> SUFFICES ASSUME now + 1 > PromptFrom, NEW d \in Dpkts, tree[d] > 0
               PROVE  now + 1 < tv[d] + TicksPerMs
    BY <1>1, <1>2 DEF Prompt
  <2>1. pipe = 0 /\ (itimer = Disarmed \/ itimer > now)
    BY <1>1 DEF Tick
  <2>2. PICK h \in Heads(tree, tv) : tv[h] <= tv[d]
    BY DEF MotionInv, HasFirst, Heads, Queued
  <2>3. itimer # Disarmed /\ itimer < tv[h] + TicksPerMs
    BY <2>1, <2>2 DEF Inv, NoLostWakeup
  <2>4. h \in Dpkts
    BY <2>2 DEF Heads, Queued
  <2> QED
    BY <1>1, <2>1, <2>2, <2>3, <2>4
<1>5. HasFirst'
  BY <1>2 DEF MotionInv, HasFirst, Heads, Queued
<1> QED
  BY <1>3, <1>4, <1>5 DEF MotionInv

LEMMA NextEnds ==
    ASSUME ~ClockTies, Inv, DeliveryInv, MotionInv, [Next]_vars
    PROVE  /\ MotionInv'
           /\ \A d \in Dpkts : sent'[d] # sent[d] /\ ~ccpacket_is_stop(wire'[d]) =>
                 now <= Over(wire'[d]) + (2 * Gap[d] + 1) * TicksPerMs
<1>1. ASSUME NEW d \in Dpkts, NEW c \in Cmds, NEW hold \in HoldTimes, Write(d, c, hold)
      PROVE  /\ MotionInv'
             /\ \A e \in Dpkts : sent'[e] # sent[e] =>
                   now <= Over(wire'[e]) + (2 * Gap[e] + 1) * TicksPerMs
  <2>1. MotionInv' /\ \A e \in Dpkts : sent'[e] # sent[e] => now <= Over(wire'[e])
    BY <1>1, WriteEnds
  <2>2. ASSUME NEW e \in Dpkts, sent'[e] # sent[e]
        PROVE  now <= Over(wire'[e]) + (2 * Gap[e] + 1) * TicksPerMs
    <3>1. PICK n \in Nat : n = (2 * Gap[e] + 1) * TicksPerMs
      <4>1. PICK g \in Nat, K \in Nat : g = 2 * Gap[e] + 1 /\ K = TicksPerMs
        BY Constants
      <4>2. g * K \in Nat
        BY <4>1
      <4> QED
        BY <4>1, <4>2
    <3>2. wire'[e] \in Packets
      <4>1. e = d /\ wire'[e] = [cmd |-> c, expire |-> timeval_adjust(now, hold)]
        BY <1>1, <2>2 DEF Write, DoWrite, Inv, TypeOK
      <4>2. timeval_adjust(now, hold) \in Nat
        BY Constants, AdjustType DEF Inv, TypeOK
      <4> QED
        BY <4>1, <4>2 DEF Packets
    <3>3. Over(wire'[e]) \in Nat /\ now \in Nat
      BY <3>2, OverIs DEF Inv, TypeOK
    <3>4. now <= Over(wire'[e])
      BY <2>1, <2>2
    <3> QED
      BY <3>1, <3>3, <3>4
  <2> QED
    BY <2>1, <2>2
<1>2. CASE DeferNext
  BY <1>2, DeferNextEnds
<1>3. CASE Tick
  <2>1. MotionInv'
    BY <1>3, TickEnds
  <2> QED
    BY <1>3, <2>1 DEF Tick, dpktVars
<1>4. CASE UNCHANGED <<now, tv, sent, packet, tree, wire>>
  <2>1. MotionWaits' /\ Prompt' /\ HasFirst'
    BY <1>4 DEF MotionInv, MotionWaits, Prompt, HasFirst, Heads, Queued,
                ccpacket_is_stop, Over, AtLeast
  <2> QED
    BY <1>4, <2>1 DEF MotionInv
<1> QED
  BY <1>1, <1>2, <1>3, <1>4
     DEF Next, DeferNothing, TimerFires, AtHorizon, vars, dpktVars, history

LEMMA InitEnds == Init => MotionInv
  BY DEF Init, MotionInv, MotionWaits, Prompt, HasFirst, Queued

\* When no two records have the same time, a motion is not written later than two gap
\* times after it is over, or after the loop has caught up with the clock.
THEOREM MotionsEnd == ASSUME ~ClockTies PROVE Spec => MotionEnds
<1> DEFINE Ends == \A d \in Dpkts : sent'[d] # sent[d] /\ ~ccpacket_is_stop(wire'[d]) =>
               now <= AtLeast(wire'[d].expire, PromptFrom) + (2 * Gap[d] + 1) * TicksPerMs
<1>1. Inv /\ DeliveryInv /\ MotionInv /\ [Next]_vars => MotionInv' /\ Ends
  BY NextEnds DEF Over
<1>2. Inv /\ DeliveryInv /\ MotionInv /\ [Next]_vars => [Ends]_vars
  BY <1>1
<1> HIDE DEF Ends
<1>3. Spec => [][Ends]_vars
  BY <1>1, <1>2, InitEnds, InvAlways, DeliveryAlways, PTL DEF Spec
<1> QED
  BY <1>3 DEF MotionEnds, Ends
==============================================================================
