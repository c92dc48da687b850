------------------------------ MODULE Deferral -------------------------------
(****************************************************************************)
(* The deferral of packets: defer.c, the timing half of ccwriter.c, and the *)
(* timer of timer.c that drives it, on the arithmetic of timeval.c.         *)
(*                                                                          *)
(* A deferred packet record (struct deferred_pkt, "dpkt") exists for every  *)
(* writer and every receiver address of that writer.  A packet is written   *)
(* at once, or put in its record and the record in a tree ordered by the    *)
(* time at which it is to be tried again; the interval timer is armed for   *)
(* the first record of the tree, and its signal handler writes a byte to a  *)
(* pipe that the poll loop waits on.                                        *)
(*                                                                          *)
(* One action is one handler of the poll loop, or the signal handler.  The  *)
(* signal handler only adds a byte to the pipe, so a signal taken inside a  *)
(* handler has the effect of one taken before or after it.  The clock is    *)
(* read several times in a handler; the readings are taken to fall in the   *)
(* same tick.  The clock is never set back.                                 *)
(****************************************************************************)
EXTENDS Timeval, FiniteSets

CONSTANTS
    Dpkts,        \* the records: one for each receiver of each writer
    Gap,          \* Gap[d]: gaptime of the record's writer (ms)
    Timeout,      \* Timeout[d]: time the writer's protocol holds a command (ms)
    Cmds,         \* the commands a packet may carry
    Stops,        \* those for which ccpacket_is_stop holds
    HoldTimes,    \* timeouts of the readers' protocols (ms)
    ClockTies,    \* may two records be given the same time, to the tick?
    Start,        \* the clock when the program starts
    PipeCap,      \* bytes the timer's pipe holds
    NoPacket,     \* no packet, in a record or a history variable
    MaxCommands,  \* bound: commands accepted in a behaviour
    LastCommand,  \* bound: the last instant at which one is accepted
    Horizon,      \* bound: the last instant of a behaviour
    PromptFrom    \* bound: from then on the poll loop keeps up with the clock

\* A packet: what it asks for, and the instant up to which that is to be held.
Packets  == [cmd : Cmds, expire : Nat]
Disarmed == -1

ASSUME DeferralAssumption ==
    /\ Gap \in [Dpkts -> Nat]
    /\ Timeout \in [Dpkts -> Nat]
    /\ Stops \subseteq Cmds
    /\ HoldTimes \subseteq Nat
    /\ ClockTies \in BOOLEAN
    /\ Start \in Nat \ {0}
    /\ PipeCap \in Nat \ {0}
    /\ NoPacket \notin Packets
    /\ MaxCommands \in Nat
    /\ LastCommand \in Nat
    /\ Horizon \in Nat
    /\ PromptFrom \in Nat

VARIABLES
    now,      \* the clock
    tv,       \* tv[d]: "time to send packet", the key of d in the tree
    sent,     \* sent[d]: "last sent time"
    packet,   \* packet[d]: the packet to be sent
    n_cnt,    \* n_cnt[d]: "number of times deferred"
    tree,     \* tree[d]: how many nodes of the tree point at d
    itimer,   \* the instant the interval timer expires, or Disarmed
    pipe,     \* bytes in the timer's pipe
    newest,   \* history: the last packet given to each record's writer
    wire,     \* history: the last packet encoded for each record
    accepted  \* history: the number of packets given to the writers

clockVars == <<now, itimer, pipe>>
dpktVars  == <<tv, sent, packet, n_cnt, tree>>
history   == <<newest, wire, accepted>>
vars      == <<now, tv, sent, packet, n_cnt, tree, itimer, pipe,
               newest, wire, accepted>>

ccpacket_is_stop(p) == p.cmd \in Stops

\* Mutant: the result of time_from_now is never negative.
BugIsExpired(p, ms) == time_from_now(now, p.expire) >= 0

ccpacket_is_expired(p, ms) == time_from_now(now, p.expire) > ms

-----------------------------------------------------------------------------
(* The tree: a bag of records sorted by time, duplicates allowed.  Of the   *)
(* records with equal times any may be found first.                         *)

Queued(tr) == {d \in Dpkts : tr[d] > 0}

\* The records cl_rbtree_peek may return.
Heads(tr, keys) ==
    {d \in Queued(tr) : \A e \in Queued(tr) : keys[d] <= keys[e]}

\* The records whose node cl_rbtree_remove may unlink when asked for d.  The
\* tree is searched by time alone.  Without ClockTies equal ticks are still
\* different microseconds, and only d itself can be found.
Found(tr, keys, d) == IF ClockTies
                      THEN {e \in Queued(tr) : keys[e] = keys[d]}
                      ELSE Queued(tr) \cap {d}

\* Mutant: a node is unlinked though none was found.
BugRemovals(tr, keys, d) == {[tr EXCEPT ![d] = @ - 1]}

\* The trees cl_rbtree_remove may leave.
Removals(tr, keys, d) ==
    IF Found(tr, keys, d) = {}
    THEN {tr}
    ELSE {[tr EXCEPT ![e] = @ - 1] : e \in Found(tr, keys, d)}

\* cl_rbtree_add.  Its failure, out of memory, is left out.
Added(tr, d) == [tr EXCEPT ![d] = @ + 1]

-----------------------------------------------------------------------------
(* The timer.                                                               *)

AtMost(n, limit) == IF n < limit THEN n ELSE limit

\* n calls of timer_arm in a row, with bytes in the pipe.  Nothing but a byte
\* in the pipe signals a time that has come; when the pipe is full, timer_arm
\* returns before it sets the timer.
timer_arm(ms, n, bytes) ==
    \/ /\ ms = 0
       /\ pipe' = AtMost(bytes + n, PipeCap)
       /\ itimer' = IF bytes < PipeCap THEN Disarmed ELSE itimer
    \/ /\ ms > 0
       /\ pipe' = bytes
       /\ itimer' = timeval_adjust(now, ms)

timer_disarm(bytes) ==
    /\ pipe' = bytes
    /\ itimer' = Disarmed

\* Mutant: a time that has come is given to the timer, which 0 disarms.
BugRearm(n, bytes) ==
    \/ Queued(tree') = {} /\ timer_disarm(bytes)
    \/ \E d \in Heads(tree', tv') :
          LET ms == time_from_now(now, tv'[d])
          IN IF ms = 0 THEN timer_disarm(bytes) ELSE timer_arm(ms, n, bytes)

\* n calls of defer_rearm in a row.
Rearm(n, bytes) ==
    \/ Queued(tree') = {} /\ timer_disarm(bytes)
    \/ \E d \in Heads(tree', tv') :
          timer_arm(time_from_now(now, tv'[d]), n, bytes)

-----------------------------------------------------------------------------
(* defer_packet, up to its defer_rearm: d is removed from the tree tr with  *)
(* the times keys, and, in the first form, put back to be sent ms later.    *)

\* Mutant: the time is adjusted without being set to now before.
BugDeferBy(d, p, ms, tr, keys) ==
    /\ tv' = [keys EXCEPT ![d] = timeval_adjust(@, ms)]
    /\ packet' = [packet EXCEPT ![d] = p]
    /\ \E rest \in Removals(tr, keys, d) : tree' = Added(rest, d)

DeferBy(d, p, ms, tr, keys) ==
    /\ tv' = [keys EXCEPT ![d] = timeval_adjust(now, ms)]
    /\ packet' = [packet EXCEPT ![d] = p]
    /\ \E rest \in Removals(tr, keys, d) : tree' = Added(rest, d)

\* Mutant: what was deferred before stays in the tree.
BugForget(d, tr, keys) ==
    /\ tv' = keys
    /\ tree' = tr
    /\ UNCHANGED packet

Forget(d, tr, keys) ==
    /\ tv' = keys
    /\ tree' \in Removals(tr, keys, d)
    /\ UNCHANGED packet

\* Mutant: the wrong one of the two times of the record.
BugTooSoon(d) == time_since(now, tv[d]) < Gap[d]

ccwriter_too_soon(d) == time_since(now, sent[d]) < Gap[d]

\* ccwriter_check_deferred.
CheckDeferred(d, p, tr, keys) ==
    \/ /\ ccpacket_is_stop(p)
       /\ n_cnt[d] < 1
       /\ DeferBy(d, p, Gap[d], tr, keys)
       /\ n_cnt' = [n_cnt EXCEPT ![d] = @ + 1]
    \/ /\ ccpacket_is_stop(p)
       /\ n_cnt[d] >= 1
       /\ n_cnt' = [n_cnt EXCEPT ![d] = 0]
       /\ Forget(d, tr, keys)
    \/ /\ ~ccpacket_is_stop(p)
       /\ ccpacket_is_expired(p, Timeout[d])
       /\ DeferBy(d, p, Timeout[d], tr, keys)
       /\ UNCHANGED n_cnt
    \/ /\ ~ccpacket_is_stop(p)
       /\ ~ccpacket_is_expired(p, Timeout[d])
       /\ Forget(d, tr, keys)
       /\ UNCHANGED n_cnt

\* ccwriter_do_write_, for a receiver in the writer's range: every protocol's
\* do_write reports such a packet as written.
DoWrite(d, p, tr, keys) ==
    \/ /\ ccwriter_too_soon(d)
       /\ DeferBy(d, p, Gap[d], tr, keys)
       /\ UNCHANGED <<sent, n_cnt, wire>>
    \/ /\ ~ccwriter_too_soon(d)
       /\ wire' = [wire EXCEPT ![d] = p]
       /\ sent' = [sent EXCEPT ![d] = now]
       /\ CheckDeferred(d, p, tr, keys)

-----------------------------------------------------------------------------
(* The actions.                                                             *)

Init ==
    /\ now = Start
    /\ tv = [d \in Dpkts |-> 0]
    /\ sent = [d \in Dpkts |-> Start]
    /\ packet = [d \in Dpkts |-> NoPacket]
    /\ n_cnt = [d \in Dpkts |-> 0]
    /\ tree = [d \in Dpkts |-> 0]
    /\ itimer = Disarmed
    /\ pipe = 0
    /\ newest = [d \in Dpkts |-> NoPacket]
    /\ wire = [d \in Dpkts |-> NoPacket]
    /\ accepted = 0

\* A reader gives the writer of d a packet it has just decoded and stamped
\* with the hold time of its own protocol.
Write(d, c, hold) ==
    /\ accepted < MaxCommands
    /\ now <= LastCommand
    /\ LET p == [cmd |-> c, expire |-> timeval_adjust(now, hold)]
       IN /\ newest' = [newest EXCEPT ![d] = p]
          /\ DoWrite(d, p, tree, tv)
    /\ Rearm(1, pipe)
    /\ accepted' = accepted + 1
    /\ UNCHANGED now

\* defer_next with a record in the tree: the first is removed and written,
\* whether or not its time has come.  The write rearms the timer, and so does
\* defer_next itself.
DeferNext ==
    /\ pipe > 0
    /\ \E d \in Heads(tree, tv) : \E rest \in Removals(tree, tv, d) :
          DoWrite(d, packet[d], rest,
                  [tv EXCEPT ![d] = timeval_adjust(now, Timeout[d])])
    /\ Rearm(2, pipe - 1)
    /\ UNCHANGED <<now, newest, accepted>>

\* defer_next with an empty tree: the byte was left by a timer whose packet
\* has been removed since.
DeferNothing ==
    /\ pipe > 0
    /\ Queued(tree) = {}
    /\ timer_disarm(pipe - 1)
    /\ UNCHANGED <<now, dpktVars, history>>

\* The interval timer expires and timer_handler writes to the pipe.  A write
\* to a full pipe fails, unnoticed.
TimerFires ==
    /\ itimer # Disarmed
    /\ itimer <= now
    /\ itimer' = Disarmed
    /\ pipe' = AtMost(pipe + 1, PipeCap)
    /\ UNCHANGED <<now, dpktVars, history>>

\* Time passes.
Tick ==
    /\ now < Horizon
    /\ now >= PromptFrom => pipe = 0 /\ (itimer = Disarmed \/ itimer > now)
    /\ now' = now + 1
    /\ UNCHANGED <<itimer, pipe, dpktVars, history>>

\* Bound: the behaviour is followed no further.
AtHorizon ==
    /\ now = Horizon
    /\ UNCHANGED vars

Next == \/ \E d \in Dpkts, c \in Cmds, hold \in HoldTimes : Write(d, c, hold)
        \/ DeferNext
        \/ DeferNothing
        \/ TimerFires
        \/ Tick
        \/ AtHorizon

Spec == Init /\ [][Next]_vars

\* The kernel delivers an expired timer, the poll loop handles a readable
\* pipe, and time goes on; nothing obliges the readers to send.
Fairness == /\ WF_vars(DeferNext \/ DeferNothing)
            /\ WF_vars(TimerFires)
            /\ WF_vars(Tick)

FairSpec == Spec /\ Fairness

-----------------------------------------------------------------------------
(* Properties.                                                              *)

\* Every variable has its type: in particular the tree never has a negative
\* count and the pipe never more bytes than it can hold.
TypeOK ==
    /\ now \in Nat
    /\ tv \in [Dpkts -> Nat]
    /\ sent \in [Dpkts -> Nat]
    /\ packet \in [Dpkts -> Packets \cup {NoPacket}]
    /\ n_cnt \in [Dpkts -> 0..1]
    /\ tree \in [Dpkts -> Nat]
    /\ itimer \in Nat \cup {Disarmed}
    /\ pipe \in 0..PipeCap
    /\ newest \in [Dpkts -> Packets \cup {NoPacket}]
    /\ wire \in [Dpkts -> Packets \cup {NoPacket}]
    /\ accepted \in Nat

\* No wake-up is lost: while a packet waits in the tree, either a byte in the
\* pipe wakes the poll loop or the timer is armed to expire less than one
\* millisecond after the time of the first packet, across every order of
\* arrivals, pops, signals and stale bytes (defer_rearm, timer_arm).
NoLostWakeup ==
    \A d \in Heads(tree, tv) :
        \/ pipe > 0
        \/ itimer # Disarmed /\ itimer < tv[d] + TicksPerMs

\* However often a waiting packet is superseded or popped too early, it is
\* never put off for longer than two gap times, or one protocol timeout, after
\* the last write to its receiver, plus the millisecond lost to rounding
\* (ccwriter_too_soon, defer_packet).
LongestWait(d) == IF 2 * Gap[d] < Timeout[d] THEN Timeout[d] ELSE 2 * Gap[d]

DeferralBounded ==
    \A d \in Queued(tree) :
        tv[d] < sent[d] + (LongestWait(d) + 1) * TicksPerMs

\* The deferral implements the mailbox: what waits for a receiver is the
\* newest command for it, what is written is the newest command, and a command
\* that does not wait has been written (defer_packet, ccwriter_check_deferred).
MB == INSTANCE Mailbox WITH
        Boxes <- Dpkts, Commands <- Packets, NoCommand <- NoPacket,
        newest <- newest, delivered <- wire, waiting <- Queued(tree)

MailboxSpec == MB!Spec

\* Two packets for the same receiver of a writer are more than the gap time
\* less one millisecond apart (ccwriter_too_soon, time_since).
GapKept ==
    [][\A d \in Dpkts : sent'[d] # sent[d] \/ wire'[d] # wire[d] =>
           now - sent[d] > (Gap[d] - 1) * TicksPerMs]_vars

AtLeast(n, limit) == IF n < limit THEN limit ELSE n

\* A motion is not written later than two gap times after its expiration, or
\* after the poll loop has caught up with the clock, however often it is
\* repeated, superseded, or popped too early (ccpacket_is_expired, defer_next).
MotionEnds ==
    [][\A d \in Dpkts : sent'[d] # sent[d] /\ ~ccpacket_is_stop(wire'[d]) =>
           now <= AtLeast(wire'[d].expire, PromptFrom) + (2 * Gap[d] + 1) * TicksPerMs]_vars

\* Once the readers are silent the tree drains: every command accepted last
\* has been written, and no packet is repeated for ever.
Drained == \A d \in Dpkts : tree[d] = 0 /\ wire[d] = newest[d]
EventuallyDrained == <>[]Drained

-----------------------------------------------------------------------------
(* What a comment of the source says, which holds when no two records have  *)
(* equal times.                                                             *)

\* rbtree.c says of cl_rbtree_remove that it removes the specified item.  If
\* it does, a command that does not wait any more has been written, even when
\* two records have the same time.
NoCommandLost ==
    \A d \in Dpkts : tree[d] = 0 => wire[d] = newest[d]
==============================================================================
