----------------------------- MODULE DaemonProofs -----------------------------
(****************************************************************************)
(* The timer's pipe is open whenever its handler is in place, and the watch *)
(* is gone when the poller is: theorems of Daemon, from one invariant that  *)
(* says of each point of the program what there is.  And the poller runs    *)
(* with what the lines of the file say, for any lines.                      *)
(****************************************************************************)
EXTENDS Daemon, TLAPS, FiniteSetTheorems, SequenceTheorems, WellFoundedInduction

Phases ==
    {"make_daemon", "config_init", "config_read", "pipe", "install_handler", "poller_init",
     "poller_loop", "poller_destroy", "remove_handler", "close_pipe", "config_destroy",
     "sleep", "ended", "killed"}

Polling == {"poller_loop", "poller_destroy"}

\* The handler is in place from its installation to its removal.
Handled == {"poller_init", "poller_loop", "poller_destroy", "remove_handler"}

\* The pipe is open from before that until after it.
Piped == Handled \cup {"install_handler", "close_pipe"}

FlagsInv == dryrun \in BOOLEAN /\ pipe \in BOOLEAN /\ armed \in BOOLEAN /\ lost \in BOOLEAN

TypesInv ==
    /\ watch \in Inodes \cup {0} /\ events \in 0 .. MaxQueue
    /\ path \in Inodes \cup {0} /\ data \in [Inodes -> DOMAIN Contents]
    /\ faults \in Nat /\ edits \in Nat
    /\ writing => path # 0

TimerInv ==
    /\ original = "default"
    /\ handler = IF phase \in Handled THEN "timer_handler" ELSE "default"
    /\ phase \in Piped => pipe

WatchInv == phase \notin Polling => watch = 0 /\ events = 0

\* A file that is away has been moved.
LostInv ==
    /\ path = 0 => edits > 0
    /\ lost => faults > 0 \/ edits > 0

IInv == phase \in Phases /\ FlagsInv /\ TypesInv /\ TimerInv /\ WatchInv /\ LostInv

-----------------------------------------------------------------------------
(* The initial states, and the steps of each kind.                          *)

LEMMA InitIInv == Init => IInv
<1>1. SUFFICES ASSUME Init PROVE IInv
    OBVIOUS
<1>2. PICK lines \in DOMAIN Contents :
            data = [i \in Inodes |-> IF i = path THEN lines ELSE EMPTY]
    BY <1>1 DEF Init
<1>3. EMPTY \in DOMAIN Contents
    BY DaemonAssumption DEF EMPTY
<1>4. data \in [Inodes -> DOMAIN Contents]
    BY <1>2, <1>3
<1>5. TypesInv
    BY <1>1, <1>4, DaemonAssumption DEF Init, TypesInv
<1>6. FlagsInv
    BY <1>1 DEF Init, FlagsInv
<1>7. TimerInv /\ WatchInv /\ LostInv /\ phase \in Phases
    BY <1>1, DaemonAssumption DEF Init, TimerInv, WatchInv, LostInv, Phases, Handled, Piped
<1>. QED
    BY <1>5, <1>6, <1>7 DEF IInv

\* What is TRUE or FALSE stays so.
LEMMA FlagsKept == ASSUME FlagsInv, Next PROVE FlagsInv'
<1>1. CASE Program
    BY <1>1 DEF Program, make_daemon, ConfigInit, ConfigRead, TimerPipe, timer_install_handler,
                poller_init, CheckConfig, PollFails, poller_destroy, timer_remove_handler,
                ClosePipe, config_destroy, Sleep, FlagsInv, timer
<1>2. CASE HandleEvents \/ Alarm
    BY <1>2 DEF HandleEvents, Alarm, FlagsInv, program
<1>3. CASE \/ Truncate \/ MoveAway \/ Delete
           \/ \E lines \in DOMAIN Contents : WriteSome(lines) \/ CloseWrite(lines)
           \/ \E i \in Inodes : MoveBack(i)
           \/ \E i \in Inodes, lines \in DOMAIN Contents : Replace(i, lines)
    <2>1. UNCHANGED <<dryrun, pipe, armed, lost>>
        BY <1>3 DEF Truncate, WriteSome, MoveAway, Delete, CloseWrite, MoveBack, Replace,
                    Edit, program, timer
    <2>. QED
        BY <2>1 DEF FlagsInv
<1>. QED
    BY <1>1, <1>2, <1>3 DEF Next

\* The rest of IInv.
Steady == phase \in Phases /\ TypesInv /\ TimerInv /\ WatchInv /\ LostInv

\* A call of the program before the poller's loop or after it, that the watch, its
\* events and the file have no part in.
LEMMA QuietProgram ==
    ASSUME Steady,
           \/ make_daemon \/ ConfigInit \/ ConfigRead \/ TimerPipe \/ timer_install_handler
           \/ timer_remove_handler \/ ClosePipe \/ config_destroy \/ Sleep
    PROVE  Steady'
<1>. USE DEF Steady
<1>1. /\ UNCHANGED <<watch, events, path, data, writing, lost, edits>>
      /\ faults' \in {faults, faults + 1}
    BY DEF make_daemon, ConfigInit, ConfigRead, TimerPipe, timer_install_handler,
           timer_remove_handler, ClosePipe, config_destroy, Sleep, Fails, file
<1>2. TypesInv' /\ LostInv'
    BY <1>1 DEF TypesInv, LostInv
<1>3. WatchInv' /\ phase' \in Phases
    BY <1>1 DEF make_daemon, ConfigInit, ConfigRead, TimerPipe, timer_install_handler,
           timer_remove_handler, ClosePipe, config_destroy, Sleep, At, WatchInv, Polling,
           Phases
<1>4. TimerInv'
    <2>1. CASE make_daemon
        BY <2>1 DEF make_daemon, At, TimerInv, Handled, Piped, timer
    <2>2. CASE ConfigInit
        BY <2>2 DEF ConfigInit, At, TimerInv, Handled, Piped, timer
    <2>3. CASE ConfigRead
        BY <2>3 DEF ConfigRead, At, TimerInv, Handled, Piped, timer
    <2>4. CASE TimerPipe
        BY <2>4 DEF TimerPipe, At, TimerInv, Handled, Piped
    <2>5. CASE timer_install_handler
        BY <2>5 DEF timer_install_handler, At, TimerInv, Handled, Piped
    <2>6. CASE timer_remove_handler
        BY <2>6 DEF timer_remove_handler, At, TimerInv, Handled, Piped
    <2>7. CASE ClosePipe
        BY <2>7 DEF ClosePipe, At, TimerInv, Handled, Piped
    <2>8. CASE config_destroy
        BY <2>8 DEF config_destroy, At, TimerInv, Handled, Piped, timer
    <2>9. CASE Sleep
        BY <2>9 DEF Sleep, At, TimerInv, Handled, Piped, timer
    <2>. QED
        BY <2>1, <2>2, <2>3, <2>4, <2>5, <2>6, <2>7, <2>8, <2>9
<1>. QED
    BY <1>2, <1>3, <1>4

\* The poller is made, runs and is taken down.
LEMMA PollerProgram ==
    ASSUME Steady, poller_init \/ CheckConfig \/ PollFails \/ poller_destroy \/ HandleEvents
    PROVE  Steady'
<1>. USE DEF Steady
<1>1. /\ UNCHANGED <<path, data, writing, edits>>
      /\ faults' \in {faults, faults + 1}
    BY DEF poller_init, CheckConfig, PollFails, poller_destroy, HandleEvents, Fails, file
<1>2. UNCHANGED <<handler, original, pipe>>
    BY DEF poller_init, CheckConfig, PollFails, poller_destroy, HandleEvents, timer
<1>3. CASE poller_init
    <2>1. TypesInv'
        BY <1>3, <1>1, DaemonAssumption DEF poller_init, TypesInv
    <2>2. LostInv'
        BY <1>3, <1>1 DEF poller_init, Fails, LostInv, TypesInv
    <2>3. phase' \in Phases /\ WatchInv' /\ TimerInv'
        BY <1>3, <1>2 DEF poller_init, At, TimerInv, WatchInv, Phases, Handled, Piped, Polling
    <2>. QED
        BY <2>1, <2>2, <2>3
<1>4. CASE CheckConfig
    <2>1. TypesInv'
        BY <1>4, <1>1, DaemonAssumption DEF CheckConfig, TypesInv
    <2>2. LostInv'
        BY <1>4, <1>1 DEF CheckConfig, LostInv, TypesInv
    <2>3. phase' \in Phases /\ WatchInv' /\ TimerInv'
        BY <1>4, <1>2 DEF CheckConfig, TimerInv, WatchInv, Phases, Handled, Piped, Polling
    <2>. QED
        BY <2>1, <2>2, <2>3
<1>5. CASE PollFails
    <2>1. TypesInv'
        BY <1>5, <1>1, DaemonAssumption DEF PollFails, TypesInv
    <2>2. LostInv'
        BY <1>5, <1>1 DEF PollFails, Fails, LostInv, TypesInv
    <2>3. phase' \in Phases /\ WatchInv' /\ TimerInv'
        BY <1>5, <1>2 DEF PollFails, At, TimerInv, WatchInv, Phases, Handled, Piped, Polling
    <2>. QED
        BY <2>1, <2>2, <2>3
<1>6. CASE poller_destroy
    <2>1. TypesInv'
        BY <1>6, <1>1, DaemonAssumption DEF poller_destroy, TypesInv
    <2>2. LostInv'
        BY <1>6, <1>1 DEF poller_destroy, LostInv, TypesInv
    <2>3. phase' \in Phases /\ WatchInv' /\ TimerInv'
        BY <1>6, <1>2 DEF poller_destroy, At, TimerInv, WatchInv, Phases, Handled, Piped, Polling
    <2>. QED
        BY <2>1, <2>2, <2>3
<1>7. CASE HandleEvents
    <2>1. TypesInv'
        BY <1>7, <1>1, DaemonAssumption DEF HandleEvents, TypesInv
    <2>2. LostInv'
        BY <1>7, <1>1 DEF HandleEvents, program, LostInv, TypesInv
    <2>3. phase' \in Phases /\ WatchInv' /\ TimerInv'
        BY <1>7, <1>2 DEF HandleEvents, program, TimerInv, WatchInv, Phases, Handled, Piped, Polling
    <2>. QED
        BY <2>1, <2>2, <2>3
<1>. QED
    BY <1>3, <1>4, <1>5, <1>6, <1>7

\* The timer goes off: the program is killed only without the handler.
LEMMA AlarmKeeps == ASSUME Steady, Alarm PROVE Steady'
<1>. USE DEF Steady
<1>1. TypesInv' /\ LostInv'
    BY DEF Alarm, TypesInv, LostInv, file
<1>2. phase' \in Phases /\ TimerInv' /\ WatchInv'
    BY DEF Alarm, TimerInv, WatchInv, Phases, Handled, Piped, Polling
<1>. QED
    BY <1>1, <1>2

\* The file is changed: an event is queued only for a file that is watched.
LEMMA EditKeeps ==
    ASSUME Steady,
           \/ Truncate \/ MoveAway \/ Delete
           \/ \E lines \in DOMAIN Contents : WriteSome(lines) \/ CloseWrite(lines)
           \/ \E i \in Inodes : MoveBack(i)
           \/ \E i \in Inodes, lines \in DOMAIN Contents : Replace(i, lines)
    PROVE  Steady'
<1>. USE DEF Steady
<1>1. 0 \notin Inodes /\ MaxQueue \in Nat /\ EMPTY \in DOMAIN Contents
    BY DaemonAssumption DEF EMPTY
<1>2. UNCHANGED <<phase, handler, original, pipe, lost, faults>>
    BY DEF Truncate, WriteSome, MoveAway, Delete, CloseWrite, MoveBack, Replace, Edit, program,
           timer
<1>3. edits' \in {edits, edits + 1}
    BY DEF Truncate, WriteSome, MoveAway, Delete, CloseWrite, MoveBack, Replace, Edit
<1>4. ASSUME NEW i \in Inodes, NEW event, Notify(i, event)
      PROVE  events' \in 0 .. MaxQueue /\ (watch = 0 => events' = events)
    BY <1>1, <1>4 DEF Notify, TypesInv
<1>5. /\ watch' \in {watch, 0} /\ events' \in 0 .. MaxQueue
      /\ watch = 0 => events' = events
    <2>1. CASE Truncate
        BY <2>1 DEF Truncate, TypesInv
    <2>2. CASE MoveAway
        BY <2>2, <1>4 DEF MoveAway, TypesInv
    <2>3. CASE Delete
        BY <2>3, <1>4 DEF Delete, Unlinked, TypesInv
    <2>4. CASE \E lines \in DOMAIN Contents : WriteSome(lines) \/ CloseWrite(lines)
        BY <2>4, <1>4 DEF WriteSome, CloseWrite, TypesInv
    <2>5. CASE \E i \in Inodes : MoveBack(i)
        BY <2>5, <1>4 DEF MoveBack
    <2>6. CASE \E i \in Inodes, lines \in DOMAIN Contents : Replace(i, lines)
        BY <2>6, <1>4 DEF Replace, Unlinked, TypesInv
    <2>. QED
        BY <2>1, <2>2, <2>3, <2>4, <2>5, <2>6
<1>6. /\ path' \in Inodes \cup {0} /\ data' \in [Inodes -> DOMAIN Contents]
      /\ writing' => path' # 0
      /\ path' = 0 => path = 0 \/ edits' = edits + 1
    BY <1>1 DEF TypesInv, Truncate, WriteSome, MoveAway, Delete, CloseWrite, MoveBack, Replace,
                Edit
<1>7. TypesInv'
    BY <1>3, <1>2, <1>5, <1>6 DEF TypesInv
<1>8. LostInv'
    BY <1>2, <1>3, <1>6 DEF LostInv, TypesInv
<1>9. phase' \in Phases /\ TimerInv' /\ WatchInv'
    BY <1>2, <1>5 DEF TimerInv, WatchInv
<1>. QED
    BY <1>7, <1>8, <1>9

\* The invariant holds.
LEMMA Invariance == Spec => []IInv
<1>1. IInv /\ [Next]_vars => IInv'
    <2>1. SUFFICES ASSUME IInv, [Next]_vars PROVE IInv'
        OBVIOUS
    <2>2. CASE Next
        <3>1. FlagsInv'
            BY <2>1, <2>2, FlagsKept DEF IInv
        <3>2. Steady
            BY <2>1 DEF IInv, Steady
        <3>3. Steady'
            BY <2>2, <3>2, QuietProgram, PollerProgram, AlarmKeeps, EditKeeps DEF Next, Program
        <3>. QED
            BY <3>1, <3>3 DEF IInv, Steady
    <2>3. CASE UNCHANGED vars
        BY <2>1, <2>3 DEF vars, program, timer, file, IInv, FlagsInv, TypesInv, TimerInv,
                          WatchInv, LostInv
    <2>. QED
        BY <2>1, <2>2, <2>3
<1>. QED
    BY InitIInv, <1>1, PTL DEF Spec

-----------------------------------------------------------------------------
(* The theorems.                                                            *)

\* Everything has its type; there is a watch, and what it has reported, only while
\* there is a poller, and channels are lost only when something failed or the file
\* was moved.
THEOREM TypeCorrect == Spec => []TypeOK
<1>1. ASSUME IInv PROVE TypeOK
    <2>1. dryrun \in BOOLEAN /\ pipe \in BOOLEAN /\ armed \in BOOLEAN /\ lost \in BOOLEAN
        BY <1>1 DEF IInv, FlagsInv
    <2>2. {handler, original} \subseteq {"default", "timer_handler"}
        BY <1>1 DEF IInv, TimerInv
    <2>3. /\ watch \in Inodes \cup {0} /\ events \in 0 .. MaxQueue
          /\ path \in Inodes \cup {0} /\ data \in [Inodes -> DOMAIN Contents]
          /\ phase \notin {"poller_loop", "poller_destroy"} => watch = 0 /\ events = 0
          /\ lost => faults > 0 \/ edits > 0
        BY <1>1 DEF IInv, TypesInv, WatchInv, LostInv, Polling
    <2>. QED
        BY <2>1, <2>2, <2>3 DEF TypeOK
<1>. QED
    BY <1>1, Invariance, PTL

\* Whenever the handler of the timer's signal is in place its pipe is open: the
\* handler never writes to a descriptor that was closed or given to a channel, in
\* whichever order the calls fail and the file is changed (timer_init,
\* timer_destroy).
THEOREM HandlerSafe == Spec => []HandlerHasPipe
<1>1. IInv => HandlerHasPipe
    BY DEF IInv, TimerInv, HandlerHasPipe, Handled, Piped
<1>. QED
    BY <1>1, Invariance, PTL

-----------------------------------------------------------------------------
(* Induction along the numbers up to n, and the recursion that the reading  *)
(* of the lines is.                                                         *)

LEMMA Induction ==
    ASSUME NEW n \in Nat, NEW P, 0 \in P, \A k \in 1 .. n : k - 1 \in P => k \in P
    PROVE  \A k \in 0 .. n : k \in P
<1> DEFINE bad == {k \in 0 .. n : k \notin P}
<1>1. SUFFICES ASSUME bad # {} PROVE FALSE
    OBVIOUS
<1>2. bad \subseteq Nat
    OBVIOUS
<1>3. PICK k \in bad : \A j \in bad : ~(<<j, k>> \in OpToRel(<, Nat))
    <2>. HIDE DEF bad
    <2>. QED
        BY <1>1, <1>2, NatLessThanWellFounded, WFMin
<1>4. \A j \in bad : ~(j < k)
    BY <1>2, <1>3 DEF OpToRel
<1>5. k \in 0 .. n /\ k \notin P
    BY <1>3
<1>6. k \in 1 .. n /\ k - 1 \in 0 .. n /\ k - 1 < k
    BY <1>5
<1>7. k - 1 \notin bad
    BY <1>4, <1>6
<1>. QED
    BY <1>5, <1>6, <1>7

\* The recursion from x with step[k] as its k-th step is solved by f ...
Solves(f, n, S, x, step) ==
    /\ f \in [0 .. n -> S]
    /\ \A k \in 0 .. n : f[k] = IF k = 0 THEN x ELSE step[k][f[k - 1]]

\* ... and something does solve it.
LEMMA Recursion ==
    ASSUME NEW n \in Nat, NEW S, NEW x \in S, NEW step \in [1 .. n -> [S -> S]]
    PROVE  \E f : Solves(f, n, S, x, step)
<1> DEFINE P == {m \in 0 .. n : \E f : Solves(f, m, S, x, step)}
<1>1. 0 \in P
    <2>1. Solves([k \in 0 .. 0 |-> x], 0, S, x, step)
        BY DEF Solves
    <2>. QED
        BY <2>1
<1>2. ASSUME NEW m \in 1 .. n, m - 1 \in P
      PROVE  m \in P
    <2>1. PICK g : Solves(g, m - 1, S, x, step)
        BY <1>2
    <2>2. g[m - 1] \in S /\ step[m][g[m - 1]] \in S
        BY <2>1 DEF Solves
    <2> DEFINE h == [k \in 0 .. m |-> IF k = m THEN step[m][g[m - 1]] ELSE g[k]]
    <2>3. h \in [0 .. m -> S]
        BY <2>1, <2>2 DEF Solves
    <2>4. ASSUME NEW k \in 0 .. m
          PROVE  h[k] = IF k = 0 THEN x ELSE step[k][h[k - 1]]
        <3>1. CASE k = m
            BY <3>1
        <3>2. CASE k # m
            <4>1. k \in 0 .. m - 1 /\ h[k] = g[k] /\ (k # 0 => h[k - 1] = g[k - 1])
                BY <3>2
            <4>. QED
                BY <2>1, <4>1 DEF Solves
        <3>. QED
            BY <3>1, <3>2
    <2>5. Solves(h, m, S, x, step)
        BY <2>3, <2>4 DEF Solves
    <2>. HIDE DEF h
    <2>. QED
        BY <2>5
<1>3. n \in P
    <2>. HIDE DEF P
    <2>1. \A k \in 0 .. n : k \in P
        BY <1>1, <1>2, Induction
    <2>. QED
        BY <2>1
<1>. QED
    BY <1>3

-----------------------------------------------------------------------------
(* What a configuration is.                                                 *)

Wires == {"UDP", "TCP"}

Chns == [port : Ports, flags : SUBSET (Wires \cup {"LISTEN", "RESP_REQUIRED"}),
         reader : ReadProtocols \cup {"unset", None}, links : Seq(Nat)]

Outs == [chn : Nat, n_rcv : Nat]

Cfgs == [chns : Seq(Chns), n_channels : Nat, writers : Seq(Outs)]

LEMMA ChnIs ==
    ASSUME NEW port \in Ports, NEW flags \in SUBSET (Wires \cup {"LISTEN", "RESP_REQUIRED"}),
           NEW reader \in ReadProtocols \cup {"unset", None}, NEW links \in Seq(Nat)
    PROVE  [port |-> port, flags |-> flags, reader |-> reader, links |-> links] \in Chns
BY DEF Chns

LEMMA CfgIs ==
    ASSUME NEW chns \in Seq(Chns), NEW n \in Nat, NEW writers \in Seq(Outs)
    PROVE  [chns |-> chns, n_channels |-> n, writers |-> writers] \in Cfgs
BY DEF Cfgs

\* A channel has the wires of its port, and shares the port with no channel, or with
\* one of the other direction if the port is not serial.
Apart(p, q) == p.port = q.port => ~p.port.sport /\ ("LISTEN" \in p.flags <=> "LISTEN" \notin q.flags)

ChannelsApart(cf) ==
    /\ \A c \in 1 .. Len(cf.chns) : cf.chns[c].flags \cap Wires = cf.chns[c].port.flags
    /\ \A c, e \in 1 .. Len(cf.chns) : c # e => Apart(cf.chns[c], cf.chns[e])

HasLink(chn, w) == \E i \in 1 .. Len(chn.links) : chn.links[i] = w

\* Channel c, and no other, has the link to writer w.
Owns(cf, c, w) == \A e \in 1 .. Len(cf.chns) : HasLink(cf.chns[e], w) <=> e = c

WritersOwned(cf) ==
    /\ \A w \in 1 .. Len(cf.writers) : /\ cf.writers[w].chn \in 1 .. Len(cf.chns)
                                       /\ \E c \in 1 .. Len(cf.chns) : Owns(cf, c, w)
    /\ \A c \in 1 .. Len(cf.chns) : \A w : HasLink(cf.chns[c], w) => w \in 1 .. Len(cf.writers)

Made(cf) ==
    /\ cf \in Cfgs /\ cf.n_channels = Len(cf.chns)
    /\ ChannelsApart(cf) /\ WritersOwned(cf)

\* What port p receives is sent to port q, by writer w of channel c.
Sends(cf, c, w, p, q) ==
    HasLink(cf.chns[c], w) /\ cf.chns[c].port = p /\ cf.chns[cf.writers[w].chn].port = q

IsLinked(cf, p, q) ==
    \E c \in 1 .. Len(cf.chns), w \in 1 .. Len(cf.writers) : Sends(cf, c, w, p, q)

\* Configuration g has the channels of cf, with their ports and links, and perhaps more
\* without links, and the same writers.
Extends(cf, g) ==
    /\ g.writers = cf.writers /\ Len(cf.chns) <= Len(g.chns)
    /\ \A c \in 1 .. Len(cf.chns) : /\ g.chns[c].port = cf.chns[c].port
                                    /\ g.chns[c].links = cf.chns[c].links
    /\ \A c \in Len(cf.chns) + 1 .. Len(g.chns) : g.chns[c].links = << >>

-----------------------------------------------------------------------------
(* A channel is had for a port.                                             *)

\* The port of a channel is told by what it is matched by.
LEMMA PortIs ==
    ASSUME NEW chn \in Chns, chn.flags \cap Wires = chn.port.flags,
           NEW port \in Ports, NEW dir \in SUBSET {"LISTEN"},
           channel_matches(chn, port, port.flags \cup dir)
    PROVE  /\ chn.port = port
           /\ port.sport \/ ("LISTEN" \in chn.flags <=> "LISTEN" \in dir)
<1> DEFINE PortTypes == [name : STRING, service : STRING, flags : SUBSET {"UDP", "TCP"},
                         sport : BOOLEAN]
<1>1. PICK q \in Ports : q = chn.port
    BY DEF Chns
<1>2. q \in PortTypes /\ port \in PortTypes /\ q.flags \subseteq Wires /\ port.flags \subseteq Wires
    BY DaemonAssumption DEF Wires
<1>3. q.name = port.name /\ q.service = port.service
    BY <1>1 DEF channel_matches
<1>4. q.sport = port.sport
    BY <1>3, DaemonAssumption
<1>5. chn.flags \cap channel_flags(port) = (port.flags \cup dir) \cap channel_flags(port)
    BY DEF channel_matches
<1>6. channel_flags(port) \cap Wires = Wires /\ (~port.sport => "LISTEN" \in channel_flags(port))
    BY DEF channel_flags, Wires
<1>7. "LISTEN" \notin port.flags /\ dir \cap Wires = {}
    BY <1>2 DEF Wires
<1>8. q.flags = port.flags
    BY <1>1, <1>2, <1>5, <1>6, <1>7
<1>9. q = port
    BY <1>2, <1>3, <1>4, <1>8
<1>. QED
    BY <1>1, <1>5, <1>6, <1>7, <1>9

LEMMA MaxIs ==
    ASSUME NEW n \in Nat, NEW S \in SUBSET (1 .. n), S # {}
    PROVE  Max(S) \in S
<1> DEFINE T == {n - x : x \in S}
<1>1. T \subseteq Nat /\ T # {}
    <2>1. ASSUME NEW x \in S PROVE n - x \in Nat
        OBVIOUS
    <2>. QED
        BY <2>1
<1>2. PICK y \in T : \A z \in T : ~(<<z, y>> \in OpToRel(<, Nat))
    <2>. HIDE DEF T
    <2>. QED
        BY <1>1, NatLessThanWellFounded, WFMin
<1>3. PICK x \in S : y = n - x
    BY <1>2
<1>4. ASSUME NEW z \in S PROVE x >= z
    <2>1. n - z \in T /\ n - z \in Nat /\ y \in Nat
        BY <1>1, <1>2
    <2>2. ~(n - z < y)
        BY <1>2, <2>1 DEF OpToRel
    <2>. QED
        BY <1>3, <2>2
<1>. QED
    BY <1>4 DEF Max

\* No channel is the port's, and one more is made.
Unmatched(cf, port, flags) ==
    \A c \in 1 .. Len(cf.chns) : ~channel_matches(cf.chns[c], port, flags)

Grown(cf, chn) == [cf EXCEPT !.chns = Append(@, chn), !.n_channels = @ + 1]

Flagged(flags, port, dir) == flags = port.flags \cup dir /\ dir \in SUBSET {"LISTEN"}

GrownFor(cf, g, port) ==
    /\ Made(g) /\ Extends(cf, g)
    /\ Len(g.chns) = Len(cf.chns) + 1 /\ g.chns[Len(g.chns)].port = port

LEMMA NewChannel ==
    ASSUME NEW cf, Made(cf), NEW port \in Ports, NEW dir, NEW asked, Flagged(asked, port, dir),
           NEW chn, chn = channel_init(port, asked), Unmatched(cf, port, asked),
           NEW g, g = Grown(cf, chn)
    PROVE  GrownFor(cf, g, port)
<1>0. asked = port.flags \cup dir /\ dir \in SUBSET {"LISTEN"}
    BY DEF Flagged
<1>1. PICK cs \in Seq(Chns), m \in Nat, ws \in Seq(Outs) :
            cf = [chns |-> cs, n_channels |-> m, writers |-> ws] /\ m = Len(cs)
    BY DEF Made, Cfgs
<1>2. PICK n \in Nat : n = Len(cs)
    OBVIOUS
<1>3. PICK ds : ds = Append(cs, chn)
    OBVIOUS
<1>4. g = [chns |-> ds, n_channels |-> n + 1, writers |-> ws]
    BY <1>1, <1>2, <1>3 DEF Grown
<1>5. port.flags \subseteq Wires
    BY DaemonAssumption DEF Wires
<1>6. PICK flags \in SUBSET (Wires \cup {"LISTEN", "RESP_REQUIRED"}) : flags = port.flags \cup dir
    BY <1>0, <1>5
<1>7. PICK links \in Seq(Nat) : links = << >> /\ Len(links) = 0
    BY EmptySeq
<1>8. /\ chn = [port |-> port, flags |-> flags, reader |-> None, links |-> links]
      /\ chn.port = port /\ chn.flags = flags /\ chn.links = links
    <2>1. chn = [port |-> port, flags |-> port.flags \cup dir, reader |-> None, links |-> << >>]
        BY <1>0 DEF channel_init
    <2>2. chn = [port |-> port, flags |-> flags, reader |-> None, links |-> links]
        BY <1>6, <1>7, <2>1, Zenon
    <2>. QED
        BY <2>2
<1>9. chn \in Chns
    <2>1. PICK reader \in ReadProtocols \cup {"unset", None} : reader = None
        OBVIOUS
    <2>2. chn = [port |-> port, flags |-> flags, reader |-> reader, links |-> links]
        BY <1>8, <2>1
    <2>3. [port |-> port, flags |-> flags, reader |-> reader, links |-> links] \in Chns
        BY ChnIs
    <2>. QED
        BY <2>2, <2>3
<1>10. /\ ds \in Seq(Chns) /\ Len(ds) = n + 1 /\ ds[n + 1] = chn
       /\ \A c \in 1 .. n : ds[c] = cs[c]
    <2>1. /\ ds \in Seq(Chns) /\ Len(ds) = Len(cs) + 1 /\ ds[Len(cs) + 1] = chn
          /\ \A c \in 1 .. Len(cs) : ds[c] = cs[c]
        BY <1>3, <1>9, AppendProperties
    <2>. QED
        BY <1>2, <2>1
<1>11. g \in Cfgs /\ g.chns = ds /\ g.n_channels = n + 1 /\ g.writers = ws
    <2>1. n + 1 \in Nat
        OBVIOUS
    <2>2. g \in Cfgs
        <3>1. ds \in Seq(Chns) /\ ws \in Seq(Outs)
            BY <1>10
        <3>2. [chns |-> ds, n_channels |-> n + 1, writers |-> ws] \in Cfgs
            BY <2>1, <3>1, CfgIs
        <3>. QED
            BY <1>4, <3>2
    <2>. QED
        BY <1>4, <2>2
<1>12. /\ \A c \in 1 .. n : cs[c].flags \cap Wires = cs[c].port.flags
       /\ \A c, e \in 1 .. n : c # e => Apart(cs[c], cs[e])
    BY <1>1, <1>2 DEF Made, ChannelsApart
<1>13. chn.flags \cap Wires = chn.port.flags
    BY <1>0, <1>5, <1>6, <1>8 DEF Wires
<1>14. ASSUME NEW c \in 1 .. n PROVE Apart(cs[c], chn) /\ Apart(chn, cs[c])
    <2>1. PICK q \in Chns : q = cs[c]
        BY <1>2
    <2>2. ~channel_matches(q, port, port.flags \cup dir)
        BY <1>0, <1>1, <1>2, <2>1 DEF Unmatched
    <2>3. SUFFICES ASSUME q.port = port
                   PROVE  ~port.sport /\ ("LISTEN" \in q.flags <=> "LISTEN" \notin chn.flags)
        BY <1>8, <2>1, <2>3 DEF Apart
    <2>4. q.flags \cap Wires = port.flags
        BY <1>12, <2>1, <2>3
    <2>5. q.flags \cap channel_flags(port) # (port.flags \cup dir) \cap channel_flags(port)
        BY <2>2, <2>3 DEF channel_matches
    <2>6. CASE port.sport
        <3>1. channel_flags(port) = Wires
            BY <2>6 DEF channel_flags, Wires
        <3>2. (port.flags \cup dir) \cap Wires = port.flags
            BY <1>0, <1>5 DEF Wires
        <3>. QED
            BY <2>4, <2>5, <3>1, <3>2
    <2>7. CASE ~port.sport
        <3>1. channel_flags(port) = Wires \cup {"LISTEN"}
            BY <2>7 DEF channel_flags, Wires
        <3>2. "LISTEN" \notin port.flags
            BY <1>5 DEF Wires
        <3>3. "LISTEN" \in q.flags <=> "LISTEN" \notin port.flags \cup dir
            BY <1>0, <1>5, <2>4, <2>5, <3>1
        <3>. QED
            BY <1>6, <1>8, <2>7, <3>3
    <2>. QED
        BY <2>6, <2>7
<1>15. ChannelsApart(g)
    <2>1. ASSUME NEW c \in 1 .. n + 1 PROVE ds[c].flags \cap Wires = ds[c].port.flags
        <3>1. c \in 1 .. n \/ c = n + 1
            BY <1>2
        <3>. QED
            BY <1>10, <1>12, <1>13, <3>1
    <2>2. ASSUME NEW c \in 1 .. n + 1, NEW e \in 1 .. n + 1, c # e PROVE Apart(ds[c], ds[e])
        <3>1. (c \in 1 .. n \/ c = n + 1) /\ (e \in 1 .. n \/ e = n + 1)
            BY <1>2
        <3>. QED
            BY <1>10, <1>12, <1>14, <2>2, <3>1
    <2>. QED
        BY <1>10, <1>11, <2>1, <2>2 DEF ChannelsApart
<1>16. \A w : ~HasLink(chn, w)
    BY <1>7, <1>8 DEF HasLink
<1>17. WritersOwned(g)
    <2>1. ASSUME NEW w \in 1 .. Len(ws)
          PROVE  ws[w].chn \in 1 .. n + 1 /\ \E c \in 1 .. n + 1 : Owns(g, c, w)
        <3>1. PICK c \in 1 .. n : Owns(cf, c, w) /\ ws[w].chn \in 1 .. n
            BY <1>1, <1>2, <2>1 DEF Made, WritersOwned
        <3>2. \A e \in 1 .. n : HasLink(cs[e], w) <=> e = c
            BY <1>1, <1>2, <3>1 DEF Owns
        <3>3. ASSUME NEW e \in 1 .. n + 1 PROVE HasLink(ds[e], w) <=> e = c
            <4>1. CASE e \in 1 .. n
                BY <1>10, <3>2, <4>1
            <4>2. CASE e = n + 1
                <5>1. ~HasLink(ds[e], w)
                    BY <1>10, <1>16, <4>2
                <5>2. e # c
                    BY <3>1, <4>2
                <5>. QED
                    BY <5>1, <5>2
            <4>. QED
                BY <1>2, <4>1, <4>2
        <3>4. Owns(g, c, w)
            BY <1>10, <1>11, <3>3 DEF Owns
        <3>. QED
            BY <1>2, <3>1, <3>4
    <2>2. ASSUME NEW c \in 1 .. n + 1, NEW w, HasLink(ds[c], w) PROVE w \in 1 .. Len(ws)
        <3>1. c \in 1 .. n
            <4>1. c # n + 1
                BY <1>10, <1>16, <2>2
            <4>. QED
                BY <1>2, <4>1, SMTT(30)
        <3>. QED
            BY <1>1, <1>2, <1>10, <2>2, <3>1 DEF Made, WritersOwned
    <2>. QED
        BY <1>10, <1>11, <2>1, <2>2 DEF WritersOwned
<1>18. Extends(cf, g)
    <2>1. \A c \in n + 1 .. n + 1 : ds[c].links = << >>
        BY <1>7, <1>8, <1>10
    <2>2. g.writers = cf.writers /\ Len(cf.chns) = n /\ Len(g.chns) = n + 1
        BY <1>1, <1>2, <1>10, <1>11
    <2>3. \A c \in 1 .. n : g.chns[c] = cf.chns[c]
        BY <1>1, <1>10, <1>11
    <2>4. ASSUME NEW c \in 1 .. Len(cf.chns)
          PROVE  g.chns[c].port = cf.chns[c].port /\ g.chns[c].links = cf.chns[c].links
        BY <2>2, <2>3
    <2>5. ASSUME NEW c \in Len(cf.chns) + 1 .. Len(g.chns) PROVE g.chns[c].links = << >>
        BY <1>11, <2>1, <2>2
    <2>6. Len(cf.chns) <= Len(g.chns)
        BY <2>2
    <2>. QED
        BY <2>2, <2>4, <2>5, <2>6 DEF Extends
<1>19. Made(g)
    BY <1>10, <1>11, <1>15, <1>17 DEF Made
<1>20. Len(g.chns) = Len(cf.chns) + 1 /\ g.chns[Len(g.chns)].port = port
    BY <1>1, <1>2, <1>8, <1>10, <1>11
<1>. QED
    BY <1>18, <1>19, <1>20 DEF GrownFor

\* The channel that is had is for the port, and the configuration is still well made.
Got(cf, r, port) ==
    /\ Made(r.cfg) /\ Extends(cf, r.cfg)
    /\ r.at \in 1 .. Len(r.cfg.chns) /\ r.cfg.chns[r.at].port = port

LEMMA GetChannel ==
    ASSUME NEW cf, Made(cf), NEW port \in Ports, NEW dir \in SUBSET {"LISTEN"}
    PROVE  Got(cf, config_get_channel(cf, port, dir), port)
<1>1. PICK cs \in Seq(Chns), n \in Nat : cf.chns = cs /\ n = Len(cs)
    BY DEF Made, Cfgs
<1>2. PICK flags : flags = port.flags \cup dir
    OBVIOUS
<1>3. PICK found : found = Matching(cf, port, flags)
    OBVIOUS
<1>4. found = {c \in 1 .. n : channel_matches(cs[c], port, flags)}
    BY <1>1, <1>3 DEF Matching
<1>5. CASE found # {}
    <2>1. PICK at \in found : at = Max(found)
        BY <1>4, <1>5, MaxIs
    <2>2. config_get_channel(cf, port, dir) = [cfg |-> cf, at |-> at]
        BY <1>2, <1>3, <1>5, <2>1 DEF config_get_channel
    <2>3. cs[at].port = port
        <3>1. PICK chn \in Chns : chn = cs[at]
            BY <1>1, <1>4
        <3>2. chn.flags \cap Wires = chn.port.flags
            BY <1>1, <1>4, <3>1 DEF Made, ChannelsApart
        <3>3. channel_matches(chn, port, port.flags \cup dir)
            BY <1>2, <1>4, <3>1
        <3>. QED
            BY <3>1, <3>2, <3>3, PortIs
    <2>4. Extends(cf, cf)
        BY <1>1 DEF Extends
    <2>. QED
        BY <1>1, <1>4, <2>2, <2>3, <2>4 DEF Got
<1>6. CASE found = {}
    <2>1. PICK chn : chn = channel_init(port, flags)
        OBVIOUS
    <2>2. PICK g : g = Grown(cf, chn)
        OBVIOUS
    <2>3. config_get_channel(cf, port, dir) = [cfg |-> g, at |-> n + 1]
        BY <1>1, <1>2, <1>3, <1>6, <2>1, <2>2 DEF config_get_channel, Grown
    <2>4. Unmatched(cf, port, flags)
        BY <1>1, <1>2, <1>4, <1>6 DEF Unmatched
    <2>5. Flagged(flags, port, dir)
        BY <1>2 DEF Flagged
    <2>6. GrownFor(cf, g, port)
        BY <2>1, <2>2, <2>4, <2>5, NewChannel
    <2>. QED
        BY <1>1, <2>3, <2>6 DEF Got, GrownFor
<1>. QED
    BY <1>5, <1>6

-----------------------------------------------------------------------------
(* A directive makes a reader, and a writer with its link.                  *)

\* Channel q is on the same port as p, with the same flags that tell channels apart.
SameWay(p, q) ==
    /\ q.port = p.port
    /\ q.flags \cap Wires = p.flags \cap Wires
    /\ "LISTEN" \in q.flags <=> "LISTEN" \in p.flags

SameChannels(cf, g) ==
    /\ g \in Cfgs /\ g.n_channels = cf.n_channels /\ Len(g.chns) = Len(cf.chns)
    /\ \A c \in 1 .. Len(cf.chns) : SameWay(cf.chns[c], g.chns[c])

LEMMA SameApart ==
    ASSUME NEW cf, Made(cf), NEW g, SameChannels(cf, g)
    PROVE  g \in Cfgs /\ g.n_channels = Len(g.chns) /\ ChannelsApart(g)
<1>1. /\ \A c \in 1 .. Len(cf.chns) : cf.chns[c].flags \cap Wires = cf.chns[c].port.flags
      /\ \A c, e \in 1 .. Len(cf.chns) : c # e => Apart(cf.chns[c], cf.chns[e])
    BY DEF Made, ChannelsApart
<1>2. ASSUME NEW c \in 1 .. Len(cf.chns)
      PROVE  g.chns[c].flags \cap Wires = g.chns[c].port.flags
    BY <1>1 DEF SameChannels, SameWay
<1>3. ASSUME NEW c \in 1 .. Len(cf.chns), NEW e \in 1 .. Len(cf.chns), c # e
      PROVE  Apart(g.chns[c], g.chns[e])
    <2>1. Apart(cf.chns[c], cf.chns[e])
        BY <1>1, <1>3
    <2>2. SameWay(cf.chns[c], g.chns[c]) /\ SameWay(cf.chns[e], g.chns[e])
        BY DEF SameChannels
    <2>. QED
        BY <2>1, <2>2 DEF Apart, SameWay
<1>4. Len(g.chns) = Len(cf.chns) /\ g \in Cfgs /\ g.n_channels = cf.n_channels
    BY DEF SameChannels
<1>5. ChannelsApart(g)
    BY <1>2, <1>3, <1>4 DEF ChannelsApart
<1>. QED
    BY <1>4, <1>5 DEF Made

\* Nothing is linked.
SameLinks(cf, g) ==
    /\ g.writers = cf.writers
    /\ \A c \in 1 .. Len(cf.chns) : g.chns[c].links = cf.chns[c].links

LEMMA SameMade ==
    ASSUME NEW cf, Made(cf), NEW g, SameChannels(cf, g), SameLinks(cf, g)
    PROVE  Made(g) /\ Extends(cf, g)
<1>1. g \in Cfgs /\ g.n_channels = Len(g.chns) /\ ChannelsApart(g)
    BY SameApart
<1>2. Len(g.chns) = Len(cf.chns) /\ Len(cf.chns) \in Nat
    BY DEF Made, SameChannels, Cfgs
<1>3. ASSUME NEW c \in 1 .. Len(cf.chns)
      PROVE  /\ g.chns[c].port = cf.chns[c].port /\ g.chns[c].links = cf.chns[c].links
             /\ \A w : HasLink(g.chns[c], w) <=> HasLink(cf.chns[c], w)
    BY DEF SameChannels, SameWay, SameLinks, HasLink
<1>4. \A c, w : Owns(cf, c, w) <=> Owns(g, c, w)
    BY <1>2, <1>3 DEF Owns
<1>5. WritersOwned(g)
    <2>1. WritersOwned(cf) /\ g.writers = cf.writers
        BY DEF Made, SameLinks
    <2>. QED
        BY <1>2, <1>3, <1>4, <2>1 DEF WritersOwned
<1>6. Extends(cf, g)
    BY <1>2, <1>3 DEF Extends, SameLinks
<1>. QED
    BY <1>1, <1>5, <1>6 DEF Made

\* One writer more, for channel o, to which channel i has a link.
GivesWriter(cf, g, i, o) ==
    /\ Len(g.writers) = Len(cf.writers) + 1
    /\ g.writers[Len(g.writers)].chn = o
    /\ \A w \in 1 .. Len(cf.writers) : g.writers[w] = cf.writers[w]
    /\ \A c \in 1 .. Len(cf.chns) : \A w :
          HasLink(g.chns[c], w) <=> HasLink(cf.chns[c], w) \/ (c = i /\ w = Len(g.writers))

LEMMA WriterMade ==
    ASSUME NEW cf, Made(cf), NEW i \in 1 .. Len(cf.chns), NEW o \in 1 .. Len(cf.chns),
           NEW g, SameChannels(cf, g), GivesWriter(cf, g, i, o)
    PROVE  Made(g)
<1>1. g \in Cfgs /\ g.n_channels = Len(g.chns) /\ ChannelsApart(g)
    BY SameApart
<1>2. PICK n \in Nat, m \in Nat :
            /\ n = Len(cf.chns) /\ m = Len(cf.writers)
            /\ Len(g.chns) = n /\ Len(g.writers) = m + 1
    BY DEF Made, SameChannels, Cfgs, GivesWriter
<1>3. WritersOwned(cf)
    BY DEF Made
<1>4. \A c \in 1 .. n : \A w :
          HasLink(g.chns[c], w) <=> HasLink(cf.chns[c], w) \/ (c = i /\ w = m + 1)
    BY <1>2 DEF GivesWriter
<1>5. ASSUME NEW c \in 1 .. n, NEW w, HasLink(g.chns[c], w) PROVE w \in 1 .. m + 1
    <2>1. CASE HasLink(cf.chns[c], w)
        <3>1. w \in 1 .. m
            BY <1>2, <1>3, <2>1 DEF WritersOwned
        <3>. QED
            BY <3>1
    <2>2. CASE ~HasLink(cf.chns[c], w)
        <3>1. w = m + 1
            BY <1>4, <1>5, <2>2
        <3>. QED
            BY <3>1
    <2>. QED
        BY <2>1, <2>2
<1>6. ASSUME NEW w \in 1 .. m + 1
      PROVE  g.writers[w].chn \in 1 .. n /\ \E c \in 1 .. n : Owns(g, c, w)
    <2>1. CASE w = m + 1
        <3>1. ASSUME NEW c \in 1 .. n, HasLink(cf.chns[c], m + 1) PROVE FALSE
            <4>1. m + 1 \in 1 .. m
                BY <1>2, <1>3, <3>1 DEF WritersOwned
            <4>. QED
                BY <4>1
        <3>2. Owns(g, i, w)
            <4>1. ASSUME NEW e \in 1 .. n PROVE HasLink(g.chns[e], w) <=> e = i
                <5>1. ~HasLink(cf.chns[e], w)
                    BY <2>1, <3>1
                <5>. QED
                    BY <1>4, <2>1, <5>1
            <4>. QED
                BY <1>2, <4>1 DEF Owns
        <3>3. g.writers[w].chn = o
            BY <1>2, <2>1 DEF GivesWriter
        <3>. QED
            BY <1>2, <3>2, <3>3
    <2>2. CASE w # m + 1
        <3>1. w \in 1 .. m
            BY <2>2
        <3>2. PICK c \in 1 .. n : Owns(cf, c, w) /\ cf.writers[w].chn \in 1 .. n
            BY <1>2, <1>3, <3>1 DEF WritersOwned
        <3>3. Owns(g, c, w)
            BY <1>2, <1>4, <2>2, <3>2 DEF Owns
        <3>4. g.writers[w].chn \in 1 .. n
            BY <1>2, <3>1, <3>2 DEF GivesWriter
        <3>. QED
            BY <3>3, <3>4
    <2>. QED
        BY <2>1, <2>2
<1>7. WritersOwned(g)
    BY <1>2, <1>5, <1>6 DEF WritersOwned
<1>. QED
    BY <1>1, <1>7 DEF Made

LEMMA WriterLinked ==
    ASSUME NEW cf, Made(cf), NEW i \in 1 .. Len(cf.chns), NEW o \in 1 .. Len(cf.chns),
           NEW g, SameChannels(cf, g), GivesWriter(cf, g, i, o), NEW p, NEW q
    PROVE  IsLinked(g, p, q)
               <=> IsLinked(cf, p, q) \/ (p = cf.chns[i].port /\ q = cf.chns[o].port)
<1>2. PICK n \in Nat, m \in Nat :
            /\ n = Len(cf.chns) /\ m = Len(cf.writers)
            /\ Len(g.chns) = n /\ Len(g.writers) = m + 1
    BY DEF Made, SameChannels, Cfgs, GivesWriter
<1>3. WritersOwned(cf)
    BY DEF Made
<1>4. \A c \in 1 .. n : \A w :
          HasLink(g.chns[c], w) <=> HasLink(cf.chns[c], w) \/ (c = i /\ w = m + 1)
    BY <1>2 DEF GivesWriter
<1>5. \A c \in 1 .. n : g.chns[c].port = cf.chns[c].port
    BY <1>2 DEF SameChannels, SameWay
<1>6. ASSUME NEW c \in 1 .. n, NEW w \in 1 .. m
      PROVE  Sends(g, c, w, p, q) <=> Sends(cf, c, w, p, q)
    <2>1. g.writers[w] = cf.writers[w] /\ cf.writers[w].chn \in 1 .. n
        BY <1>2, <1>3 DEF GivesWriter, WritersOwned
    <2>2. HasLink(g.chns[c], w) <=> HasLink(cf.chns[c], w)
        BY <1>4
    <2>3. g.chns[g.writers[w].chn].port = cf.chns[cf.writers[w].chn].port
        BY <1>5, <2>1
    <2>. QED
        BY <1>5, <2>2, <2>3 DEF Sends
<1>7. ASSUME NEW c \in 1 .. n
      PROVE  Sends(g, c, m + 1, p, q)
                 <=> c = i /\ p = cf.chns[i].port /\ q = cf.chns[o].port
    <2>1. ~HasLink(cf.chns[c], m + 1)
        BY <1>2, <1>3 DEF WritersOwned
    <2>2. HasLink(g.chns[c], m + 1) <=> c = i
        BY <1>4, <2>1
    <2>3. g.chns[g.writers[m + 1].chn].port = cf.chns[o].port
        BY <1>2, <1>5 DEF GivesWriter
    <2>. QED
        BY <1>5, <2>2, <2>3 DEF Sends
<1>8. IsLinked(g, p, q) <=> \E c \in 1 .. n, w \in 1 .. m + 1 : Sends(g, c, w, p, q)
    BY <1>2 DEF IsLinked
<1>9. IsLinked(cf, p, q) <=> \E c \in 1 .. n, w \in 1 .. m : Sends(cf, c, w, p, q)
    BY <1>2 DEF IsLinked
<1>10. ASSUME IsLinked(g, p, q)
       PROVE  IsLinked(cf, p, q) \/ (p = cf.chns[i].port /\ q = cf.chns[o].port)
    <2>1. PICK c \in 1 .. n, w \in 1 .. m + 1 : Sends(g, c, w, p, q)
        BY <1>8, <1>10
    <2>2. CASE w = m + 1
        BY <1>7, <2>1, <2>2
    <2>3. CASE w # m + 1
        <3>1. w \in 1 .. m
            BY <2>3
        <3>. QED
            BY <1>6, <1>9, <2>1, <3>1
    <2>. QED
        BY <2>2, <2>3
<1>11. ASSUME IsLinked(cf, p, q) PROVE IsLinked(g, p, q)
    <2>1. PICK c \in 1 .. n, w \in 1 .. m : Sends(cf, c, w, p, q)
        BY <1>9, <1>11
    <2>2. w \in 1 .. m + 1 /\ Sends(g, c, w, p, q)
        BY <1>6, <2>1
    <2>. QED
        BY <1>8, <2>2
<1>12. ASSUME p = cf.chns[i].port, q = cf.chns[o].port PROVE IsLinked(g, p, q)
    <2>1. i \in 1 .. n /\ m + 1 \in 1 .. m + 1
        BY <1>2
    <2>2. Sends(g, i, m + 1, p, q)
        BY <1>7, <1>12, <2>1
    <2>. QED
        BY <1>8, <2>1, <2>2
<1>. QED
    BY <1>10, <1>11, <1>12

\* A configuration that was extended links what it did.
LEMMA ExtendedLinked ==
    ASSUME NEW cf, Made(cf), NEW g, Made(g), Extends(cf, g), NEW p, NEW q
    PROVE  IsLinked(g, p, q) <=> IsLinked(cf, p, q)
<1>1. PICK n \in Nat, k \in Nat, m \in Nat :
            /\ n = Len(cf.chns) /\ k = Len(g.chns) /\ n <= k
            /\ m = Len(cf.writers) /\ g.writers = cf.writers
    BY DEF Made, Cfgs, Extends
<1>2. \A w \in 1 .. m : cf.writers[w].chn \in 1 .. n
    BY <1>1 DEF Made, WritersOwned
<1>3. ASSUME NEW c \in 1 .. n PROVE /\ g.chns[c].port = cf.chns[c].port
                                    /\ \A w : HasLink(g.chns[c], w) <=> HasLink(cf.chns[c], w)
    BY <1>1 DEF Extends, HasLink
<1>4. ASSUME NEW c \in n + 1 .. k, NEW w PROVE ~HasLink(g.chns[c], w)
    <2>1. g.chns[c].links = << >>
        BY <1>1 DEF Extends
    <2>. QED
        BY <2>1 DEF HasLink
<1>5. ASSUME NEW c \in 1 .. n, NEW w \in 1 .. m
      PROVE  Sends(g, c, w, p, q) <=> Sends(cf, c, w, p, q)
    <2>1. g.chns[g.writers[w].chn].port = cf.chns[cf.writers[w].chn].port
        BY <1>1, <1>2, <1>3
    <2>. QED
        BY <1>3, <2>1 DEF Sends
<1>6. ASSUME NEW c \in 1 .. k, c \notin 1 .. n, NEW w PROVE ~Sends(g, c, w, p, q)
    <2>1. c \in n + 1 .. k
        BY <1>1, <1>6
    <2>. QED
        BY <1>4, <2>1 DEF Sends
<1>7. IsLinked(g, p, q) <=> \E c \in 1 .. k, w \in 1 .. m : Sends(g, c, w, p, q)
    BY <1>1 DEF IsLinked
<1>8. IsLinked(cf, p, q) <=> \E c \in 1 .. n, w \in 1 .. m : Sends(cf, c, w, p, q)
    BY <1>1 DEF IsLinked
<1>9. \A c \in 1 .. n : c \in 1 .. k
    BY <1>1
<1>. QED
    BY <1>5, <1>6, <1>7, <1>8, <1>9

LEMMA SetReaderKeeps ==
    ASSUME NEW cf, Made(cf), NEW c \in 1 .. Len(cf.chns), NEW protocol,
           NEW g, g = SetReader(cf, c, protocol)
    PROVE  Made(g) /\ Extends(cf, g)
<1>1. PICK cs \in Seq(Chns), m \in Nat, ws \in Seq(Outs) :
            cf = [chns |-> cs, n_channels |-> m, writers |-> ws]
    BY DEF Made, Cfgs
<1>2. CASE cf.chns[c].reader = None
    <2>1. PICK x \in Chns : x = cs[c]
        BY <1>1
    <2>2. PICK reader \in ReadProtocols \cup {"unset", None} : reader = do_read(protocol)
        BY DEF do_read
    <2>3. PICK y \in Chns : y = [x EXCEPT !.reader = reader]
        BY <2>1, <2>2 DEF Chns
    <2>4. PICK ds \in Seq(Chns) : ds = [cs EXCEPT ![c] = y]
        BY <1>1, <2>3, ExceptSeq
    <2>5. g = [chns |-> ds, n_channels |-> m, writers |-> ws]
        BY <1>1, <1>2, <2>1, <2>2, <2>3, <2>4 DEF SetReader
    <2>6. Len(ds) = Len(cs) /\ \A e \in 1 .. Len(cs) : ds[e] = IF e = c THEN y ELSE cs[e]
        BY <1>1, <2>4
    <2>7. y.port = x.port /\ y.flags = x.flags /\ y.links = x.links
        BY <2>3 DEF Chns
    <2>8. g \in Cfgs
        BY <2>5, CfgIs
    <2>9. SameChannels(cf, g)
        BY <1>1, <2>1, <2>5, <2>6, <2>7, <2>8 DEF SameChannels, SameWay
    <2>10. SameLinks(cf, g)
        BY <1>1, <2>1, <2>5, <2>6, <2>7 DEF SameLinks
    <2>. QED
        BY <2>9, <2>10, SameMade
<1>3. CASE cf.chns[c].reader # None
    <2>1. g = cf
        BY <1>3 DEF SetReader
    <2>2. Len(cf.chns) \in Nat
        BY <1>1
    <2>3. Extends(cf, g)
        BY <2>1, <2>2 DEF Extends
    <2>. QED
        BY <2>1, <2>3
<1>. QED
    BY <1>2, <1>3

\* The end of a directive.
Given(cf, i, o, protocol) ==
    LET w == AddWriter(cf, o, protocol)
    IN [w EXCEPT !.chns[i].links = <<Len(w.writers)>> \o @]

LEMMA WriterGiven ==
    ASSUME NEW cf, Made(cf), NEW i \in 1 .. Len(cf.chns), NEW o \in 1 .. Len(cf.chns),
           NEW protocol, NEW g, g = Given(cf, i, o, protocol)
    PROVE  SameChannels(cf, g) /\ GivesWriter(cf, g, i, o)
<1>1. PICK cs \in Seq(Chns), m \in Nat, ws \in Seq(Outs) :
            cf = [chns |-> cs, n_channels |-> m, writers |-> ws]
    BY DEF Made, Cfgs
<1>2. PICK n \in Nat : n = Len(cs)
    BY <1>1
<1>3. PICK extra \in SUBSET {"RESP_REQUIRED"} :
            extra = IF protocol = "axis" THEN {"RESP_REQUIRED"} ELSE {}
    OBVIOUS
<1>4. PICK r \in Nat : r = n_rcv(protocol)
    <2>1. CASE protocol \in DOMAIN WriteProtocols
        BY <2>1 DEF n_rcv, WriteProtocols
    <2>2. CASE protocol \notin DOMAIN WriteProtocols
        BY <2>2 DEF n_rcv
    <2>. QED
        BY <2>1, <2>2
<1>5. PICK out \in Outs : out = [chn |-> o, n_rcv |-> r]
    <2>1. o \in Nat
        BY <1>1, <1>2
    <2>2. [chn |-> o, n_rcv |-> r] \in Outs
        BY <2>1 DEF Outs
    <2>. QED
        BY <2>2
<1>6. PICK vs : vs = Append(ws, out)
    OBVIOUS
<1>7. /\ vs \in Seq(Outs) /\ Len(vs) = Len(ws) + 1 /\ vs[Len(ws) + 1] = out
      /\ \A w \in 1 .. Len(ws) : vs[w] = ws[w]
    BY <1>6, AppendProperties
<1>8. PICK x \in Chns : x = cs[o]
    BY <1>1
<1>9. PICK flags \in SUBSET (Wires \cup {"LISTEN", "RESP_REQUIRED"}) : flags = x.flags \cup extra
    BY <1>3 DEF Chns
<1>10. PICK y \in Chns : y = [x EXCEPT !.flags = flags]
    BY <1>9 DEF Chns
<1>11. PICK ds \in Seq(Chns) : ds = [cs EXCEPT ![o] = y]
    BY <1>1, ExceptSeq
<1>12. AddWriter(cf, o, protocol) = [chns |-> ds, n_channels |-> m, writers |-> vs]
    <2>1. AddWriter(cf, o, protocol) =
              [cf EXCEPT !.writers = Append(@, out), !.chns[o].flags = @ \cup extra]
        BY <1>3, <1>4, <1>5, Zenon DEF AddWriter
    <2>2. y = [cs[o] EXCEPT !.flags = @ \cup extra]
        BY <1>8, <1>9, <1>10 DEF Chns
    <2>3. ds = [cs EXCEPT ![o] = [cs[o] EXCEPT !.flags = @ \cup extra]]
        BY <1>11, <2>2
    <2>4. [cf EXCEPT !.writers = Append(@, out), !.chns[o].flags = @ \cup extra]
              = [chns |-> [cs EXCEPT ![o] = [cs[o] EXCEPT !.flags = @ \cup extra]],
                 n_channels |-> m, writers |-> Append(ws, out)]
        <3>1. cf.chns = cs /\ cf.writers = ws
            BY <1>1
        <3>2. [cf EXCEPT !.writers = Append(@, out), !.chns[o].flags = @ \cup extra]
                  = [cf EXCEPT !.writers = vs, !.chns = ds]
            BY <1>6, <2>3, <3>1
        <3>3. [cf EXCEPT !.writers = vs, !.chns = ds]
                  = [chns |-> ds, n_channels |-> m, writers |-> vs]
            <4>1. PICK h : h = [cf EXCEPT !.writers = vs]
                OBVIOUS
            <4>2. h = [chns |-> cs, n_channels |-> m, writers |-> vs]
                BY <1>1, <4>1
            <4>3. [cf EXCEPT !.writers = vs, !.chns = ds] = [h EXCEPT !.chns = ds]
                BY <1>1, <4>1
            <4>4. [h EXCEPT !.chns = ds] = [chns |-> ds, n_channels |-> m, writers |-> vs]
                BY <4>2
            <4>. QED
                BY <4>3, <4>4
        <3>. QED
            BY <1>6, <2>3, <3>2, <3>3
    <2>. QED
        BY <1>6, <2>1, <2>3, <2>4
<1>13. Len(ds) = n /\ \A c \in 1 .. n : ds[c] = IF c = o THEN y ELSE cs[c]
    BY <1>2, <1>11
<1>14. PICK u \in Chns : u = ds[i]
    BY <1>1, <1>2, <1>13
<1>15. PICK new \in Nat : new = Len(vs) /\ new = Len(ws) + 1
    BY <1>7
<1>16. PICK links \in Seq(Nat) : links = <<new>> \o u.links
    <2>1. u.links \in Seq(Nat) /\ <<new>> \in Seq(Nat)
        BY DEF Chns
    <2>. QED
        BY <2>1, ConcatProperties
<1>17. PICK z \in Chns : z = [u EXCEPT !.links = links]
    BY DEF Chns
<1>18. PICK es \in Seq(Chns) : es = [ds EXCEPT ![i] = z]
    BY <1>1, <1>2, <1>13, ExceptSeq
<1>19. g = [chns |-> es, n_channels |-> m, writers |-> vs]
    <2>1. PICK w : w = AddWriter(cf, o, protocol)
        OBVIOUS
    <2>2. w = [chns |-> ds, n_channels |-> m, writers |-> vs]
        BY <1>12, <2>1
    <2>3. g = [w EXCEPT !.chns[i].links = <<Len(w.writers)>> \o @]
        BY <2>1 DEF Given
    <2>4. Len(w.writers) = new
        BY <1>15, <2>2
    <2>5. g = [w EXCEPT !.chns[i].links = <<new>> \o @]
        BY <2>3, <2>4
    <2>6. z = [ds[i] EXCEPT !.links = <<new>> \o @]
        BY <1>14, <1>16, <1>17 DEF Chns
    <2>7. [w EXCEPT !.chns[i].links = <<new>> \o @]
              = [chns |-> [ds EXCEPT ![i] = [ds[i] EXCEPT !.links = <<new>> \o @]],
                 n_channels |-> m, writers |-> vs]
        <3>1. w.chns = ds
            BY <2>2
        <3>2. [w EXCEPT !.chns[i].links = <<new>> \o @] = [w EXCEPT !.chns = es]
            BY <1>18, <2>6, <3>1
        <3>3. [w EXCEPT !.chns = es] = [chns |-> es, n_channels |-> m, writers |-> vs]
            BY <2>2, SMTT(30)
        <3>. QED
            BY <1>18, <2>6, <3>2, <3>3
    <2>. QED
        BY <1>18, <2>5, <2>6, <2>7
<1>20. Len(es) = n /\ \A c \in 1 .. n : es[c] = IF c = i THEN z ELSE ds[c]
    BY <1>13, <1>18
<1>21. SameWay(x, y) /\ y.links = x.links
    BY <1>3, <1>9, <1>10 DEF SameWay, Chns, Wires
<1>22. z.port = u.port /\ z.flags = u.flags /\ z.links = links
    BY <1>17 DEF Chns
<1>23. \A w : HasLink(z, w) <=> HasLink(u, w) \/ w = new
    <2>1. /\ links \in Seq(Nat) /\ Len(links) = Len(u.links) + 1 /\ links[1] = new
          /\ \A k \in 1 .. Len(u.links) : links[k + 1] = u.links[k]
        BY <1>16 DEF Chns
    <2>2. Len(u.links) \in Nat
        BY DEF Chns
    <2>3. ASSUME NEW w, HasLink(z, w) PROVE HasLink(u, w) \/ w = new
        <3>1. PICK k \in 1 .. Len(links) : links[k] = w
            BY <1>22, <2>3 DEF HasLink
        <3>2. CASE k = 1
            BY <2>1, <3>1, <3>2
        <3>3. CASE k # 1
            <4>1. PICK j \in 1 .. Len(u.links) : k = j + 1
                <5>1. k - 1 \in 1 .. Len(u.links) /\ k = (k - 1) + 1
                    BY <2>1, <2>2, <3>3
                <5>. QED
                    BY <5>1
            <4>2. u.links[j] = w
                BY <2>1, <3>1, <4>1
            <4>. QED
                BY <4>2 DEF HasLink
        <3>. QED
            BY <3>2, <3>3
    <2>4. HasLink(z, new)
        BY <1>22, <2>1, <2>2 DEF HasLink
    <2>5. ASSUME NEW w, HasLink(u, w) PROVE HasLink(z, w)
        <3>1. PICK k \in 1 .. Len(u.links) : u.links[k] = w
            BY <2>5 DEF HasLink
        <3>2. k + 1 \in 1 .. Len(links) /\ links[k + 1] = w
            <4>1. k + 1 \in 1 .. Len(links)
                BY <2>1, <2>2
            <4>2. links[k + 1] = w
                BY <2>1, <3>1
            <4>. QED
                BY <4>1, <4>2
        <3>. QED
            BY <1>22, <3>2 DEF HasLink
    <2>. QED
        BY <2>3, <2>4, <2>5
<1>24. ASSUME NEW c \in 1 .. n
       PROVE  SameWay(cs[c], es[c]) /\ \A w : HasLink(es[c], w)
                                           <=> HasLink(cs[c], w) \/ (c = i /\ w = new)
    <2>1. SameWay(cs[c], ds[c]) /\ ds[c].links = cs[c].links
        BY <1>8, <1>13, <1>21 DEF SameWay
    <2>2. \A w : HasLink(ds[c], w) <=> HasLink(cs[c], w)
        BY <2>1 DEF HasLink
    <2>3. CASE c = i
        <3>1. SameWay(ds[c], es[c])
            BY <1>14, <1>20, <1>22, <2>3 DEF SameWay
        <3>2. SameWay(cs[c], es[c])
            BY <2>1, <3>1 DEF SameWay
        <3>. QED
            BY <1>14, <1>20, <1>23, <2>2, <2>3, <3>2
    <2>4. CASE c # i
        BY <1>20, <2>1, <2>2, <2>4
    <2>. QED
        BY <2>3, <2>4
<1>25. g \in Cfgs
    BY <1>7, <1>19, CfgIs
<1>26. SameChannels(cf, g)
    <2>1. g.n_channels = cf.n_channels /\ g.chns = es /\ cf.chns = cs
        BY <1>1, <1>19
    <2>. QED
        BY <1>2, <1>20, <1>24, <1>25, <2>1 DEF SameChannels
<1>27. GivesWriter(cf, g, i, o)
    <2>1. g.chns = es /\ cf.chns = cs /\ g.writers = vs /\ cf.writers = ws
        BY <1>1, <1>19
    <2>2. vs[Len(vs)].chn = o /\ Len(vs) = new
        BY <1>5, <1>7, <1>15
    <2>. QED
        BY <1>2, <1>7, <1>24, <2>1, <2>2 DEF GivesWriter
<1>. QED
    BY <1>26, <1>27

\* A directive links its ports.
LEMMA DirectiveLinks ==
    ASSUME NEW cf, Made(cf), NEW d, d.port_in \in Ports, d.port_out \in Ports,
           NEW g, g = config_directive(cf, d)
    PROVE  Made(g) /\ \A p, q : IsLinked(g, p, q)
                                    <=> IsLinked(cf, p, q) \/ (p = d.port_in /\ q = d.port_out)
<1>1. PICK in : in = config_get_channel(cf, d.port_in, {"LISTEN"})
    OBVIOUS
<1>2. PICK h : h = SetReader(in.cfg, in.at, d.protocol_in)
    OBVIOUS
<1>3. PICK out : out = config_get_channel(h, d.port_out, {})
    OBVIOUS
<1>4. g = Given(out.cfg, in.at, out.at, d.protocol_out)
    BY <1>1, <1>2, <1>3 DEF config_directive, Given
<1>5. Got(cf, in, d.port_in)
    BY <1>1, GetChannel
<1>6. PICK i : i = in.at /\ i \in 1 .. Len(in.cfg.chns) /\ in.cfg.chns[i].port = d.port_in
    BY <1>5 DEF Got
<1>7. Made(in.cfg) /\ Extends(cf, in.cfg)
    BY <1>5 DEF Got
<1>8. Made(h) /\ Extends(in.cfg, h)
    BY <1>2, <1>6, <1>7, SetReaderKeeps
<1>9. Got(h, out, d.port_out)
    BY <1>3, <1>8, GetChannel
<1>10. PICK o : o = out.at /\ o \in 1 .. Len(out.cfg.chns) /\ out.cfg.chns[o].port = d.port_out
    BY <1>9 DEF Got
<1>11. PICK k : k = out.cfg /\ Made(k) /\ Extends(h, k)
    BY <1>9 DEF Got
<1>12. i \in 1 .. Len(k.chns) /\ k.chns[i].port = d.port_in
    <2>1. Len(in.cfg.chns) \in Nat /\ Len(h.chns) \in Nat /\ Len(k.chns) \in Nat
        BY <1>7, <1>8, <1>11 DEF Made, Cfgs
    <2>2. i \in 1 .. Len(h.chns) /\ h.chns[i].port = d.port_in
        BY <1>6, <1>8, <2>1 DEF Extends
    <2>. QED
        BY <1>11, <2>1, <2>2 DEF Extends
<1>13. o \in 1 .. Len(k.chns) /\ k.chns[o].port = d.port_out
    BY <1>10, <1>11
<1>14. g = Given(k, i, o, d.protocol_out)
    BY <1>4, <1>6, <1>10, <1>11
<1>15. SameChannels(k, g) /\ GivesWriter(k, g, i, o)
    BY <1>11, <1>12, <1>13, <1>14, WriterGiven
<1>16. Made(g)
    BY <1>11, <1>12, <1>13, <1>15, WriterMade
<1>17. ASSUME NEW p, NEW q
       PROVE  IsLinked(g, p, q) <=> IsLinked(cf, p, q) \/ (p = d.port_in /\ q = d.port_out)
    <2>1. IsLinked(g, p, q)
              <=> IsLinked(k, p, q) \/ (p = k.chns[i].port /\ q = k.chns[o].port)
        BY <1>11, <1>12, <1>13, <1>15, WriterLinked
    <2>2. IsLinked(k, p, q) <=> IsLinked(h, p, q)
        BY <1>8, <1>11, ExtendedLinked
    <2>3. IsLinked(h, p, q) <=> IsLinked(in.cfg, p, q)
        BY <1>7, <1>8, ExtendedLinked
    <2>4. IsLinked(in.cfg, p, q) <=> IsLinked(cf, p, q)
        BY <1>7, ExtendedLinked
    <2>. QED
        BY <1>12, <1>13, <2>1, <2>2, <2>3, <2>4
<1>. QED
    BY <1>16, <1>17

-----------------------------------------------------------------------------
(* The lines of a file are read.                                            *)

\* Line k asks for a link from p to q; one of the first n lines does.
AsksFor(lines, k, p, q) ==
    /\ lines[k].fields >= 5
    /\ p = lines[k].directive.port_in /\ q = lines[k].directive.port_out

AskedUpTo(lines, n, p, q) == \E k \in 1 .. n : AsksFor(lines, k, p, q)

States == {s \in [ok : BOOLEAN, cfg : Cfgs] : Made(s.cfg)}

\* The first n lines were good, and their links are the configuration's.
ReadUpTo(lines, n, s) ==
    s.ok => \A p, q : IsLinked(s.cfg, p, q) <=> AskedUpTo(lines, n, p, q)

LEMMA InitMade == Made(config_init) /\ \A p, q : ~IsLinked(config_init, p, q)
<1>1. PICK cs \in Seq(Chns), ws \in Seq(Outs) :
            cs = << >> /\ Len(cs) = 0 /\ ws = << >> /\ Len(ws) = 0
    BY EmptySeq
<1>2. config_init = [chns |-> cs, n_channels |-> 0, writers |-> ws]
    BY <1>1 DEF config_init
<1>3. config_init \in Cfgs
    BY <1>2, CfgIs
<1>4. ChannelsApart(config_init) /\ WritersOwned(config_init)
    BY <1>1, <1>2 DEF ChannelsApart, WritersOwned
<1>5. \A p, q : ~IsLinked(config_init, p, q)
    BY <1>1, <1>2 DEF IsLinked
<1>. QED
    BY <1>1, <1>2, <1>3, <1>4, <1>5 DEF Made

LEMMA GoodLine ==
    ASSUME NEW line, line.fields \in Int, line.fields >= 5, NEW s \in States, s.ok,
           NEW g, g = config_directive(s.cfg, line.directive)
    PROVE  config_scan_directive(s, line) = [ok |-> s.ok, cfg |-> g]
<1>1. PICK b \in BOOLEAN, c \in Cfgs : s = [ok |-> b, cfg |-> c]
    BY DEF States
<1>2. ~(~s.ok \/ line.fields <= 0)
    OBVIOUS
<1>3. config_scan_directive(s, line) = [s EXCEPT !.cfg = config_directive(@, line.directive)]
    BY <1>2 DEF config_scan_directive
<1>4. [s EXCEPT !.cfg = config_directive(@, line.directive)] = [s EXCEPT !.cfg = g]
    BY <1>1
<1>. QED
    BY <1>1, <1>3, <1>4

LEMMA BadLine ==
    ASSUME NEW line, line.fields \in Int, line.fields > 0, ~(line.fields >= 5),
           NEW s \in States, s.ok
    PROVE  config_scan_directive(s, line) = [ok |-> FALSE, cfg |-> s.cfg]
<1>1. PICK b \in BOOLEAN, c \in Cfgs : s = [ok |-> b, cfg |-> c]
    BY DEF States
<1>2. ~(~s.ok \/ line.fields <= 0)
    OBVIOUS
<1>3. config_scan_directive(s, line) = [s EXCEPT !.ok = FALSE]
    BY <1>2 DEF config_scan_directive
<1>. QED
    BY <1>1, <1>3

LEMMA LineKeeps ==
    ASSUME NEW line \in AllLines, NEW s \in States
    PROVE  config_scan_directive(s, line) \in States
<1>1. s.ok \in BOOLEAN /\ s.cfg \in Cfgs /\ Made(s.cfg) /\ s = [ok |-> s.ok, cfg |-> s.cfg]
    BY DEF States
<1>2. line.fields \in Int
    BY DaemonAssumption
<1>3. CASE ~s.ok \/ line.fields <= 0
    BY <1>3 DEF config_scan_directive
<1>4. CASE s.ok /\ line.fields >= 5
    <2>1. line.directive.port_in \in Ports /\ line.directive.port_out \in Ports
        BY <1>4 DEF Ports
    <2>2. PICK g : g = config_directive(s.cfg, line.directive) /\ Made(g)
        BY <1>1, <2>1, DirectiveLinks
    <2>3. config_scan_directive(s, line) = [ok |-> s.ok, cfg |-> g]
        BY <1>2, <1>4, <2>2, GoodLine
    <2>4. g \in Cfgs
        BY <2>2 DEF Made
    <2>. QED
        BY <1>1, <2>2, <2>3, <2>4 DEF States
<1>5. CASE s.ok /\ line.fields > 0 /\ ~(line.fields >= 5)
    <2>1. config_scan_directive(s, line) = [ok |-> FALSE, cfg |-> s.cfg]
        BY <1>2, <1>5, BadLine
    <2>. QED
        BY <1>1, <2>1 DEF States
<1>. QED
    BY <1>2, <1>3, <1>4, <1>5

LEMMA LineReads ==
    ASSUME NEW lines \in Seq(AllLines), NEW k \in 1 .. Len(lines), NEW s \in States,
           ReadUpTo(lines, k - 1, s), NEW t, t = config_scan_directive(s, lines[k])
    PROVE  ReadUpTo(lines, k, t)
<1>1. s.ok \in BOOLEAN /\ s.cfg \in Cfgs /\ Made(s.cfg) /\ s = [ok |-> s.ok, cfg |-> s.cfg]
    BY DEF States
<1>2. PICK line \in AllLines : line = lines[k]
    OBVIOUS
<1>3. line.fields \in Int
    BY DaemonAssumption
<1>4. \A p, q : AskedUpTo(lines, k, p, q)
                    <=> AskedUpTo(lines, k - 1, p, q) \/ AsksFor(lines, k, p, q)
    BY DEF AskedUpTo
<1>5. SUFFICES ASSUME t.ok, NEW p, NEW q
               PROVE  IsLinked(t.cfg, p, q) <=> AskedUpTo(lines, k, p, q)
    BY DEF ReadUpTo
<1>6. s.ok /\ (line.fields <= 0 \/ line.fields >= 5)
    BY <1>1, <1>2, <1>3, <1>5 DEF config_scan_directive
<1>7. IsLinked(s.cfg, p, q) <=> AskedUpTo(lines, k - 1, p, q)
    BY <1>6 DEF ReadUpTo
<1>8. CASE line.fields <= 0
    <2>1. t = s
        BY <1>2, <1>8 DEF config_scan_directive
    <2>2. ~AsksFor(lines, k, p, q)
        BY <1>2, <1>3, <1>8 DEF AsksFor
    <2>. QED
        BY <1>4, <1>7, <2>1, <2>2
<1>9. CASE line.fields >= 5
    <2>1. line.directive.port_in \in Ports /\ line.directive.port_out \in Ports
        BY <1>9 DEF Ports
    <2>2. PICK g : g = config_directive(s.cfg, line.directive)
        OBVIOUS
    <2>3. t = [ok |-> s.ok, cfg |-> g]
        BY <1>1, <1>2, <1>3, <1>6, <1>9, <2>2, GoodLine
    <2>4. IsLinked(g, p, q) <=> \/ IsLinked(s.cfg, p, q)
                                \/ p = line.directive.port_in /\ q = line.directive.port_out
        BY <1>1, <2>1, <2>2, DirectiveLinks
    <2>5. AsksFor(lines, k, p, q)
              <=> p = line.directive.port_in /\ q = line.directive.port_out
        BY <1>2, <1>9 DEF AsksFor
    <2>. QED
        BY <1>4, <1>7, <2>3, <2>4, <2>5
<1>. QED
    BY <1>6, <1>8, <1>9

\* The configurations after each line, and what is taken of the last.
ReadStates(lines, f) ==
    /\ f \in [0 .. Len(lines) -> States]
    /\ f[0] = [ok |-> TRUE, cfg |-> config_init]
    /\ \A k \in 1 .. Len(lines) : f[k] = config_scan_directive(f[k - 1], lines[k])

LEMMA ReadIs ==
    ASSUME NEW lines \in Seq(AllLines)
    PROVE  \E f, s : /\ ReadStates(lines, f) /\ s = f[Len(lines)]
                     /\ config_read(lines) = [s EXCEPT !.ok = @ /\ s.cfg.n_channels > 0]
<1> DEFINE n == Len(lines)
           S == States
           start == [ok |-> TRUE, cfg |-> config_init]
           step == [k \in 1 .. n |-> [s \in S |-> config_scan_directive(s, lines[k])]]
           F(g) == g = [k \in 0 .. n |-> IF k = 0 THEN start
                                         ELSE config_scan_directive(g[k - 1], lines[k])]
<1>1. n \in Nat /\ start \in S
    BY InitMade DEF States, Made
<1>2. \A k \in 1 .. n, s \in S : config_scan_directive(s, lines[k]) \in S
    <2>1. \A k \in 1 .. n : lines[k] \in AllLines
        OBVIOUS
    <2>. QED
        BY <2>1, LineKeeps
<1>3. step \in [1 .. n -> [S -> S]]
    BY <1>2
<1>4. PICK g : Solves(g, n, S, start, step)
    <2>. HIDE DEF step, S, n, start
    <2>. QED
        BY <1>1, <1>3, Recursion
<1>5. ASSUME NEW k \in 0 .. n
      PROVE  g[k] = IF k = 0 THEN start ELSE config_scan_directive(g[k - 1], lines[k])
    <2>1. k # 0 => k \in 1 .. n /\ k - 1 \in 0 .. n /\ g[k - 1] \in S
        BY <1>1, <1>4 DEF Solves
    <2>2. g[k] = IF k = 0 THEN start ELSE step[k][g[k - 1]]
        BY <1>4 DEF Solves
    <2>. HIDE DEF S, start
    <2>. QED
        BY <2>1, <2>2
<1>6. F(g)
    BY <1>4, <1>5 DEF Solves
<1> DEFINE f == CHOOSE h : F(h)
<1>7. F(f)
    <2>. HIDE DEF F
    <2>. QED
        BY <1>6
<1>8. f \in [0 .. n -> S] /\ f[0] = start
         /\ \A k \in 1 .. n : f[k] = config_scan_directive(f[k - 1], lines[k])
    <2>. HIDE DEF f, S, start
    <2>1. \A k \in 0 .. n : f[k] = IF k = 0 THEN start
                                   ELSE config_scan_directive(f[k - 1], lines[k])
        BY <1>7
    <2>2. f[0] = start /\ \A k \in 1 .. n : f[k] = config_scan_directive(f[k - 1], lines[k])
        BY <1>1, <2>1
    <2>3. \A k \in 0 .. n : f[k] \in S
        <3> DEFINE P == {k \in 0 .. n : f[k] \in S}
        <3>1. 0 \in P
            BY <1>1, <2>2
        <3>2. \A k \in 1 .. n : k - 1 \in P => k \in P
            BY <1>2, <2>2
        <3>3. \A k \in 0 .. n : k \in P
            <4>. HIDE DEF P
            <4>. QED
                BY <1>1, <3>1, <3>2, Induction
        <3>. QED
            BY <3>3
    <2>4. f = [k \in 0 .. n |-> f[k]]
        BY <1>7
    <2>5. f \in [0 .. n -> S]
        BY <2>3, <2>4
    <2>. QED
        BY <2>2, <2>5
<1>9. config_read(lines) = [f[n] EXCEPT !.ok = @ /\ f[n].cfg.n_channels > 0]
    BY DEF config_read
<1>10. ReadStates(lines, f)
    BY <1>8 DEF ReadStates
<1>. HIDE DEF f
<1>. QED
    BY <1>9, <1>10

\* What reading makes is well made, and if it is taken its links are those asked for.
LEMMA ReadMade ==
    ASSUME NEW lines \in Seq(AllLines), NEW r, r = config_read(lines)
    PROVE  /\ r.ok \in BOOLEAN /\ Made(r.cfg)
           /\ r.ok => \A p, q : IsLinked(r.cfg, p, q) <=> AskedUpTo(lines, Len(lines), p, q)
<1>1. PICK n \in Nat : n = Len(lines)
    OBVIOUS
<1>2. PICK f, s : /\ ReadStates(lines, f) /\ s = f[n]
                  /\ r = [s EXCEPT !.ok = @ /\ s.cfg.n_channels > 0]
    BY <1>1, ReadIs
<1>3. \A k \in 0 .. n : f[k] \in States
    BY <1>1, <1>2 DEF ReadStates
<1> DEFINE P == {k \in 0 .. n : ReadUpTo(lines, k, f[k])}
<1>4. 0 \in P
    <2>1. f[0] = [ok |-> TRUE, cfg |-> config_init]
        BY <1>2 DEF ReadStates
    <2>2. \A p, q : ~AskedUpTo(lines, 0, p, q)
        BY DEF AskedUpTo
    <2>3. ReadUpTo(lines, 0, f[0])
        BY <2>1, <2>2, InitMade DEF ReadUpTo
    <2>. QED
        BY <2>3
<1>5. ASSUME NEW k \in 1 .. n, k - 1 \in P PROVE k \in P
    <2>1. f[k] = config_scan_directive(f[k - 1], lines[k])
        BY <1>1, <1>2 DEF ReadStates
    <2>2. f[k - 1] \in States
        BY <1>3, <1>5
    <2>3. ReadUpTo(lines, k - 1, f[k - 1])
        BY <1>5
    <2>4. ReadUpTo(lines, k, f[k])
        BY <1>1, <2>1, <2>2, <2>3, LineReads
    <2>. QED
        BY <2>4
<1>6. ReadUpTo(lines, n, s)
    <2>1. \A k \in 0 .. n : k \in P
        <3>. HIDE DEF P
        <3>. QED
            BY <1>4, <1>5, Induction
    <2>. QED
        BY <1>2, <2>1
<1>7. PICK b \in BOOLEAN, c \in Cfgs : s = [ok |-> b, cfg |-> c] /\ Made(c)
    BY <1>2, <1>3 DEF States
<1>8. PICK m \in Nat : m = c.n_channels
    BY DEF Cfgs
<1>9. r = [ok |-> b /\ m > 0, cfg |-> c]
    BY <1>2, <1>7, <1>8
<1>10. r.ok = (b /\ m > 0) /\ r.cfg = c
    BY <1>9
<1>11. r.ok => \A p, q : IsLinked(c, p, q) <=> AskedUpTo(lines, n, p, q)
    BY <1>6, <1>7, <1>10 DEF ReadUpTo
<1>. QED
    BY <1>1, <1>7, <1>10, <1>11

\* What reading the file makes.
LEMMA ReadingMade ==
    ASSUME NEW l \in DOMAIN Contents, NEW r, r = Readings[l], NEW n, n = Len(Contents[l])
    PROVE  /\ r.ok \in BOOLEAN /\ Made(r.cfg)
           /\ r.ok => \A p, q : IsLinked(r.cfg, p, q) <=> AskedUpTo(Contents[l], n, p, q)
<1>1. Contents[l] \in Seq(AllLines)
    BY DaemonAssumption
<1>2. r = config_read(Contents[l])
    BY DEF Readings
<1>. QED
    BY <1>1, <1>2, ReadMade

-----------------------------------------------------------------------------
(* The program runs with what it read.                                      *)

\* What the poller was given, with the writers that the configuration keeps.
Running == [chns |-> poller.chns, n_channels |-> poller.n_channels, writers |-> cfg.writers]

Current == IF phase = "poller_loop" THEN Running ELSE cfg

\* From the reading of a file that was taken to the end of the loop.
Started == {"pipe", "install_handler", "poller_init", "poller_loop"}

RunInv ==
    /\ missed \in BOOLEAN
    /\ phase \in Started => Made(Current)
    /\ phase \in Started /\ ~missed /\ events = 0 /\ ~writing /\ Reading.ok =>
          Current = Reading.cfg

\* Nothing has happened to the file.
FileKept == UNCHANGED <<path, data, writing>>

LEMMA ReadingKept == FileKept => Reading' = Reading
BY DEF FileKept, Reading, Lines, EMPTY

\* What the file holds, and what reading it makes.
LEMMA ReadingIs ==
    ASSUME TypesInv
    PROVE  Lines \in DOMAIN Contents /\ Reading.ok \in BOOLEAN /\ Made(Reading.cfg)
<1>1. Lines \in DOMAIN Contents
    BY DaemonAssumption DEF TypesInv, Lines, EMPTY
<1>2. PICK l \in DOMAIN Contents : l = Lines
    BY <1>1
<1>3. Readings[l].ok \in BOOLEAN /\ Made(Readings[l].cfg)
    BY ReadingMade
<1>. QED
    BY <1>2, <1>3 DEF Reading

\* The program, but for what reads the file and what starts and stops the loop.
LEMMA AsideKeeps ==
    ASSUME RunInv,
           \/ make_daemon \/ ConfigInit \/ PollFails \/ poller_destroy
           \/ timer_remove_handler \/ ClosePipe \/ config_destroy \/ Sleep
    PROVE  RunInv'
<1>1. FileKept /\ missed' = missed
    BY DEF make_daemon, ConfigInit, PollFails, poller_destroy, timer_remove_handler,
           ClosePipe, config_destroy, Sleep, file, FileKept
<1>2. phase' \notin Started
    BY DEF make_daemon, ConfigInit, PollFails, poller_destroy, timer_remove_handler,
           ClosePipe, config_destroy, Sleep, At, Started
<1>. QED
    BY <1>1, <1>2 DEF RunInv, FileKept, EMPTY

LEMMA ReadingKeeps ==
    ASSUME RunInv, TypesInv, ConfigRead
    PROVE  RunInv'
<1>1. FileKept /\ missed' = FALSE /\ cfg' = Reading.cfg /\ phase' \in {"pipe", "config_destroy"}
    BY DEF ConfigRead, At, file, FileKept
<1>2. Current' = Reading.cfg
    BY <1>1 DEF Current
<1>3. Made(Current)'
    BY <1>2, ReadingIs
<1>4. Reading' = Reading
    BY <1>1, ReadingKept
<1>. QED
    BY <1>1, <1>2, <1>3, <1>4 DEF RunInv, FileKept, EMPTY

\* The program and the poller have what they had; one event may have been taken.
LEMMA CurrentKept ==
    ASSUME RunInv, FileKept, UNCHANGED <<cfg, poller, missed>>,
           phase' \in Started => phase \in Started /\ Current' = Current,
           phase' \in Started /\ Reading.ok => events' = events
    PROVE  RunInv'
<1>1. Reading' = Reading
    BY ReadingKept
<1>2. (phase \in Started => Made(Current))'
    BY DEF RunInv
<1>3. (phase \in Started /\ ~missed /\ events = 0 /\ ~writing /\ Reading.ok =>
            Current = Reading.cfg)'
    BY <1>1 DEF RunInv, FileKept
<1>. QED
    BY <1>2, <1>3 DEF RunInv, FileKept, EMPTY

LEMMA RunKept ==
    ASSUME RunInv, Steady,
           \/ TimerPipe \/ timer_install_handler \/ CheckConfig \/ HandleEvents \/ Alarm
    PROVE  RunInv'
<1>1. FileKept /\ UNCHANGED <<cfg, poller, missed>>
    BY DEF TimerPipe, timer_install_handler, CheckConfig, HandleEvents, Alarm, program, file,
           FileKept
<1>2. phase' \in Started => /\ phase \in Started
                            /\ phase' = "poller_loop" <=> phase = "poller_loop"
                            /\ Reading.ok => events' = events
    BY DEF TimerPipe, timer_install_handler, CheckConfig, HandleEvents, Alarm, At, program,
           Started
<1>3. phase' \in Started => Current' = Current
    BY <1>1, <1>2 DEF Current, Running
<1>. QED
    BY <1>1, <1>2, <1>3, CurrentKept

\* The channels are the poller's: what is lost is lost only with the loop.
LEMMA PollerKeeps ==
    ASSUME RunInv, poller_init
    PROVE  RunInv'
<1>1. FileKept /\ missed' = missed /\ events' = events
    BY DEF poller_init, file, FileKept
<1>2. phase = "poller_init" /\ phase' \in {"poller_loop", "remove_handler"}
    BY DEF poller_init, At
<1>3. CASE phase' = "remove_handler"
    BY <1>1, <1>3 DEF RunInv, FileKept, EMPTY, Started
<1>4. CASE phase' = "poller_loop"
    <2>1. poller' = [chns |-> cfg.chns, n_channels |-> cfg.n_channels] /\ cfg' = Ceded(cfg)
        BY <1>4 DEF poller_init, At
    <2>2. Made(cfg) /\ Current = cfg
        BY <1>2 DEF RunInv, Started, Current
    <2>3. PICK cs \in Seq(Chns), n \in Nat, ws \in Seq(Outs) :
                cfg = [chns |-> cs, n_channels |-> n, writers |-> ws]
        BY <2>2 DEF Made, Cfgs
    <2>4. cfg'.writers = ws
        BY <2>1, <2>3 DEF Ceded
    <2>5. Running' = [chns |-> cs, n_channels |-> n, writers |-> ws]
        BY <2>1, <2>3, <2>4 DEF Running
    <2>6. Current' = Current
        BY <1>4, <2>2, <2>3, <2>5 DEF Current
    <2>7. Reading' = Reading
        BY <1>1, ReadingKept
    <2>8. (phase \in Started => Made(Current))'
        BY <2>2, <2>6
    <2>9. phase \in Started
        BY <1>2 DEF Started
    <2>10. (phase \in Started /\ ~missed /\ events = 0 /\ ~writing /\ Reading.ok =>
                Current = Reading.cfg)'
        BY <1>1, <2>6, <2>7, <2>9 DEF RunInv, FileKept
    <2>. QED
        BY <1>1, <2>8, <2>10 DEF RunInv, FileKept, EMPTY
<1>. QED
    BY <1>2, <1>3, <1>4

\* A change of the file is reported or missed, or it is still being written.
LEMMA EditSeen ==
    ASSUME RunInv, Steady,
           \/ Truncate \/ MoveAway \/ Delete
           \/ \E lines \in DOMAIN Contents : WriteSome(lines) \/ CloseWrite(lines)
           \/ \E i \in Inodes : MoveBack(i)
           \/ \E i \in Inodes, lines \in DOMAIN Contents : Replace(i, lines)
    PROVE  RunInv'
<1>1. 0 \notin Inodes /\ MaxQueue \in Nat \ {0} /\ TypesInv /\ missed \in BOOLEAN
    BY DaemonAssumption DEF Steady, RunInv
<1>2. UNCHANGED <<phase, cfg, poller>>
    BY DEF Truncate, WriteSome, MoveAway, Delete, CloseWrite, MoveBack, Replace, Edit, program
<1>3. ASSUME NEW i \in Inodes, NEW event \in Mask, Notify(i, event)
      PROVE  missed' \in BOOLEAN /\ (missed' \/ events' > 0)
    <2>1. events \in 0 .. MaxQueue
        BY <1>1 DEF TypesInv
    <2>2. CASE i = watch
        BY <1>1, <1>3, <2>1, <2>2 DEF Notify
    <2>3. CASE i # watch
        BY <1>1, <1>3, <2>3 DEF Notify
    <2>. QED
        BY <2>2, <2>3
<1>4. {"close_write", "move_self", "ignored"} \subseteq Mask
    BY DEF Mask
<1>5. /\ missed' \in BOOLEAN
      /\ missed' \/ events' > 0 \/ writing'
    <2>1. CASE Truncate \/ \E lines \in DOMAIN Contents : WriteSome(lines)
        <3>1. missed' = missed /\ writing'
            BY <2>1 DEF Truncate, WriteSome
        <3>. QED
            BY <1>1, <3>1
    <2>2. CASE MoveAway
        <3>1. path \in Inodes /\ Notify(path, "move_self")
            BY <1>1, <2>2 DEF MoveAway, TypesInv
        <3>. QED
            BY <1>3, <1>4, <3>1
    <2>3. CASE Delete
        <3>1. path \in Inodes /\ Notify(path, "ignored")
            BY <1>1, <2>3 DEF Delete, Unlinked, TypesInv
        <3>. QED
            BY <1>3, <1>4, <3>1
    <2>4. CASE \E lines \in DOMAIN Contents : CloseWrite(lines)
        <3>1. path \in Inodes /\ Notify(path, "close_write")
            BY <1>1, <2>4 DEF CloseWrite, TypesInv
        <3>. QED
            BY <1>3, <1>4, <3>1
    <2>5. CASE \E i \in Inodes : MoveBack(i)
        <3>1. PICK i \in Inodes : MoveBack(i)
            BY <2>5
        <3>2. Notify(i, "move_self")
            BY <1>1, <3>1 DEF MoveBack, TypesInv
        <3>. QED
            BY <1>3, <1>4, <3>2
    <2>6. CASE \E i \in Inodes, lines \in DOMAIN Contents : Replace(i, lines)
        <3>1. PICK i \in Inodes, lines \in DOMAIN Contents : Replace(i, lines)
            BY <2>6
        <3>2. i # watch
            BY <3>1 DEF Replace
        <3>3. CASE path = 0
            <4>1. missed' = (missed \/ i # watch)
                BY <3>1, <3>3 DEF Replace, Notify
            <4>. QED
                BY <3>2, <4>1
        <3>4. CASE path # 0
            <4>1. path \in Inodes /\ Notify(path, "ignored")
                BY <1>1, <3>1, <3>4 DEF Replace, Unlinked, TypesInv
            <4>. QED
                BY <1>3, <1>4, <3>2, <4>1
        <3>. QED
            BY <3>3, <3>4
    <2>. QED
        BY <2>1, <2>2, <2>3, <2>4, <2>5, <2>6
<1>6. Current' = Current
    BY <1>2 DEF Current, Running
<1>7. (phase \in Started => Made(Current))'
    BY <1>2, <1>6 DEF RunInv
<1>8. (phase \in Started /\ ~missed /\ events = 0 /\ ~writing /\ Reading.ok =>
            Current = Reading.cfg)'
    BY <1>5
<1>. QED
    BY <1>5, <1>7, <1>8 DEF RunInv

LEMMA RunInvariance == Spec => []RunInv
<1>1. Init => RunInv
    BY DEF Init, RunInv, Started
<1>2. IInv /\ RunInv /\ [Next]_vars => RunInv'
    <2>1. SUFFICES ASSUME IInv, RunInv, [Next]_vars PROVE RunInv'
        OBVIOUS
    <2>2. Steady /\ TypesInv
        BY <2>1 DEF IInv, Steady
    <2>3. CASE Next
        BY <2>1, <2>2, <2>3, AsideKeeps, ReadingKeeps, RunKept, PollerKeeps, EditSeen
           DEF Next, Program
    <2>4. CASE UNCHANGED vars
        <3>1. FileKept /\ UNCHANGED <<cfg, poller, missed, phase, events>>
            BY <2>4 DEF vars, program, file, FileKept
        <3>2. Current' = Current
            BY <3>1 DEF Current, Running
        <3>. QED
            BY <2>1, <3>1, <3>2, CurrentKept
    <2>. QED
        BY <2>1, <2>3, <2>4
<1>. QED
    BY <1>1, <1>2, Invariance, PTL DEF Spec

\* The poller polls every channel it was given, a serial port on one channel and every
\* other port once in each direction; each writer has its link from one reader; and
\* the links are those of the file, for whatever lines it may hold, if it was not
\* changed since (config_directive, config_get_channel, config_cede_channels).
THEOREM ConfigurationRuns == Spec => []Configured
<1>1. ASSUME IInv, RunInv, phase = "poller_loop"
      PROVE  Configured
    <2>1. PICK cf : cf = Running /\ Made(cf) /\ cf = Current
        BY <1>1 DEF RunInv, Started, Current
    <2>2. PICK cs \in Seq(Chns), n \in Nat : cs = poller.chns /\ n = Len(cs) /\ cs = cf.chns
        BY <2>1 DEF Made, Cfgs, Running
    <2>3. PICK ws \in Seq(Outs), m \in Nat : ws = cfg.writers /\ m = Len(ws) /\ ws = cf.writers
        BY <2>1 DEF Made, Cfgs, Running
    <2>4. poller.n_channels = Len(poller.chns)
        BY <2>1, <2>2 DEF Made, Running
    <2>5. ASSUME NEW c \in 1 .. n, NEW e \in 1 .. n, c # e, cs[c].port = cs[e].port
          PROVE  ~cs[c].port.sport /\ cs[c].flags # cs[e].flags
        BY <2>1, <2>2, <2>5 DEF Made, ChannelsApart, Apart
    <2>6. ASSUME NEW c \in 1 .. n, NEW w
          PROVE  w \in Range(cs[c].links) <=> HasLink(cs[c], w)
        <3>1. PICK links \in Seq(Nat) : links = cs[c].links
            <4>1. cs[c] \in Chns
                BY <2>2
            <4>. QED
                BY <4>1 DEF Chns
        <3>. QED
            BY <3>1 DEF Range, HasLink
    <2>7. ASSUME NEW w \in 1 .. m
          PROVE  Cardinality({c \in 1 .. n : w \in Range(cs[c].links)}) = 1
        <3>1. PICK c \in 1 .. n : Owns(cf, c, w)
            BY <2>1, <2>2, <2>3 DEF Made, WritersOwned
        <3>2. \A e \in 1 .. n : w \in Range(cs[e].links) <=> e = c
            BY <2>2, <2>6, <3>1 DEF Owns
        <3>3. {e \in 1 .. n : w \in Range(cs[e].links)} = {c}
            BY <3>2
        <3>. QED
            BY <3>3, FS_Singleton
    <2>8. ASSUME events = 0, ~missed, ~writing, Reading.ok
          PROVE  Linked(poller.chns) = Asked
        <3>1. cf = Reading.cfg
            BY <1>1, <2>1, <2>8 DEF RunInv, Started
        <3>2. Lines \in DOMAIN Contents
            BY <1>1, ReadingIs DEF IInv
        <3>3. PICK lines \in Seq(AllLines), k \in Nat : lines = Contents[Lines] /\ k = Len(lines)
            BY <3>2, DaemonAssumption
        <3>4. \A p, q : IsLinked(cf, p, q) <=> AskedUpTo(lines, k, p, q)
            BY <2>8, <3>1, <3>2, <3>3, ReadingMade DEF Reading
        <3>5. ASSUME NEW x PROVE x \in Asked <=> \E p, q : x = <<p, q>> /\ AskedUpTo(lines, k, p, q)
            BY <3>3 DEF Asked, AskedUpTo, AsksFor
        <3>6. ASSUME NEW x, x \in Linked(cs)
              PROVE  \E p, q : x = <<p, q>> /\ IsLinked(cf, p, q)
            <4>1. PICK c \in 1 .. n :
                        x \in {<<cs[c].port, cs[ws[w].chn].port>> : w \in Range(cs[c].links)}
                <5>1. PICK c \in DOMAIN cs :
                            x \in {<<cs[c].port, cs[cfg.writers[w].chn].port>> :
                                      w \in Range(cs[c].links)}
                    BY <3>6 DEF Linked
                <5>2. c \in 1 .. n
                    BY <2>2
                <5>. QED
                    BY <2>3, <5>1, <5>2
            <4>2. PICK w \in Range(cs[c].links) : x = <<cs[c].port, cs[ws[w].chn].port>>
                BY <4>1
            <4>3. HasLink(cs[c], w)
                BY <2>6, <4>2
            <4>4. w \in 1 .. m
                BY <2>1, <2>2, <2>3, <4>3 DEF Made, WritersOwned
            <4>5. Sends(cf, c, w, cs[c].port, cs[ws[w].chn].port)
                BY <2>2, <2>3, <4>3 DEF Sends
            <4>. QED
                BY <2>2, <2>3, <4>2, <4>4, <4>5 DEF IsLinked
        <3>7. ASSUME NEW p, NEW q, IsLinked(cf, p, q)
              PROVE  <<p, q>> \in Linked(cs)
            <4>1. PICK c \in 1 .. n, w \in 1 .. m : Sends(cf, c, w, p, q)
                BY <2>2, <2>3, <3>7 DEF IsLinked
            <4>2. w \in Range(cs[c].links) /\ p = cs[c].port /\ q = cs[ws[w].chn].port
                BY <2>2, <2>3, <2>6, <4>1 DEF Sends
            <4>3. <<p, q>> \in {<<cs[c].port, cs[ws[v].chn].port>> : v \in Range(cs[c].links)}
                BY <4>2
            <4>. QED
                BY <2>2, <2>3, <4>3 DEF Linked
        <3>8. ASSUME NEW x PROVE x \in Linked(cs) <=> x \in Asked
            BY <3>4, <3>5, <3>6, <3>7
        <3>. QED
            BY <2>2, <3>8
    <2>9. DOMAIN poller.chns = 1 .. n /\ DOMAIN cfg.writers = 1 .. m
        BY <2>2, <2>3
    <2>10. \A c, e \in DOMAIN poller.chns :
              LET p == poller.chns[c]  q == poller.chns[e]
              IN c # e /\ p.port = q.port => ~p.port.sport /\ p.flags # q.flags
        BY <2>2, <2>5, <2>9
    <2>11. \A w \in DOMAIN cfg.writers :
              Cardinality({c \in DOMAIN poller.chns : w \in Range(poller.chns[c].links)}) = 1
        BY <2>2, <2>7, <2>9, Zenon
    <2>. QED
        BY <2>4, <2>8, <2>10, <2>11, Zenon DEF Configured
<1>2. IInv /\ RunInv => Configured
    BY <1>1 DEF Configured
<1>. QED
    BY <1>2, Invariance, RunInvariance, PTL

==============================================================================
