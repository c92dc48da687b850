-------------------------------- MODULE Poller --------------------------------
(****************************************************************************)
(* poller.c: the one loop of the program.  It registers the descriptor of   *)
(* every channel, opening those that have something to do, waits for        *)
(* events, and handles what poll reported for one channel after another,    *)
(* then the timer.  What a handler does to another channel meets a report   *)
(* that was made before.                                                    *)
(****************************************************************************)
EXTENDS Channel

CONSTANT Reloads  \* may the configuration file be changed?

ASSUME PollerAssumption == Reloads \in BOOLEAN

VARIABLES
    phase,    \* "register", "poll", "events" or "timer"
    at,       \* the channel whose turn it is, in a phase that visits them all
    pollfd,   \* pollfd[c]: the descriptor and the events registered for c
    revents,  \* revents[c]: the events reported for c
    timer     \* is the pipe of the timer readable?

vars == <<fd, sfd, tx, resp, kernel, phase, at, pollfd, revents, timer>>

NoEvents == [hup |-> FALSE, in |-> FALSE, out |-> FALSE]
NullFd   == [fd |-> 0, in |-> FALSE, out |-> FALSE]

Events  == [hup : BOOLEAN, in : BOOLEAN, out : BOOLEAN]
PollFds == [fd : 0 .. MaxFd, in : BOOLEAN, out : BOOLEAN]

Init == /\ ChannelInit
        /\ phase = "register"
        /\ at = 1
        /\ pollfd = [c \in Chans |-> NullFd]
        /\ revents = [c \in Chans |-> NoEvents]
        /\ timer = FALSE

\* Go on with the next channel, or with the next phase.
Advance(next) == IF at < NChans THEN at' = at + 1 /\ UNCHANGED phase
                                ELSE at' = 1 /\ phase' = next

\* poller_register_channel.
Register ==
    /\ phase = "register"
    /\ IF ~channel_is_open(at) /\ channel_is_waiting(at)
       THEN channel_open(at)
       ELSE UNCHANGED chnVars
    /\ pollfd' = [pollfd EXCEPT ![at] =
                    IF fd'[at] = 0 THEN NullFd
                    ELSE [fd  |-> fd'[at],
                          in  |-> at \in HasReader \/ resp'[at],
                          out |-> tx'[at] > 0 /\ ~resp'[at]]]
    /\ Advance("poll")
    /\ UNCHANGED <<revents, timer>>

\* What poll may report for c.  Nothing is asked of the null descriptor.  A
\* descriptor that is not open is reported, which no handler looks at.
Reports(c) ==
    LET p == pollfd[c]
    IN CASE p.fd = 0                       -> {NoEvents}
         [] p.fd # 0 /\ kernel[p.fd] = Free -> {NoEvents}
         [] p.fd # 0 /\ kernel[p.fd].kind = "listen" ->
               {e \in Events : ~e.hup /\ (e.in => p.in) /\ ~e.out}
         [] p.fd # 0 /\ kernel[p.fd].kind = "stream" ->
               {e \in Events : (e.in => p.in) /\ (e.out => p.out)}

Invalid(c) == pollfd[c].fd # 0 /\ kernel[pollfd[c].fd] = Free

\* poll returns since something happened on a channel ...
PollChannels ==
    /\ phase = "poll"
    /\ revents' \in {r \in [Chans -> Events] : \A c \in Chans : r[c] \in Reports(c)}
    /\ \E c \in Chans : revents'[c] # NoEvents \/ Invalid(c)
    /\ timer' \in BOOLEAN
    /\ phase' = "events"
    /\ UNCHANGED <<fd, sfd, tx, resp, kernel, at, pollfd>>

\* ... or only on the timer, or on the watched configuration file.
PollTimer ==
    /\ phase = "poll"
    /\ revents' = [c \in Chans |-> NoEvents]
    /\ timer' = TRUE
    /\ phase' = "events"
    /\ UNCHANGED <<fd, sfd, tx, resp, kernel, at, pollfd>>

\* The reading half of poller_channel_events, the transmit buffer holding n
\* and the response flag being r.
ReadEvent(n, r) ==
    \/ /\ revents[at].in
       /\ channel_read(at, n, r)
    \/ /\ ~revents[at].in
       /\ tx' = [tx EXCEPT ![at] = n]
       /\ resp' = [resp EXCEPT ![at] = r]
       /\ UNCHANGED <<fd, sfd, kernel>>

\* poller_channel_events.
ChannelEvents ==
    /\ phase = "events"
    /\ \/ revents[at].hup /\ channel_close(at, resp[at])
       \/ /\ ~revents[at].hup
          /\ revents[at].out
          /\ \/ \E n \in WriteLeaves(at) : ReadEvent(n, RespAfterWrite(at))
             \/ channel_close(at, RespAfterWrite(at))
       \/ /\ ~revents[at].hup
          /\ ~revents[at].out
          /\ ReadEvent(tx[at], resp[at])
    /\ Advance("timer")
    /\ UNCHANGED <<pollfd, revents, timer>>

\* poller_defer_events: a packet the deferral kept back is written.
DeferEvents ==
    /\ phase = "timer"
    /\ IF timer THEN \E c \in Chans : PacketsWritten({c}, tx) ELSE UNCHANGED tx
    /\ phase' = "register"
    /\ timer' = FALSE
    /\ revents' = [c \in Chans |-> NoEvents]
    /\ UNCHANGED <<fd, sfd, resp, kernel, at, pollfd>>

\* poller_check_config finds the configuration changed and valid: the poller
\* is destroyed with its channels, and run_protozoa starts anew with what the
\* file says, here the same channels.  channel_destroy closes the descriptor in
\* use; what else the kernel holds open stays open.
Reload ==
    /\ phase = "register" /\ at = 1
    /\ Reloads
    /\ kernel' = [f \in Fds |-> IF \E c \in Chans : fd[c] = f THEN Free ELSE kernel[f]]
    /\ fd' = [c \in Chans |-> 0]
    /\ sfd' = [c \in Chans |-> 0]
    /\ tx' = [c \in Chans |-> 0]
    /\ resp' = [c \in Chans |-> FALSE]
    /\ pollfd' = [c \in Chans |-> NullFd]
    /\ UNCHANGED <<phase, at, revents, timer>>

Next == Register \/ PollChannels \/ PollTimer \/ ChannelEvents \/ DeferEvents
            \/ Reload

Spec == Init /\ [][Next]_vars

\* The loop runs, and opening a channel that is tried again and again
\* succeeds in the end.
OpenSucceeds(c) == phase = "register" /\ at = c /\ OpenDone(c) /\ Register

FairSpec == /\ Spec
            /\ WF_vars(Register) /\ WF_vars(PollChannels)
            /\ WF_vars(ChannelEvents) /\ WF_vars(DeferEvents)
            /\ \A c \in Chans : SF_vars(OpenSucceeds(c))

\* The loop is woken again and again besides, as it is while some packet is
\* deferred or some other channel is busy.
WokenSpec == FairSpec /\ WF_vars(PollTimer)

-----------------------------------------------------------------------------
(* Properties.                                                              *)

\* Every variable has its type.
TypeOK ==
    /\ fd \in [Chans -> 0 .. MaxFd]
    /\ sfd \in [Chans -> 0 .. MaxFd]
    /\ tx \in [Chans -> 0 .. MaxTx]
    /\ resp \in [Chans -> BOOLEAN]
    /\ kernel \in [Fds -> {Free} \cup {Listen(c) : c \in Chans}
                               \cup {Stream(c) : c \in Chans}]
    /\ phase \in {"register", "poll", "events", "timer"}
    /\ at \in Chans
    /\ pollfd \in [Chans -> PollFds]
    /\ revents \in [Chans -> Events]
    /\ timer \in BOOLEAN

\* A channel that is open has a descriptor that is open, and its own: none is
\* used after it was closed, or shared with a channel that got its number
\* (channel_close, channel_is_open).
OpenMeansOpen ==
    \A c \in Chans : channel_is_open(c) =>
        kernel[fd[c]] # Free /\ kernel[fd[c]].owner = c

\* No descriptor of a client or a camera is leaked by opens that fail
\* half-way, clients that come and go, closes that fail, and reloads
\* (channel_open, channel_accept, channel_close, channel_destroy).
StreamsHeld ==
    \A f \in Fds : kernel[f].kind = "stream" => fd[kernel[f].owner] = f

\* channel.c says of channel_destroy: destroy the previously initialized I/O
\* channel.  No descriptor, a listening one neither, is then left over from
\* the channels there were before a reload.
NothingLeaked ==
    \A f \in Fds : kernel[f] # Free =>
        LET c == kernel[f].owner IN f \in {fd[c], sfd[c]}

\* A channel that listens goes on listening while clients come and go
\* (channel_listen_tcp, channel_close).
ListenerKept == \A c \in Chans : sfd[c] # 0 => kernel[sfd[c]] = Listen(c)

\* A channel with a reader is opened again however often opening it fails and
\* its peer goes, as long as something wakes the loop; unless in the end its port
\* is held by a listening descriptor it has itself left open
\* (poller_register_channel, channel_is_waiting).
ShutOut(c) == Bound(c) /\ ~channel_is_open(c)

OpenedAgain ==
    \A c \in HasReader : []<>channel_is_open(c) \/ <>[]ShutOut(c)

\* When the turn of a channel comes, what poll reported for it still holds,
\* whatever the handlers of the channels before it wrote to it: the descriptor
\* is the one polled, and if it is to be written there is something to write
\* (poller_channel_events, axis_do_write).
ReportsCurrent ==
    phase = "events" =>
        \A c \in Chans : c >= at /\ revents[c] # NoEvents =>
            /\ fd[c] = pollfd[c].fd
            /\ revents[c].out => tx[c] > 0 /\ ~resp[c]
==============================================================================
