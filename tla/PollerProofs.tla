----------------------------- MODULE PollerProofs -----------------------------
(****************************************************************************)
(* The channels and the kernel agree on every descriptor, however many      *)
(* channels there are and whatever they are for, when accept reports no     *)
(* error and the process may have more than two descriptors for each        *)
(* channel.  What the poller was told of a channel holds until its turn.    *)
(****************************************************************************)
EXTENDS Poller, FiniteSetTheorems, WellFoundedInduction, TLAPS

Descriptors == {Free} \cup {Listen(c) : c \in Chans} \cup {Stream(c) : c \in Chans}

ChannelTypes ==
    /\ fd \in [Chans -> 0 .. MaxFd]
    /\ sfd \in [Chans -> 0 .. MaxFd]
    /\ tx \in [Chans -> 0 .. MaxTx]
    /\ resp \in [Chans -> BOOLEAN]
    /\ kernel \in [Fds -> Descriptors]

LoopTypes ==
    /\ phase \in {"register", "poll", "events", "timer"}
    /\ at \in Chans
    /\ pollfd \in [Chans -> PollFds]
    /\ revents \in [Chans -> Events]
    /\ timer \in BOOLEAN

\* A port is bound by no more than one descriptor.
BoundOnce ==
    \A f, g \in Fds :
        kernel[f].kind = "listen" /\ kernel[g].kind = "listen"
        /\ kernel[f].owner = kernel[g].owner => f = g

\* What the channels say of the kernel's table, and the table of the channels.
ChannelsInv == ChannelTypes /\ OpenMeansOpen /\ StreamsHeld /\ ListenerKept /\ BoundOnce

\* What was registered for c is so.
Registered(c) ==
    /\ pollfd[c].fd = fd[c]
    /\ pollfd[c].out => tx[c] > 0 /\ ~resp[c]

\* What was reported for c is so, and could be reported for what it has open.
Reported(c) ==
    revents[c] # NoEvents =>
        /\ fd[c] # 0 /\ pollfd[c].fd = fd[c]
        /\ revents[c].out => tx[c] > 0 /\ ~resp[c]
        /\ kernel[fd[c]].kind = "listen" => ~revents[c].hup /\ ~revents[c].out

\* How far the loop has come.
LoopInv ==
    /\ phase = "register" => \A c \in Chans : c < at => Registered(c)
    /\ phase = "poll"     => at = 1 /\ \A c \in Chans : Registered(c)
    /\ phase = "events"   => \A c \in Chans : c >= at => Reported(c)
    /\ phase = "timer"    => at = 1

IInv == ChannelsInv /\ LoopTypes /\ LoopInv

-----------------------------------------------------------------------------
(* The kernel's table.                                                      *)

\* Of descriptors only their kinds and owners matter.
LEMMA Kinds ==
    /\ Free.kind = "free" /\ Free.owner = 0
    /\ \A c : /\ Listen(c).kind = "listen" /\ Listen(c).owner = c
              /\ Stream(c).kind = "stream" /\ Stream(c).owner = c
              /\ Listen(c) # Free /\ Stream(c) # Free
    /\ \A c, d : Listen(c) # Stream(d)
<1>1. Free.kind = "free" /\ Free.owner = 0
    BY DEF Free
<1>2. ASSUME NEW c
      PROVE  /\ Listen(c).kind = "listen" /\ Listen(c).owner = c
             /\ Stream(c).kind = "stream" /\ Stream(c).owner = c
    BY DEF Listen, Stream
<1>. QED
    BY <1>1, <1>2

\* What a descriptor is open on.
LEMMA Entries ==
    ASSUME ChannelTypes, NEW f \in Fds
    PROVE  \/ kernel[f] = Free
           \/ kernel[f].owner \in Chans /\ kernel[f] = Listen(kernel[f].owner)
           \/ kernel[f].owner \in Chans /\ kernel[f] = Stream(kernel[f].owner)
<1>1. kernel[f] \in Descriptors
    BY DEF ChannelTypes
<1>. QED
    BY <1>1, Kinds DEF Descriptors

\* Each channel has one listening descriptor at most and one stream at most; so with
\* more than twice as many as there are channels one is free, and accept gets it.
LEMMA RoomLeft ==
    ASSUME ChannelsInv, MaxFd > 2 * NChans
    PROVE  LowestFree # {}
<1> DEFINE free == {f \in Fds : kernel[f] = Free}
           seat == [f \in Fds |-> IF kernel[f].kind = "listen" THEN kernel[f].owner
                                  ELSE NChans + kernel[f].owner]
           lt == OpToRel(<, Nat)
<1>1. NChans \in Nat /\ MaxFd \in Nat
    BY ChannelAssumption
<1>2. free # {}
    <2>1. SUFFICES ASSUME free = {} PROVE FALSE
        OBVIOUS
    <2>2. ASSUME NEW f \in Fds
          PROVE  \/ kernel[f].owner \in Chans /\ kernel[f] = Listen(kernel[f].owner)
                 \/ kernel[f].owner \in Chans /\ kernel[f] = Stream(kernel[f].owner)
        BY <2>1, Entries DEF ChannelsInv
    <2>3. seat \in [Fds -> 1 .. 2 * NChans]
        BY <1>1, <2>2 DEF Chans
    <2>4. IsFiniteSet(Fds) /\ Cardinality(Fds) = MaxFd
        BY <1>1, FS_Interval DEF Fds
    <2>5. IsFiniteSet(1 .. 2 * NChans) /\ Cardinality(1 .. 2 * NChans) = 2 * NChans
        BY <1>1, FS_Interval
    <2>6. PICK f, g \in Fds : f # g /\ seat[f] = seat[g]
        <3>. HIDE DEF seat
        <3>. QED
            BY <2>3, <2>4, <2>5, FS_PigeonHole
    <2>7. kernel[f].kind = kernel[g].kind /\ kernel[f].owner = kernel[g].owner
        BY <1>1, <2>2, <2>6, Kinds DEF Chans
    <2>8. CASE kernel[f].kind = "listen"
        BY <2>2, <2>6, <2>7, <2>8, Kinds DEF ChannelsInv, BoundOnce
    <2>9. CASE kernel[f].kind = "stream"
        BY <2>6, <2>7, <2>9 DEF ChannelsInv, StreamsHeld
    <2>. QED
        BY <2>2, <2>8, <2>9, Kinds
<1>3. free \subseteq Nat
    BY <1>1 DEF Fds
<1>4. PICK f \in free : \A g \in free : ~(<<g, f>> \in lt)
    <2>. HIDE DEF free, lt
    <2>. QED
        BY <1>2, <1>3, NatLessThanWellFounded, WFMin DEF lt
<1>5. \A g \in free : ~(g < f)
    BY <1>3, <1>4 DEF OpToRel
<1>. QED
    BY <1>4, <1>5 DEF LowestFree

-----------------------------------------------------------------------------
(* What each operation of a channel keeps.                                  *)

\* Nothing happens to the other channels, but that they are given packets.
Apart(c) ==
    \A d \in Chans : d # c =>
        /\ fd'[d] = fd[d] /\ resp'[d] = resp[d]
        /\ tx'[d] = tx[d] \/ tx'[d] > 0
        /\ fd[d] # 0 => kernel'[fd[d]] = kernel[fd[d]]

\* A descriptor in use is of the process, and the channel's own.
LEMMA InUse ==
    ASSUME ChannelsInv, NEW c \in Chans
    PROVE  /\ fd[c] # 0 => fd[c] \in Fds /\ kernel[fd[c]] # Free /\ kernel[fd[c]].owner = c
           /\ sfd[c] # 0 => /\ sfd[c] \in Fds /\ kernel[sfd[c]] = Listen(c)
                            /\ kernel[sfd[c]].kind = "listen" /\ kernel[sfd[c]].owner = c
                            /\ kernel[sfd[c]] # Free
<1>1. \A f \in 0 .. MaxFd : f # 0 => f \in Fds
    BY ChannelAssumption DEF Fds
<1>2. fd[c] \in 0 .. MaxFd /\ sfd[c] \in 0 .. MaxFd
    BY DEF ChannelsInv, ChannelTypes
<1>. QED
    BY <1>1, <1>2, Kinds DEF ChannelsInv, OpenMeansOpen, ListenerKept, channel_is_open

\* A channel is closed, but not while it is listening.
LEMMA Closed ==
    ASSUME ChannelsInv, NEW c \in Chans, NEW r \in BOOLEAN,
           fd[c] # 0, fd[c] # sfd[c], channel_close(c, r)
    PROVE  ChannelsInv' /\ Apart(c)
<1>1. /\ fd[c] \in Fds /\ kernel[fd[c]] # Free /\ kernel[fd[c]].owner = c
      /\ fd' \in {[fd EXCEPT ![c] = sfd[c]], [fd EXCEPT ![c] = 0]}
      /\ kernel' = [kernel EXCEPT ![fd[c]] = Free]
      /\ tx' = [tx EXCEPT ![c] = 0] /\ resp' = [resp EXCEPT ![c] = r] /\ sfd' = sfd
    BY InUse DEF channel_close
<1>2. ChannelTypes'
    BY <1>1, ChannelAssumption DEF ChannelsInv, ChannelTypes, Descriptors
<1>3. ListenerKept'
    <2>1. ASSUME NEW d \in Chans, sfd[d] # 0
          PROVE  kernel'[sfd[d]] = Listen(d)
        <3>1. sfd[d] \in Fds /\ kernel[sfd[d]] = Listen(d) /\ kernel[sfd[d]].owner = d
            BY <2>1, InUse
        <3>2. sfd[d] # fd[c]
            BY <1>1, <3>1
        <3>. QED
            BY <1>1, <3>1, <3>2 DEF ChannelsInv, ChannelTypes
    <2>. QED
        BY <1>1, <2>1 DEF ListenerKept
<1>4. OpenMeansOpen'
    <2>1. ASSUME NEW d \in Chans, fd'[d] # 0
          PROVE  kernel'[fd'[d]] # Free /\ kernel'[fd'[d]].owner = d
        <3>1. CASE d = c
            <4>1. fd'[c] = sfd[c]
                BY <1>1, <2>1, <3>1 DEF ChannelsInv, ChannelTypes
            <4>. QED
                BY <1>1, <1>3, <2>1, <3>1, <4>1, Kinds DEF ListenerKept
        <3>2. CASE d # c
            <4>1. fd'[d] = fd[d]
                BY <1>1, <3>2 DEF ChannelsInv, ChannelTypes
            <4>2. fd[d] \in Fds /\ kernel[fd[d]] # Free /\ kernel[fd[d]].owner = d
                BY <2>1, <4>1, InUse
            <4>. QED
                BY <1>1, <3>2, <4>1, <4>2 DEF ChannelsInv, ChannelTypes
        <3>. QED
            BY <3>1, <3>2
    <2>. QED
        BY <2>1 DEF OpenMeansOpen, channel_is_open
<1>5. StreamsHeld'
    <2>1. ASSUME NEW f \in Fds, kernel'[f].kind = "stream"
          PROVE  fd'[kernel'[f].owner] = f
        <3>1. f # fd[c] /\ kernel'[f] = kernel[f]
            BY <1>1, <2>1, Kinds DEF ChannelsInv, ChannelTypes
        <3>2. fd[kernel[f].owner] = f
            BY <2>1, <3>1 DEF ChannelsInv, StreamsHeld
        <3>3. kernel[f].owner \in Chans /\ kernel[f].owner # c
            BY <2>1, <3>1, <3>2, Entries, Kinds DEF ChannelsInv
        <3>. QED
            BY <1>1, <3>1, <3>2, <3>3 DEF ChannelsInv, ChannelTypes
    <2>. QED
        BY <2>1 DEF StreamsHeld
<1>6. BoundOnce'
    BY <1>1, Kinds DEF ChannelsInv, BoundOnce, ChannelTypes
<1>7. Apart(c)
    <2>1. ASSUME NEW d \in Chans, d # c, fd[d] # 0
          PROVE  kernel'[fd[d]] = kernel[fd[d]]
        <3>1. fd[d] \in Fds /\ kernel[fd[d]].owner = d
            BY <2>1, InUse
        <3>. QED
            BY <1>1, <2>1, <3>1 DEF ChannelsInv, ChannelTypes
    <2>. QED
        BY <1>1, <2>1 DEF Apart, ChannelsInv, ChannelTypes
<1>. QED
    BY <1>2, <1>3, <1>4, <1>5, <1>6 , <1>7 DEF ChannelsInv

\* A channel gets a free descriptor: a stream, in place of none or of the one it
\* listens on, or the first that it listens on.
LEMMA Opened ==
    ASSUME ChannelsInv, NEW c \in Chans, NEW f \in LowestFree,
           fd[c] = 0 \/ fd[c] = sfd[c],
           fd' = [fd EXCEPT ![c] = f],
           \/ kernel' = [kernel EXCEPT ![f] = Stream(c)] /\ sfd' = sfd
           \/ /\ kernel' = [kernel EXCEPT ![f] = Listen(c)] /\ sfd' = [sfd EXCEPT ![c] = f]
              /\ ~Bound(c),
           tx' \in [Chans -> 0 .. MaxTx], resp' \in [Chans -> BOOLEAN],
           \A d \in Chans : d # c => tx'[d] = tx[d] /\ resp'[d] = resp[d]
    PROVE  ChannelsInv' /\ Apart(c)
<1>1. f \in Fds /\ kernel[f] = Free /\ f # 0 /\ f \in 0 .. MaxFd
    BY ChannelAssumption DEF LowestFree, Fds
<1>2. kernel'[f] \in {Stream(c), Listen(c)} /\ \A g \in Fds : g # f => kernel'[g] = kernel[g]
    BY <1>1 DEF ChannelsInv, ChannelTypes
<1>3. fd'[c] = f /\ \A d \in Chans : d # c => fd'[d] = fd[d]
    BY DEF ChannelsInv, ChannelTypes
<1>4. ChannelTypes'
    <2>1. kernel' \in [Fds -> Descriptors]
        BY <1>1 DEF ChannelsInv, ChannelTypes, Descriptors
    <2>2. fd' \in [Chans -> 0 .. MaxFd] /\ sfd' \in [Chans -> 0 .. MaxFd]
        BY <1>1 DEF ChannelsInv, ChannelTypes
    <2>. QED
        BY <2>1, <2>2 DEF ChannelTypes
<1>5. ASSUME NEW d \in Chans
      PROVE  /\ fd[d] # 0 => fd[d] # f /\ kernel'[fd[d]] = kernel[fd[d]]
             /\ sfd[d] # 0 => sfd[d] # f /\ kernel'[sfd[d]] = Listen(d)
    BY <1>1, <1>2, InUse
<1>6. OpenMeansOpen'
    <2>1. ASSUME NEW d \in Chans, fd'[d] # 0
          PROVE  kernel'[fd'[d]] # Free /\ kernel'[fd'[d]].owner = d
        <3>1. CASE d = c
            BY <1>2, <1>3, <3>1, Kinds
        <3>2. CASE d # c
            BY <1>3, <1>5, <2>1, <3>2, InUse
        <3>. QED
            BY <3>1, <3>2
    <2>. QED
        BY <2>1 DEF OpenMeansOpen, channel_is_open
<1>7. ListenerKept'
    <2>1. ASSUME NEW d \in Chans, sfd'[d] # 0
          PROVE  kernel'[sfd'[d]] = Listen(d)
        <3>1. CASE sfd'[d] = sfd[d]
            BY <1>5, <2>1, <3>1
        <3>2. CASE sfd'[d] # sfd[d]
            BY <1>1, <3>2 DEF ChannelsInv, ChannelTypes
        <3>. QED
            BY <3>1, <3>2
    <2>. QED
        BY <2>1 DEF ListenerKept
<1>8. StreamsHeld'
    <2>1. ASSUME NEW g \in Fds, kernel'[g].kind = "stream"
          PROVE  fd'[kernel'[g].owner] = g
        <3>1. CASE g = f
            BY <1>2, <1>3, <2>1, <3>1, Kinds
        <3>2. CASE g # f
            <4>1. kernel'[g] = kernel[g] /\ fd[kernel[g].owner] = g
                BY <1>2, <2>1, <3>2 DEF ChannelsInv, StreamsHeld
            <4>2. kernel[g].owner \in Chans
                BY <2>1, <4>1, Entries, Kinds DEF ChannelsInv
            <4>3. kernel[g].owner # c
                <5>1. g # 0
                    BY ChannelAssumption DEF Fds
                <5>2. CASE fd[c] = 0
                    BY <4>1, <5>1, <5>2
                <5>3. CASE fd[c] = sfd[c] /\ fd[c] # 0
                    BY <2>1, <4>1, <5>3, InUse
                <5>. QED
                    BY <5>2, <5>3
            <4>. QED
                BY <1>3, <4>1, <4>2, <4>3
        <3>. QED
            BY <3>1, <3>2
    <2>. QED
        BY <2>1 DEF StreamsHeld
<1>9. BoundOnce'
    <2>1. CASE kernel' = [kernel EXCEPT ![f] = Stream(c)]
        BY <1>1, <2>1, Kinds DEF ChannelsInv, BoundOnce, ChannelTypes
    <2>2. CASE kernel' = [kernel EXCEPT ![f] = Listen(c)] /\ ~Bound(c)
        <3>1. \A g \in Fds : ~(kernel[g].kind = "listen" /\ kernel[g].owner = c)
            BY <2>2, Entries, Kinds DEF Bound, ChannelsInv
        <3>2. kernel'[f].kind = "listen" /\ kernel'[f].owner = c
            BY <1>1, <2>2, Kinds DEF ChannelsInv, ChannelTypes
        <3>. QED
            BY <1>2, <3>1, <3>2 DEF ChannelsInv, BoundOnce
    <2>. QED
        BY <2>1, <2>2
<1>10. Apart(c)
    BY <1>3, <1>5 DEF Apart
<1>. QED
    BY <1>4, <1>6, <1>7, <1>8, <1>9, <1>10 DEF ChannelsInv

\* No descriptor changes hands.
LEMMA Unmoved ==
    ASSUME ChannelsInv, fd' = fd, sfd' = sfd, kernel' = kernel,
           tx' \in [Chans -> 0 .. MaxTx], resp' \in [Chans -> BOOLEAN]
    PROVE  ChannelsInv'
BY DEF ChannelsInv, ChannelTypes, OpenMeansOpen, channel_is_open, StreamsHeld, ListenerKept,
       BoundOnce

\* What is left of the channels' state when packets have been written.
LEMMA WrittenTo ==
    ASSUME NEW where \in SUBSET Chans, NEW t \in [Chans -> 0 .. MaxTx], PacketsWritten(where, t)
    PROVE  /\ tx' \in [Chans -> 0 .. MaxTx]
           /\ \A d \in Chans : tx'[d] = t[d] \/ tx'[d] > 0
<1>1. PICK W \in SUBSET where :
        tx' \in {u \in [Chans -> 0 .. MaxTx] :
                  \A d \in Chans : IF d \in W THEN u[d] \in Encoded(d, t[d]) ELSE u[d] = t[d]}
    BY DEF PacketsWritten
<1>2. \A d \in Chans, n \in 0 .. MaxTx : \A m \in Encoded(d, n) : m > 0
    BY ChannelAssumption DEF Encoded
<1>. QED
    BY <1>1, <1>2

LEMMA OpenKeeps ==
    ASSUME ChannelsInv, NEW c \in Chans, ~channel_is_open(c), channel_open(c)
    PROVE  ChannelsInv' /\ Apart(c)
<1>1. fd[c] = 0
    BY DEF channel_is_open
<1>2. resp' = [resp EXCEPT ![c] = FALSE] /\ tx' \in {tx, [tx EXCEPT ![c] = 0]}
    BY DEF channel_open, OpenDone, OpenFailed
<1>3. /\ tx' \in [Chans -> 0 .. MaxTx] /\ resp' \in [Chans -> BOOLEAN]
      /\ \A d \in Chans : d # c => tx'[d] = tx[d] /\ resp'[d] = resp[d]
    BY <1>2, ChannelAssumption DEF ChannelsInv, ChannelTypes
<1>4. CASE OpenDone(c)
    <2>1. PICK f \in LowestFree :
            /\ fd' = [fd EXCEPT ![c] = f]
            /\ \/ kernel' = [kernel EXCEPT ![f] = Stream(c)] /\ sfd' = sfd
               \/ /\ kernel' = [kernel EXCEPT ![f] = Listen(c)]
                  /\ sfd' = [sfd EXCEPT ![c] = f]
                  /\ ~Bound(c)
        BY <1>4 DEF OpenDone
    <2>. QED
        BY <1>1, <1>3, <2>1, Opened
<1>5. CASE OpenFailed(c)
    <2>1. /\ fd' \in {fd, [fd EXCEPT ![c] = sfd[c]]} /\ sfd' = sfd /\ kernel' = kernel
        BY <1>5 DEF OpenFailed
    <2>2. /\ \A d \in Chans : d # c => fd'[d] = fd[d]
          /\ fd'[c] \in {fd[c], sfd[c]}
        BY <2>1 DEF ChannelsInv, ChannelTypes
    <2>3. ChannelTypes'
        BY <1>3, <2>1 DEF ChannelsInv, ChannelTypes
    <2>4. OpenMeansOpen'
        BY <2>1, <2>2, InUse DEF OpenMeansOpen, channel_is_open
    <2>5. StreamsHeld'
        <3>1. ASSUME NEW f \in Fds, kernel[f].kind = "stream"
              PROVE  fd'[kernel[f].owner] = f
            <4>1. fd[kernel[f].owner] = f /\ f # 0 /\ kernel[f].owner \in Chans
                BY <3>1, Entries, Kinds, ChannelAssumption DEF ChannelsInv, StreamsHeld, Fds
            <4>. QED
                BY <1>1, <2>2, <4>1
        <3>. QED
            BY <2>1, <3>1 DEF StreamsHeld
    <2>6. ListenerKept' /\ BoundOnce'
        BY <2>1 DEF ChannelsInv, ListenerKept, BoundOnce
    <2>7. Apart(c)
        BY <1>3, <2>1, <2>2 DEF Apart
    <2>. QED
        BY <2>3, <2>4, <2>5, <2>6, <2>7 DEF ChannelsInv
<1>. QED
    BY <1>4, <1>5 DEF channel_open

\* channel_read and the close on its result, of a channel that is open; accepting
\* does not fail.
LEMMA ReadKeeps ==
    ASSUME ChannelsInv, ~AcceptFails, MaxFd > 2 * NChans,
           NEW c \in Chans, NEW n \in 0 .. MaxTx, NEW r \in BOOLEAN,
           fd[c] # 0, channel_read(c, n, r)
    PROVE  ChannelsInv' /\ Apart(c)
<1>1. CASE channel_is_listening(c)
    <2>1. fd[c] = sfd[c] /\ kernel[sfd[c]].kind = "listen"
        BY <1>1, InUse DEF channel_is_listening
    <2>2. Accept(c, n, r)
        BY <1>1, <2>1, RoomLeft DEF channel_read, AcceptFailed, CanAccept
    <2>3. PICK f \in LowestFree :
            fd' = [fd EXCEPT ![c] = f] /\ kernel' = [kernel EXCEPT ![f] = Stream(c)]
        BY <2>2 DEF Accept
    <2>4. sfd' = sfd /\ tx' = [tx EXCEPT ![c] = n] /\ resp' = [resp EXCEPT ![c] = r]
        BY <2>2 DEF Accept
    <2>5. /\ tx' \in [Chans -> 0 .. MaxTx] /\ resp' \in [Chans -> BOOLEAN]
          /\ \A d \in Chans : d # c => tx'[d] = tx[d] /\ resp'[d] = resp[d]
        BY <2>4 DEF ChannelsInv, ChannelTypes
    <2>. QED
        BY <2>1, <2>3, <2>4, <2>5, Opened
<1>2. CASE ~channel_is_listening(c)
    <2>1. fd[c] # sfd[c]
        BY <1>2 DEF channel_is_listening
    <2>2. CASE ReadData(c, n)
        <3> DEFINE t == [tx EXCEPT ![c] = n]
        <3>1. t \in [Chans -> 0 .. MaxTx] /\ \A d \in Chans : d # c => t[d] = tx[d]
            BY DEF ChannelsInv, ChannelTypes
        <3>2. Routes[c] \in SUBSET Chans
            BY ChannelAssumption
        <3>3. resp' = [resp EXCEPT ![c] = FALSE] /\ PacketsWritten(Routes[c], t)
              /\ UNCHANGED <<fd, sfd, kernel>>
            BY <2>2 DEF ReadData
        <3>4. resp' \in [Chans -> BOOLEAN] /\ \A d \in Chans : d # c => resp'[d] = resp[d]
            BY <3>3 DEF ChannelsInv, ChannelTypes
        <3>. HIDE DEF t
        <3>5. tx' \in [Chans -> 0 .. MaxTx] /\ \A d \in Chans : tx'[d] = t[d] \/ tx'[d] > 0
            BY <3>1, <3>2, <3>3, WrittenTo
        <3>. QED
            BY <3>1, <3>3, <3>4, <3>5, Unmoved DEF Apart
    <2>3. CASE ReadUnwanted(c) \/ channel_close(c, r)
        BY <2>1, <2>3, Closed DEF ReadUnwanted
    <2>. QED
        BY <1>2, <2>2, <2>3 DEF channel_read
<1>. QED
    BY <1>1, <1>2

-----------------------------------------------------------------------------
(* The loop.                                                                *)

\* The turn of channel c is over, and it is the next one's or the next phase.
LEMMA TurnOver ==
    ASSUME at \in Chans, NEW next, Advance(next)
    PROVE  \/ at' = at + 1 /\ at' \in Chans /\ phase' = phase
           \/ at' = 1 /\ at' \in Chans /\ phase' = next /\ \A c \in Chans : c <= at
BY ChannelAssumption DEF Advance, Chans

LEMMA RegisterKeeps ==
    ASSUME IInv, NEW c \in Chans, at = c, Register
    PROVE  IInv'
<1>1. phase = "register" /\ NChans \in Nat
    BY ChannelAssumption DEF Register
<1>2. ChannelsInv' /\ Apart(c)
    <2>1. CASE ~channel_is_open(c) /\ channel_is_waiting(c)
        BY <2>1, OpenKeeps DEF Register, IInv
    <2>2. CASE ~(~channel_is_open(c) /\ channel_is_waiting(c))
        <3>1. UNCHANGED chnVars
            BY <2>2 DEF Register
        <3>. QED
            BY <3>1, Unmoved DEF chnVars, Apart, IInv, ChannelsInv, ChannelTypes
    <2>. QED
        BY <2>1, <2>2
<1>3. ChannelTypes'
    BY <1>2 DEF ChannelsInv
<1>4. /\ pollfd' \in [Chans -> PollFds] /\ Registered(c)'
      /\ \A d \in Chans : d # c => pollfd'[d] = pollfd[d]
    <2> DEFINE new == IF fd'[c] = 0 THEN NullFd
                      ELSE [fd  |-> fd'[c], in |-> c \in HasReader \/ resp'[c],
                            out |-> tx'[c] > 0 /\ ~resp'[c]]
    <2>1. fd'[c] \in 0 .. MaxFd /\ resp'[c] \in BOOLEAN
        BY <1>3 DEF ChannelTypes
    <2>2. new \in PollFds
        BY <2>1, ChannelAssumption DEF PollFds, NullFd
    <2>3. new.fd = fd'[c] /\ (new.out => tx'[c] > 0 /\ ~resp'[c])
        BY DEF NullFd
    <2>4. pollfd' = [pollfd EXCEPT ![c] = new] /\ pollfd \in [Chans -> PollFds]
        BY DEF Register, IInv, LoopTypes
    <2>. HIDE DEF new
    <2>5. pollfd'[c] = new
        BY <2>4
    <2>. QED
        BY <2>2, <2>3, <2>4, <2>5 DEF Registered
<1>5. ASSUME NEW d \in Chans, d < c PROVE Registered(d)'
    <2>1. Registered(d)
        BY <1>1, <1>5 DEF IInv, LoopInv
    <2>. QED
        BY <1>2, <1>4, <1>5, <2>1 DEF Registered, Apart, Chans
<1>6. revents' = revents /\ timer' = timer
    BY DEF Register
<1>7. Advance("poll")
    BY DEF Register
<1>8. CASE at' = c + 1 /\ at' \in Chans /\ phase' = phase
    <2>1. \A d \in Chans : d < c + 1 => d < c \/ d = c
        BY DEF Chans
    <2>2. LoopTypes' /\ LoopInv'
        BY <1>1, <1>4, <1>5, <1>6, <1>8, <2>1 DEF IInv, LoopTypes, LoopInv
    <2>. QED
        BY <1>2, <2>2 DEF IInv
<1>9. CASE at' = 1 /\ at' \in Chans /\ phase' = "poll" /\ \A d \in Chans : d <= c
    <2>1. \A d \in Chans : d < c \/ d = c
        BY <1>9 DEF Chans
    <2>2. LoopTypes' /\ LoopInv'
        BY <1>4, <1>5, <1>6, <1>9, <2>1 DEF IInv, LoopTypes, LoopInv
    <2>. QED
        BY <1>2, <2>2 DEF IInv
<1>. QED
    BY <1>7, <1>8, <1>9, TurnOver

\* What poll reports of a channel that is as it was registered.
LEMMA ReportHolds ==
    ASSUME ChannelsInv, LoopTypes, NEW c \in Chans, Registered(c),
           NEW e \in Reports(c), e # NoEvents
    PROVE  /\ fd[c] # 0
           /\ e.out => tx[c] > 0 /\ ~resp[c]
           /\ kernel[fd[c]].kind = "listen" => ~e.hup /\ ~e.out
<1> DEFINE p == pollfd[c]
<1>1. p.fd = fd[c]
    BY DEF Registered
<1>2. fd[c] # 0
    BY <1>1 DEF Reports
<1>3. fd[c] \in Fds /\ kernel[fd[c]] # Free /\ kernel[fd[c]].kind \in {"listen", "stream"}
    BY <1>2, InUse, Entries, Kinds DEF ChannelsInv
<1>4. CASE kernel[fd[c]].kind = "listen"
    BY <1>1, <1>2, <1>3, <1>4 DEF Reports
<1>5. CASE kernel[fd[c]].kind = "stream"
    <2>1. e.out => p.out
        BY <1>1, <1>2, <1>3, <1>5 DEF Reports
    <2>. QED
        BY <1>2, <1>5, <2>1 DEF Registered
<1>. QED
    BY <1>2, <1>3, <1>4, <1>5

LEMMA PollKeeps == ASSUME IInv, PollChannels \/ PollTimer PROVE IInv'
<1>1. /\ phase = "poll" /\ phase' = "events" /\ at' = at /\ at = 1
      /\ UNCHANGED <<fd, sfd, tx, resp, kernel, pollfd>>
    BY DEF PollChannels, PollTimer, IInv, LoopInv
<1>2. ChannelsInv'
    BY <1>1, Unmoved DEF IInv, ChannelsInv, ChannelTypes
<1>3. /\ revents' \in [Chans -> Events] /\ timer' \in BOOLEAN
      /\ \A c \in Chans : revents'[c] \in Reports(c) \/ revents'[c] = NoEvents
    <2>1. NoEvents \in Events
        BY DEF NoEvents, Events
    <2>2. CASE PollChannels
        BY <2>2 DEF PollChannels
    <2>3. CASE PollTimer
        BY <2>1, <2>3 DEF PollTimer
    <2>. QED
        BY <2>2, <2>3
<1>4. ASSUME NEW c \in Chans PROVE Reported(c)'
    <2>1. SUFFICES ASSUME revents'[c] # NoEvents
                   PROVE  /\ fd[c] # 0 /\ pollfd[c].fd = fd[c]
                          /\ revents'[c].out => tx[c] > 0 /\ ~resp[c]
                          /\ kernel[fd[c]].kind = "listen"
                                => ~revents'[c].hup /\ ~revents'[c].out
        BY <1>1 DEF Reported
    <2>2. Registered(c) /\ revents'[c] \in Reports(c)
        BY <1>1, <1>3, <2>1 DEF IInv, LoopInv
    <2>. QED
        BY <2>1, <2>2, ReportHolds DEF IInv, Registered
<1>5. LoopTypes'
    BY <1>1, <1>3 DEF IInv, LoopTypes
<1>6. LoopInv'
    BY <1>1, <1>4 DEF LoopInv
<1>. QED
    BY <1>2, <1>5, <1>6 DEF IInv

\* What poller_channel_events does of a channel.
LEMMA EventsHandled ==
    ASSUME IInv, ~AcceptFails, MaxFd > 2 * NChans, NEW c \in Chans, at = c, ChannelEvents
    PROVE  ChannelsInv' /\ Apart(c)
<1>1. ChannelsInv /\ Reported(c) /\ revents[c] \in Events /\ c >= at
    BY DEF IInv, LoopInv, LoopTypes, ChannelEvents, Chans
<1>2. /\ tx[c] \in 0 .. MaxTx /\ resp[c] \in BOOLEAN /\ RespAfterWrite(c) \in BOOLEAN
      /\ WriteLeaves(c) \subseteq 0 .. MaxTx
    BY <1>1, ChannelAssumption DEF ChannelsInv, ChannelTypes, RespAfterWrite, WriteLeaves
<1>3. ASSUME NEW n \in 0 .. MaxTx, NEW r \in BOOLEAN, ReadEvent(n, r)
      PROVE  ChannelsInv' /\ Apart(c)
    <2>1. CASE revents[c].in /\ channel_read(c, n, r)
        <3>1. fd[c] # 0
            BY <1>1, <2>1 DEF Reported, NoEvents
        <3>. QED
            BY <1>1, <1>3, <2>1, <3>1, ReadKeeps
    <2>2. CASE /\ tx' = [tx EXCEPT ![c] = n] /\ resp' = [resp EXCEPT ![c] = r]
               /\ UNCHANGED <<fd, sfd, kernel>>
        <3>1. tx' \in [Chans -> 0 .. MaxTx] /\ resp' \in [Chans -> BOOLEAN]
            BY <1>1, <2>2 DEF ChannelsInv, ChannelTypes
        <3>2. Apart(c)
            BY <1>1, <2>2 DEF Apart, ChannelsInv, ChannelTypes
        <3>. QED
            BY <1>1, <2>2, <3>1, <3>2, Unmoved
    <2>. QED
        BY <1>3, <2>1, <2>2 DEF ReadEvent
<1>4. ASSUME revents[c].hup \/ revents[c].out
      PROVE  fd[c] # 0 /\ fd[c] # sfd[c]
    <2>1. /\ fd[c] # 0
          /\ kernel[fd[c]].kind = "listen" => ~revents[c].hup /\ ~revents[c].out
        BY <1>1, <1>4 DEF Reported, NoEvents
    <2>. QED
        BY <1>1, <1>4, <2>1, InUse
<1>5. CASE revents[c].hup /\ channel_close(c, resp[c])
    BY <1>1, <1>2, <1>4, <1>5, Closed
<1>6. CASE /\ revents[c].out
           /\ \/ \E n \in WriteLeaves(c) : ReadEvent(n, RespAfterWrite(c))
              \/ channel_close(c, RespAfterWrite(c))
    BY <1>1, <1>2, <1>3, <1>4, <1>6, Closed
<1>7. CASE ReadEvent(tx[c], resp[c])
    BY <1>2, <1>3, <1>7
<1>. QED
    BY <1>5, <1>6, <1>7 DEF ChannelEvents

LEMMA EventsKeep ==
    ASSUME IInv, ~AcceptFails, MaxFd > 2 * NChans, ChannelEvents
    PROVE  IInv'
<1>1. PICK c \in Chans : c = at
    BY DEF IInv, LoopTypes
<1>2. ChannelsInv' /\ Apart(c)
    BY <1>1, EventsHandled
<1>3. phase = "events" /\ Advance("timer") /\ UNCHANGED <<pollfd, revents, timer>>
    BY DEF ChannelEvents
<1>4. ASSUME NEW d \in Chans, d >= c + 1 PROVE Reported(d)'
    <2>1. Reported(d) /\ d # c
        BY <1>1, <1>3, <1>4 DEF IInv, LoopInv, Chans
    <2>. QED
        BY <1>2, <1>3, <2>1 DEF Reported, Apart
<1>5. CASE at' = c + 1 /\ at' \in Chans /\ phase' = phase
    <2>1. LoopTypes' /\ LoopInv'
        BY <1>3, <1>4, <1>5 DEF IInv, LoopTypes, LoopInv
    <2>. QED
        BY <1>2, <2>1 DEF IInv
<1>6. CASE at' = 1 /\ at' \in Chans /\ phase' = "timer"
    <2>1. LoopTypes' /\ LoopInv'
        BY <1>3, <1>6 DEF IInv, LoopTypes, LoopInv
    <2>. QED
        BY <1>2, <2>1 DEF IInv
<1>. QED
    BY <1>1, <1>3, <1>5, <1>6, TurnOver

LEMMA DeferKeeps == ASSUME IInv, DeferEvents PROVE IInv'
<1>1. /\ phase = "timer" /\ phase' = "register" /\ at = 1 /\ at' = at /\ timer' = FALSE
      /\ revents' = [c \in Chans |-> NoEvents]
      /\ UNCHANGED <<fd, sfd, resp, kernel, pollfd>>
    BY DEF DeferEvents, IInv, LoopInv
<1>2. tx' \in [Chans -> 0 .. MaxTx]
    <2>1. tx \in [Chans -> 0 .. MaxTx]
        BY DEF IInv, ChannelsInv, ChannelTypes
    <2>2. CASE tx' = tx
        BY <2>1, <2>2
    <2>3. CASE \E c \in Chans : PacketsWritten({c}, tx)
        BY <2>1, <2>3, WrittenTo
    <2>. QED
        BY <2>2, <2>3 DEF DeferEvents
<1>3. ChannelsInv'
    BY <1>1, <1>2, Unmoved DEF IInv, ChannelsInv, ChannelTypes
<1>4. LoopTypes'
    BY <1>1 DEF IInv, LoopTypes, NoEvents, Events
<1>5. LoopInv'
    BY <1>1 DEF LoopInv, Chans
<1>. QED
    BY <1>3, <1>4, <1>5 DEF IInv

LEMMA ReloadKeeps == ASSUME IInv, Reload PROVE IInv'
<1>1. /\ phase = "register" /\ phase' = phase /\ at = 1 /\ at' = at
      /\ UNCHANGED <<revents, timer>>
      /\ fd' = [c \in Chans |-> 0] /\ sfd' = [c \in Chans |-> 0] /\ tx' = [c \in Chans |-> 0]
      /\ resp' = [c \in Chans |-> FALSE] /\ pollfd' = [c \in Chans |-> NullFd]
      /\ kernel' = [f \in Fds |-> IF \E c \in Chans : fd[c] = f THEN Free ELSE kernel[f]]
    BY DEF Reload
<1>2. ChannelTypes'
    BY <1>1, ChannelAssumption DEF IInv, ChannelsInv, ChannelTypes, Descriptors
<1>3. OpenMeansOpen' /\ ListenerKept'
    BY <1>1 DEF OpenMeansOpen, ListenerKept, channel_is_open
<1>4. StreamsHeld'
    <2>1. ASSUME NEW f \in Fds, kernel'[f].kind = "stream" PROVE FALSE
        <3>1. kernel'[f] = kernel[f] /\ ~\E c \in Chans : fd[c] = f
            BY <1>1, <2>1, Kinds
        <3>2. kernel[f].owner \in Chans /\ fd[kernel[f].owner] = f
            BY <2>1, <3>1, Entries, Kinds DEF IInv, ChannelsInv, StreamsHeld
        <3>. QED
            BY <3>1, <3>2
    <2>. QED
        BY <2>1 DEF StreamsHeld
<1>5. BoundOnce'
    <2>1. \A f \in Fds : kernel'[f].kind = "listen" => kernel'[f] = kernel[f]
        BY <1>1, Kinds
    <2>. QED
        BY <2>1 DEF BoundOnce, IInv, ChannelsInv
<1>6. LoopTypes' /\ LoopInv'
    BY <1>1, ChannelAssumption DEF IInv, LoopTypes, LoopInv, NullFd, PollFds, Chans
<1>. QED
    BY <1>2, <1>3, <1>4, <1>5, <1>6 DEF IInv, ChannelsInv

-----------------------------------------------------------------------------
(* The invariant, and the theorems.                                         *)

LEMMA InitIInv == Init => IInv
<1>1. SUFFICES ASSUME Init PROVE IInv
    OBVIOUS
<1>2. /\ fd = [c \in Chans |-> 0] /\ sfd = [c \in Chans |-> 0] /\ tx = [c \in Chans |-> 0]
      /\ resp = [c \in Chans |-> FALSE] /\ kernel = [f \in Fds |-> Free]
      /\ pollfd = [c \in Chans |-> NullFd] /\ revents = [c \in Chans |-> NoEvents]
      /\ phase = "register" /\ at = 1 /\ timer = FALSE
    BY <1>1 DEF Init, ChannelInit
<1>3. ChannelTypes
    BY <1>2, ChannelAssumption DEF ChannelTypes, Descriptors
<1>4. OpenMeansOpen /\ StreamsHeld /\ ListenerKept /\ BoundOnce
    BY <1>2, Kinds DEF OpenMeansOpen, StreamsHeld, ListenerKept, BoundOnce, channel_is_open
<1>5. LoopTypes
    <2>1. NoEvents \in Events /\ NullFd \in PollFds
        BY ChannelAssumption DEF NoEvents, Events, NullFd, PollFds
    <2>2. at \in Chans
        BY <1>2, ChannelAssumption DEF Chans
    <2>. QED
        BY <1>2, <2>1, <2>2 DEF LoopTypes
<1>6. LoopInv
    BY <1>2 DEF LoopInv, Chans
<1>. QED
    BY <1>3, <1>4, <1>5, <1>6 DEF IInv, ChannelsInv

\* What the theorems are under: accept reports no error, and the kernel has more
\* than two descriptors for every channel.
AcceptWorks == ~AcceptFails /\ MaxFd > 2 * NChans

LEMMA Invariance == ASSUME AcceptWorks PROVE Spec => []IInv
<1>1. IInv /\ [Next]_vars => IInv'
    <2>1. SUFFICES ASSUME IInv, [Next]_vars PROVE IInv'
        OBVIOUS
    <2>2. CASE Register
        BY <2>1, <2>2, RegisterKeeps DEF IInv, LoopTypes
    <2>3. CASE PollChannels \/ PollTimer
        BY <2>1, <2>3, PollKeeps
    <2>4. CASE ChannelEvents
        BY <2>1, <2>4, EventsKeep DEF AcceptWorks
    <2>5. CASE DeferEvents
        BY <2>1, <2>5, DeferKeeps
    <2>6. CASE Reload
        BY <2>1, <2>6, ReloadKeeps
    <2>7. CASE UNCHANGED vars
        <3>1. ChannelsInv'
            BY <2>1, <2>7, Unmoved DEF vars, IInv, ChannelsInv, ChannelTypes
        <3>2. LoopTypes' /\ LoopInv'
            BY <2>1, <2>7 DEF vars, IInv, LoopTypes, LoopInv, Registered, Reported
        <3>. QED
            BY <3>1, <3>2 DEF IInv
    <2>. QED
        BY <2>1, <2>2, <2>3, <2>4, <2>5, <2>6, <2>7 DEF Next
<1>. QED
    BY InitIInv, <1>1, PTL DEF Spec

\* Every variable has its type, for any channels and any routes between them.
THEOREM TypeCorrect == ASSUME AcceptWorks PROVE Spec => []TypeOK
<1>1. IInv => TypeOK
    BY DEF IInv, ChannelsInv, ChannelTypes, LoopTypes, Descriptors, TypeOK
<1>. QED
    BY <1>1, Invariance, PTL

\* A channel that is open has a descriptor that is open, and its own, whatever its
\* peer does and however its opens and closes fail (channel_close, channel_is_open).
THEOREM OpenIsOpen == ASSUME AcceptWorks PROVE Spec => []OpenMeansOpen
<1>1. IInv => OpenMeansOpen
    BY DEF IInv, ChannelsInv
<1>. QED
    BY <1>1, Invariance, PTL

\* No descriptor of a client or a camera is leaked (channel_open, channel_accept,
\* channel_close, channel_destroy).
THEOREM NoStreamLeaked == ASSUME AcceptWorks PROVE Spec => []StreamsHeld
<1>1. IInv => StreamsHeld
    BY DEF IInv, ChannelsInv
<1>. QED
    BY <1>1, Invariance, PTL

\* A channel that listens goes on listening (channel_listen_tcp, channel_close).
THEOREM GoesOnListening == ASSUME AcceptWorks PROVE Spec => []ListenerKept
<1>1. IInv => ListenerKept
    BY DEF IInv, ChannelsInv
<1>. QED
    BY <1>1, Invariance, PTL

\* What poll reported for a channel holds when its turn comes, whatever the handlers
\* of the channels before it did (poller_channel_events, axis_do_write).
THEOREM ReportsStayCurrent == ASSUME AcceptWorks PROVE Spec => []ReportsCurrent
<1>1. IInv => ReportsCurrent
    BY DEF IInv, LoopInv, Reported, ReportsCurrent
<1>. QED
    BY <1>1, Invariance, PTL
==============================================================================
