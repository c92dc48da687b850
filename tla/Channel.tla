------------------------------- MODULE Channel -------------------------------
(****************************************************************************)
(* channel.c: the I/O channels, each a descriptor over which a reader       *)
(* receives and writers send, and the kernel's table of descriptors.        *)
(*                                                                          *)
(* The buffers are abstracted to what decides the control: how many pieces  *)
(* the transmit buffer still holds (0 when empty, MaxTx when full).  The    *)
(* kernel and the peer may do anything they could do to a descriptor of     *)
(* that kind.                                                               *)
(****************************************************************************)
EXTENDS Integers, FiniteSets

CONSTANTS
    NChans,      \* number of channels; they are kept in a list
    Listening,   \* those that channel_should_listen, to be bound and accepted on
    HasReader,   \* those with a reader
    NeedsResp,   \* those flagged FLAG_RESP_REQUIRED
    Routes,      \* Routes[c]: the channels of the writers linked to c's reader
    MaxTx,       \* bound: pieces a transmit buffer holds
    MaxFd,       \* bound: the descriptors of the process
    OpenFails,   \* may opening fail?
    CloseFails,  \* may close report an error?
    AcceptFails  \* may accept report an error?

Chans == 1 .. NChans
Fds   == 1 .. MaxFd

ASSUME ChannelAssumption ==
    /\ NChans \in Nat \ {0}
    /\ Listening \subseteq Chans /\ HasReader \subseteq Chans
    /\ NeedsResp \subseteq Chans
    /\ Routes \in [Chans -> SUBSET Chans]
    /\ MaxTx \in Nat \ {0} /\ MaxFd \in Nat \ {0}
    /\ OpenFails \in BOOLEAN /\ CloseFails \in BOOLEAN /\ AcceptFails \in BOOLEAN

VARIABLES
    fd,      \* fd[c]: the descriptor in use, 0 if closed
    sfd,     \* sfd[c]: the descriptor listened on, 0 if none
    tx,      \* tx[c]: the pieces in the transmit buffer
    resp,    \* resp[c]: FLAG_NEEDS_RESP, a response is awaited
    kernel   \* kernel[f]: what descriptor f is open on, and for which channel

chnVars == <<fd, sfd, tx, resp, kernel>>

Free       == [kind |-> "free", owner |-> 0]
Listen(c)  == [kind |-> "listen", owner |-> c]
Stream(c)  == [kind |-> "stream", owner |-> c]

ChannelInit ==
    /\ fd = [c \in Chans |-> 0]
    /\ sfd = [c \in Chans |-> 0]
    /\ tx = [c \in Chans |-> 0]
    /\ resp = [c \in Chans |-> FALSE]
    /\ kernel = [f \in Fds |-> Free]

\* The kernel hands out the lowest descriptor that is free.
LowestFree == {f \in Fds : /\ kernel[f] = Free
                           /\ \A g \in Fds : g < f => kernel[g] # Free}

channel_is_open(c) == fd[c] # 0

\* Mutant: only what is queued is waited for.
BugIsWaiting(c) == tx[c] > 0

channel_is_waiting(c) == tx[c] > 0 \/ c \in HasReader

\* Mutant: a channel that has a listening descriptor is listening.
BugIsListening(c) == sfd[c] # 0

channel_is_listening(c) == sfd[c] = fd[c]

-----------------------------------------------------------------------------
(* channel_close, of an open channel, the response flag becoming r: the     *)
(* buffers are cleared and a listening channel goes back to its listening   *)
(* descriptor.  When close fails, the kernel has released the descriptor    *)
(* all the same, and the channel is left without one.                       *)

\* Mutant: the channel keeps the descriptor it has closed.
BugCloseKeeps(c, r) ==
    /\ tx' = [tx EXCEPT ![c] = 0]
    /\ resp' = [resp EXCEPT ![c] = r]
    /\ kernel' = [kernel EXCEPT ![fd[c]] = Free]
    /\ UNCHANGED <<fd, sfd>>

\* Mutant: a listening channel closes its listening descriptor.
BugCloseListener(c, r) ==
    /\ tx' = [tx EXCEPT ![c] = 0]
    /\ resp' = [resp EXCEPT ![c] = r]
    /\ kernel' = [kernel EXCEPT ![IF sfd[c] # 0 THEN sfd[c] ELSE fd[c]] = Free]
    /\ fd' = [fd EXCEPT ![c] = sfd[c]]
    /\ UNCHANGED sfd

channel_close(c, r) ==
    /\ tx' = [tx EXCEPT ![c] = 0]
    /\ resp' = [resp EXCEPT ![c] = r]
    /\ kernel' = [kernel EXCEPT ![fd[c]] = Free]
    /\ \/ /\ kernel[fd[c]] # Free
          /\ fd' = [fd EXCEPT ![c] = sfd[c]]
       \/ /\ kernel[fd[c]] = Free \/ CloseFails
          /\ fd' = [fd EXCEPT ![c] = 0]
    /\ UNCHANGED sfd

-----------------------------------------------------------------------------
(* channel_open, of a closed channel.                                       *)

\* A port can be bound once: a listening descriptor of the channel that was
\* not closed stands in the way of another.
Bound(c) == \E f \in Fds : kernel[f] = Listen(c)

OpenDone(c) ==
    /\ ~(c \in Listening /\ Bound(c))
    /\ \E f \in LowestFree :
          /\ fd' = [fd EXCEPT ![c] = f]
          /\ IF c \in Listening
             THEN /\ sfd' = [sfd EXCEPT ![c] = f]
                  /\ kernel' = [kernel EXCEPT ![f] = Listen(c)]
             ELSE /\ kernel' = [kernel EXCEPT ![f] = Stream(c)]
                  /\ UNCHANGED sfd
    /\ resp' = [resp EXCEPT ![c] = FALSE]
    /\ UNCHANGED tx

\* The failures end in channel_close: before there is a descriptor it leaves
\* the channel closed, after that it goes to the listening descriptor, if any.
OpenFailed(c) ==
    /\ OpenFails \/ LowestFree = {} \/ (c \in Listening /\ Bound(c))
    /\ \/ fd' = fd
       \/ LowestFree # {} /\ fd' = [fd EXCEPT ![c] = sfd[c]]
    /\ tx' = [tx EXCEPT ![c] = 0]
    /\ resp' = [resp EXCEPT ![c] = FALSE]
    /\ UNCHANGED <<sfd, kernel>>

channel_open(c) == OpenDone(c) \/ OpenFailed(c)

-----------------------------------------------------------------------------
(* Packets given to the writers of a channel.                               *)

\* Mutant: what is left of the last request is cleared, and no other made.
BugEncoded(c, n) == IF c \in NeedsResp /\ n > 0 THEN {0}
                    ELSE {m \in 1 .. MaxTx : m >= n}

\* The pieces in the transmit buffer of c, holding n, after a packet or more
\* have been encoded.  An axis writer first clears what is left of the last
\* request, and always makes a new one; the others append, or are refused,
\* which an empty buffer never does.
Encoded(c, n) == IF c \in NeedsResp THEN 1 .. MaxTx
                 ELSE {m \in 1 .. MaxTx : m >= n}

\* The packets go to some of the channels in where; t is the state before.
PacketsWritten(where, t) ==
    \E W \in SUBSET where :
       tx' \in {u \in [Chans -> 0 .. MaxTx] :
                  \A d \in Chans : IF d \in W THEN u[d] \in Encoded(d, t[d])
                                   ELSE u[d] = t[d]}

-----------------------------------------------------------------------------
(* channel_write and channel_read, as poller_channel_events calls them.     *)

\* The flag channel_write leaves, set before it is known what is written.
RespAfterWrite(c) == resp[c] \/ c \in NeedsResp

\* Mutant: as much is taken to be written as a full buffer holds.
BugWriteLeaves(c) == {tx[c] - MaxTx}

\* What channel_write may leave in the buffer, when it does not fail.  An
\* empty buffer makes it fail.
WriteLeaves(c) == IF tx[c] = 0 THEN {} ELSE 0 .. (tx[c] - 1)

\* channel_accept on what the channel takes for its listening descriptor.
\* The call fails unless the descriptor is a listening one.
CanAccept(c) == kernel[sfd[c]].kind = "listen" /\ LowestFree # {}

Accept(c, n, r) ==
    /\ CanAccept(c)
    /\ \E f \in LowestFree :
          /\ fd' = [fd EXCEPT ![c] = f]
          /\ kernel' = [kernel EXCEPT ![f] = Stream(c)]
    /\ tx' = [tx EXCEPT ![c] = n]
    /\ resp' = [resp EXCEPT ![c] = r]
    /\ UNCHANGED sfd

AcceptFailed(c, r) ==
    /\ ~CanAccept(c) \/ AcceptFails
    /\ channel_close(c, r)

\* Data comes in: the reader decodes it, and the packets go to the writers.
ReadData(c, n) ==
    /\ c \in HasReader
    /\ resp' = [resp EXCEPT ![c] = FALSE]
    /\ PacketsWritten(Routes[c], [tx EXCEPT ![c] = n])
    /\ UNCHANGED <<fd, sfd, kernel>>

\* Without a reader the data is dropped, and 0 is returned: as at the end of
\* the stream, the caller closes the channel.
ReadUnwanted(c) ==
    /\ c \notin HasReader
    /\ channel_close(c, FALSE)

\* The whole of channel_read, and the close on a result not above 0.  The
\* transmit buffer holds n and the flag is r.
channel_read(c, n, r) ==
    \/ /\ channel_is_listening(c)
       /\ Accept(c, n, r) \/ AcceptFailed(c, r)
    \/ /\ ~channel_is_listening(c)
       /\ \/ ReadData(c, n)
          \/ ReadUnwanted(c)
          \/ channel_close(c, r)
==============================================================================
