-------------------------------- MODULE Daemon --------------------------------
(****************************************************************************)
(* main.c, with the life of the timer (timer.c), of the configuration       *)
(* (config.c) and of the poller (poller.c): the program runs with what it   *)
(* read from the file until that changes, takes everything down, and starts *)
(* again.  Meanwhile someone edits the file, and the interval timer may go  *)
(* off at any point.                                                        *)
(*                                                                          *)
(* The kernel's watch is on a file and not on its name.  A file that is     *)
(* edited in place holds any part of its new lines until it is closed.      *)
(****************************************************************************)
EXTENDS Config

CONSTANTS
    Inodes,     \* the files there may be, under whatever name
    Contents,   \* what may be written to them: a sequence of sequences of lines
    MaxEdits,   \* bound: changes to the file
    MaxFaults,  \* bound: calls of the kernel that fail
    MaxQueue    \* bound: events queued for the watch

\* The lines that may be in the file, and the ports their directives name.
AllLines == UNION {Range(Contents[k]) : k \in DOMAIN Contents}

Ports == UNION {{line.directive.port_in, line.directive.port_out} :
                   line \in {l \in AllLines : l.fields >= 5}}

\* A serial port is told by its name (channel_is_sport).
ASSUME DaemonAssumption ==
    /\ 0 \notin Inodes
    /\ 1 \in DOMAIN Contents /\ Contents[1] = << >>
    /\ \A k \in DOMAIN Contents : Contents[k] \in Seq(AllLines)
    /\ \A line \in AllLines : line.fields \in Int
    /\ Ports \subseteq [name : STRING, service : STRING, flags : SUBSET {"UDP", "TCP"},
                       sport : BOOLEAN]
    /\ \A p, q \in Ports : p.name = q.name => p.sport = q.sport
    /\ MaxEdits \in Nat /\ MaxFaults \in Nat /\ MaxQueue \in Nat \ {0}

VARIABLES
    phase,     \* what the program calls next
    dryrun,    \* the option
    cfg,       \* struct config
    poller,    \* struct poller: the channels and their number
    handler,   \* what SIGALRM does
    original,  \* sa_original: what it did before
    pipe,      \* is the pipe of the timer open?
    armed,     \* will the interval timer go off?
    watch,     \* the file that is watched, or 0
    events,    \* how many events wait on the descriptor of the watch
    path,      \* the file that has the name of the configuration file, or 0
    data,      \* data[i]: which of Contents file i holds
    writing,   \* is it being written?
    lost,      \* history: were there channels that nobody has any more?
    missed,    \* history: was the file changed unnoticed since it was read?
    faults, edits

program == <<phase, dryrun, cfg, poller, lost>>
timer   == <<handler, original, pipe, armed>>
file    == <<path, data, writing, edits>>
vars    == <<program, timer, watch, events, file, missed, faults>>

EMPTY == 1

\* What the configuration file holds, and what reading it makes.
Lines == IF path = 0 THEN EMPTY ELSE data[path]

Readings == [k \in DOMAIN Contents |-> config_read(Contents[k])]
Reading  == Readings[Lines]

NoPoller == [chns |-> << >>, n_channels |-> 0]

Init ==
    /\ phase = "make_daemon" /\ dryrun \in BOOLEAN
    /\ cfg = config_init /\ poller = NoPoller
    /\ handler = "default" /\ original = "default"
    /\ pipe = FALSE /\ armed = FALSE
    /\ watch = 0 /\ events = 0
    /\ path \in Inodes
    /\ \E lines \in DOMAIN Contents : data = [i \in Inodes |-> IF i = path THEN lines ELSE EMPTY]
    /\ writing = FALSE
    /\ lost = FALSE /\ missed = FALSE /\ faults = 0 /\ edits = 0

-----------------------------------------------------------------------------
(* The program, a call at a time.                                           *)

At(here, next) == phase = here /\ phase' = next

\* A call of the kernel fails.
Fails == faults < MaxFaults /\ faults' = faults + 1

\* The log cannot be opened, or the process not be made a daemon.
make_daemon ==
    /\ \/ At("make_daemon", "config_init") /\ UNCHANGED faults
       \/ At("make_daemon", "ended") /\ Fails
    /\ UNCHANGED <<dryrun, cfg, poller, lost, timer, watch, events, file, missed>>

ConfigInit ==
    /\ \/ At("config_init", "config_read") /\ cfg' = config_init /\ UNCHANGED faults
       \/ At("config_init", "sleep") /\ Fails /\ UNCHANGED cfg
    /\ UNCHANGED <<dryrun, poller, lost, timer, watch, events, file, missed>>

ConfigRead ==
    /\ LET r == Reading
       IN /\ At("config_read", IF r.ok /\ ~dryrun THEN "pipe" ELSE "config_destroy")
          /\ cfg' = r.cfg
    /\ missed' = FALSE
    /\ UNCHANGED <<dryrun, poller, lost, timer, watch, events, file, faults>>

\* timer_init.
TimerPipe ==
    /\ \/ At("pipe", "install_handler") /\ pipe' = TRUE /\ UNCHANGED faults
       \/ At("pipe", "config_destroy") /\ Fails /\ UNCHANGED pipe
    /\ UNCHANGED <<dryrun, cfg, poller, lost, handler, original, armed, watch, events, file,
                   missed>>

timer_install_handler ==
    /\ At("install_handler", "poller_init")
    /\ original' = handler /\ handler' = "timer_handler"
    /\ UNCHANGED <<dryrun, cfg, poller, lost, pipe, armed, watch, events, file, missed, faults>>

\* The channels are the poller's from here on, and are nobody's if it fails.
poller_init ==
    /\ cfg' = Ceded(cfg)
    /\ \/ /\ At("poller_init", "poller_loop") /\ path # 0
          /\ poller' = [chns |-> cfg.chns, n_channels |-> cfg.n_channels]
          /\ watch' = path
          /\ UNCHANGED <<lost, faults>>
       \/ /\ At("poller_init", "remove_handler")
          /\ IF path = 0 THEN UNCHANGED faults ELSE Fails
          /\ lost' = (lost \/ cfg.chns # << >>)
          /\ UNCHANGED <<poller, watch>>
    /\ UNCHANGED <<dryrun, timer, events, file, missed>>

\* The channels and the deferred packets are handled; the timer is set, or not.
HandleEvents ==
    /\ phase = "poller_loop"
    /\ armed' \in BOOLEAN
    /\ UNCHANGED <<program, handler, original, pipe, watch, events, file, missed, faults>>

\* poller_check_config: the loop ends if the file is found to be good.
CheckConfig ==
    /\ phase = "poller_loop" /\ events > 0
    /\ events' = events - 1
    /\ phase' = IF Reading.ok THEN "poller_destroy" ELSE phase
    /\ UNCHANGED <<dryrun, cfg, poller, lost, timer, watch, file, missed, faults>>

PollFails ==
    /\ At("poller_loop", "poller_destroy") /\ Fails
    /\ UNCHANGED <<dryrun, cfg, poller, lost, timer, watch, events, file, missed>>

\* Mutant: the watch is left.
BugPollerDestroy ==
    /\ At("poller_destroy", "remove_handler")
    /\ poller' = NoPoller
    /\ UNCHANGED <<dryrun, cfg, lost, timer, watch, events, file, missed, faults>>

poller_destroy ==
    /\ At("poller_destroy", "remove_handler")
    /\ poller' = NoPoller /\ watch' = 0 /\ events' = 0
    /\ UNCHANGED <<dryrun, cfg, lost, timer, file, missed, faults>>

\* Mutant: the pipe is closed, and the handler stays.
BugRemoveHandler ==
    /\ At("remove_handler", "close_pipe")
    /\ pipe' = FALSE
    /\ UNCHANGED <<dryrun, cfg, poller, lost, handler, original, armed, watch, events, file,
                   missed, faults>>

\* timer_destroy.
timer_remove_handler ==
    /\ At("remove_handler", "close_pipe")
    /\ handler' = original
    /\ UNCHANGED <<dryrun, cfg, poller, lost, original, pipe, armed, watch, events, file,
                   missed, faults>>

ClosePipe ==
    /\ At("close_pipe", "config_destroy")
    /\ pipe' = FALSE
    /\ UNCHANGED <<dryrun, cfg, poller, lost, handler, original, armed, watch, events, file,
                   missed, faults>>

\* What the configuration still has is destroyed.
config_destroy ==
    /\ At("config_destroy", IF dryrun THEN "ended" ELSE "sleep")
    /\ cfg' = config_init
    /\ UNCHANGED <<dryrun, poller, lost, timer, watch, events, file, missed, faults>>

\* A second later all of it again, whether the run ended well or not.
Sleep ==
    /\ At("sleep", IF dryrun THEN "ended" ELSE "config_init")
    /\ UNCHANGED <<dryrun, cfg, poller, lost, timer, watch, events, file, missed, faults>>

\* The interval timer goes off.
Alarm ==
    /\ armed /\ armed' = FALSE
    /\ phase \notin {"ended", "killed"}
    /\ phase' = IF handler = "default" THEN "killed" ELSE phase
    /\ UNCHANGED <<dryrun, cfg, poller, lost, handler, original, pipe, watch, events, file,
                   missed, faults>>

-----------------------------------------------------------------------------
(* The file is changed.                                                     *)

\* Mutant: a file that was written is not asked for.
BugMask == {"move_self", "ignored"}

\* The events that come: those asked for, and the end of the watch.
Mask == {"close_write", "move_self", "ignored"}

\* Something happens to file i; an event comes of it if it is watched.
Notify(i, event) ==
    /\ events' = IF i = watch /\ event \in Mask /\ events < MaxQueue THEN events + 1 ELSE events
    /\ missed' = (missed \/ i # watch)

Edit ==
    /\ edits < MaxEdits /\ edits' = edits + 1
    /\ UNCHANGED <<program, timer, faults>>

\* It is opened for writing, which empties it, and which nobody asks to be told ...
Truncate ==
    /\ Edit /\ path # 0 /\ ~writing /\ writing' = TRUE
    /\ data' = [data EXCEPT ![path] = EMPTY]
    /\ UNCHANGED <<path, watch, events, missed>>

\* ... some of its new lines get there, which make a configuration or not ...
WriteSome(lines) ==
    /\ Edit /\ writing
    /\ data' = [data EXCEPT ![path] = lines]
    /\ UNCHANGED <<path, writing, watch, events, missed>>

\* ... and it is closed with all of them.
CloseWrite(lines) ==
    /\ writing /\ writing' = FALSE
    /\ data' = [data EXCEPT ![path] = lines]
    /\ Notify(path, "close_write")
    /\ UNCHANGED <<program, timer, faults, path, watch, edits>>

\* It is given another name, with the watch on it.
MoveAway ==
    /\ Edit /\ path # 0 /\ ~writing /\ path' = 0
    /\ Notify(path, "move_self")
    /\ UNCHANGED <<data, writing, watch>>

\* It gets its name back.
MoveBack(i) ==
    /\ Edit /\ path = 0 /\ path' = i
    /\ Notify(i, "move_self")
    /\ UNCHANGED <<data, writing, watch>>

\* The file that has the name is no more, and neither is a watch on it.
Unlinked(i) ==
    /\ Notify(i, "ignored")
    /\ watch' = IF watch = i THEN 0 ELSE watch

Delete ==
    /\ Edit /\ path # 0 /\ ~writing /\ path' = 0
    /\ Unlinked(path)
    /\ UNCHANGED <<data, writing>>

\* Another file is given its name, one that is not watched.
Replace(i, lines) ==
    /\ Edit /\ ~writing /\ i \notin {path, watch} /\ path' = i
    /\ data' = [data EXCEPT ![i] = lines]
    /\ IF path = 0 THEN Notify(i, "create") /\ UNCHANGED watch ELSE Unlinked(path)
    /\ UNCHANGED writing

Program == \/ make_daemon \/ ConfigInit \/ ConfigRead
           \/ TimerPipe \/ timer_install_handler \/ poller_init
           \/ CheckConfig \/ PollFails \/ poller_destroy
           \/ timer_remove_handler \/ ClosePipe \/ config_destroy \/ Sleep

Next == \/ Program
        \/ HandleEvents
        \/ Alarm
        \/ Truncate
        \/ \E lines \in DOMAIN Contents : WriteSome(lines)
        \/ \E lines \in DOMAIN Contents : CloseWrite(lines)
        \/ MoveAway
        \/ \E i \in Inodes : MoveBack(i)
        \/ Delete
        \/ \E i \in Inodes, lines \in DOMAIN Contents : Replace(i, lines)

Spec == Init /\ [][Next]_vars

\* The program runs; nothing else has to happen.
FairSpec == Spec /\ WF_vars(Program)

-----------------------------------------------------------------------------
(* Properties.                                                              *)

\* Everything has its type; there is a watch, and what it has reported, for as long
\* as there is a poller, and channels are lost only when something failed or the
\* file was moved (poller_init, poller_destroy).
TypeOK ==
    /\ dryrun \in BOOLEAN /\ pipe \in BOOLEAN /\ armed \in BOOLEAN
    /\ {handler, original} \subseteq {"default", "timer_handler"}
    /\ watch \in Inodes \cup {0} /\ events \in 0 .. MaxQueue
    /\ path \in Inodes \cup {0} /\ data \in [Inodes -> DOMAIN Contents]
    /\ phase \notin {"poller_loop", "poller_destroy"} => watch = 0 /\ events = 0
    /\ lost \in BOOLEAN /\ (lost => faults > 0 \/ edits > 0)

\* Whenever the timer goes off with the handler in place, its pipe is open: the
\* handler writes to no descriptor that has been closed, or given to a channel, in
\* any run, whichever of the earlier ones failed (timer_init, timer_destroy).
HandlerHasPipe == handler = "timer_handler" => pipe

\* The ports that a file's directives link, an input to an output.
Asked == LET lines == Contents[Lines]
         IN {<<lines[k].directive.port_in, lines[k].directive.port_out>> :
                k \in {j \in DOMAIN lines : lines[j].fields >= 5}}

Linked(chns) ==
    UNION {{<<chns[c].port, chns[cfg.writers[w].chn].port>> : w \in Range(chns[c].links)} :
              c \in DOMAIN chns}

\* The poller polls every channel it was given, and each port once: no descriptor is
\* opened twice on a serial port that is an input and an output.  The links are
\* those of the file, though channels are shared and writers are not; unless it was
\* changed since, or is being written: what is read of it halfway may be good, and
\* runs until it is closed (config_directive, channel_matches, config_cede_channels).
Configured ==
    phase = "poller_loop" =>
        /\ poller.n_channels = Len(poller.chns)
        /\ \A c, e \in DOMAIN poller.chns :
              LET p == poller.chns[c]  q == poller.chns[e]
              IN c # e /\ p.port = q.port => ~p.port.sport /\ p.flags # q.flags
        /\ \A w \in DOMAIN cfg.writers :
              Cardinality({c \in DOMAIN poller.chns : w \in Range(poller.chns[c].links)}) = 1
        /\ events = 0 /\ ~missed /\ ~writing /\ Reading.ok => Linked(poller.chns) = Asked

\* Once the file is no more changed, nor left open by who writes it, the program runs
\* with what it says, or it was changed unnoticed: between its reading and the watch,
\* or under a name that the watched file no longer had.  It does not matter how often
\* it was found bad, that it was checked and then changed before it was read, that a
\* part of it was read and taken for all, or what failed meanwhile
\* (poller_check_config, run_protozoa, main).
UpToDate ==
    /\ phase = "poller_loop"
    /\ cfg.writers = Reading.cfg.writers /\ poller.chns = Reading.cfg.chns

NewestRuns ==
    \/ <>(phase \in {"ended", "killed"})
    \/ <>[](missed \/ writing \/ ~Reading.ok)
    \/ <>[]UpToDate

\* poller.c says of the end of its loop: 0 to restart daemon.  The program is then not
\* ended by its own timer.
NotKilled == phase # "killed"
==============================================================================
