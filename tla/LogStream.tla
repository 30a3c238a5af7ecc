------------------------------ MODULE LogStream ------------------------------
(***************************************************************************)
(* The live logs (handlers/logs.go).  A viewer's request registers a       *)
(* buffered channel in logSubscribers, under subMutex, and starts          *)
(* collectors: one per host that lists the running containers, then one    *)
(* per container that reads its log.  A collector broadcasts what it reads *)
(* to the channels of all viewers, under the read lock, and skips those    *)
(* that are full.  A viewer that leaves is taken off the map, then its     *)
(* channel is closed; its collectors see the cancelled context.            *)
(*                                                                         *)
(* A log is counted in pieces of eight bytes: a line is a header, which is *)
(* one piece, and its text.  A read of a collector returns some of the     *)
(* pieces there are, and may begin and end inside a line.  It becomes an   *)
(* entry without its first piece, which the collector takes for a header,  *)
(* or nothing if that was all.  A process that sends on a closed channel   *)
(* panics.  Cuts inside a piece are not modelled, nor what                 *)
(* HandleGetLogSources reads.                                              *)
(***************************************************************************)
EXTENDS Naturals, Sequences, FiniteSets

CONSTANTS
    Viewers,     \* requests for /logs/stream
    Containers,
    HostOf,      \* the host of each container
    StackOf,     \* its stack,
    NoStack,     \* if it has one
    Filters,     \* the filters each viewer may come with
    NoEntry,     \* a collector that holds none
    Buffer,      \* the capacity of a channel, 100
    LinePieces,  \* the pieces of a line
    Window,      \* the pieces a read may return, 512
    Backlog,     \* those of the old lines a collector starts with, 50 lines
    MaxLog,      \* bound on the pieces of a log
    MaxEvents    \* bound on what comes from outside: lines, starts, stops,
                 \* disconnects and failing calls to Docker, together

Hosts == {HostOf[c] : c \in Containers}

(* A condition that is the empty set is none.  text: whether the filter    *)
(* looks at what the lines say, their level among it.                      *)
Filter == [follow : BOOLEAN, hosts : SUBSET Hosts,
           stacks : SUBSET {StackOf[c] : c \in Containers},
           containers : SUBSET Containers, text : BOOLEAN]

Collectors == Viewers \X Containers
Entries == [by : Collectors, first : 1..MaxLog, last : 1..MaxLog]

ASSUME LogStreamAssumption ==
    /\ NoEntry \notin Entries
    /\ Filters \in [Viewers -> SUBSET Filter]
    /\ Buffer \in Nat \ {0} /\ Backlog \in Nat \ {0}
    /\ LinePieces \in Nat \ {0} /\ Window \in Nat \ {0}
    /\ MaxLog \in Nat /\ MaxEvents \in Nat

VARIABLES
    log,       \* how many pieces each container has written
    running,   \* the containers that run
    at,        \* where each viewer's handler is
    filter,    \* its filter
    left,      \* the viewers whose connection is gone: ctx.Done()
    subs,      \* the keys of logSubscribers
    chan,      \* each viewer's channel
    closed,    \* the channels that are closed
    got,       \* the last piece each viewer has received from a collector
    lost,      \* what its own viewer will not see of a collector's since, its
               \* channel being full,
    dropped,   \* or being a read of a single piece
    owed,      \* the matching entries put in a channel and not written yet
    lister,    \* where each viewer's goroutine of a host is
    col,       \* where each viewer's collector of a container is
    pos,       \* the piece it reads next
    entry,     \* what it has read
    rest,      \* the channels its broadcast has still to come to
    panicked,
    events

docker == <<log, running>>
handlers == <<at, filter, left>>
channels == <<subs, chan, closed, got, lost, dropped, owed, panicked>>
collectors == <<col, pos, entry, rest>>
vars == <<docker, handlers, channels, lister, collectors, events>>

Listers == Viewers \X Hosts

TypeOK ==
    /\ log \in [Containers -> 0..MaxLog]
    /\ running \subseteq Containers
    /\ at \in [Viewers -> {"away", "watch", "write", "query", "leave", "close", "gone"}]
    /\ filter \in [Viewers -> Filter]
    /\ left \subseteq Viewers /\ subs \subseteq Viewers /\ closed \subseteq Viewers
    /\ chan \in [Viewers -> Seq(Entries)] /\ \A v \in Viewers : Len(chan[v]) <= Buffer
    /\ got \in [Viewers \X Collectors -> 0..MaxLog]
    /\ lost \in [Collectors -> SUBSET (1..MaxLog)]
    /\ dropped \in [Collectors -> SUBSET (1..MaxLog)]
    /\ owed \in [Viewers -> SUBSET Entries]
    /\ lister \in [Listers -> {"none", "list", "done"}]
    /\ col \in [Collectors -> {"none", "open", "read", "send", "done"}]
    /\ pos \in [Collectors -> 1..MaxLog + 1]
    /\ entry \in [Collectors -> Entries \cup {NoEntry}]
    /\ rest \in [Collectors -> SUBSET Viewers]
    /\ panicked \in BOOLEAN
    /\ events \in 0..MaxEvents

Init ==
    /\ log = [c \in Containers |-> 0] /\ running = Containers
    /\ at = [v \in Viewers |-> "away"]
    /\ filter \in {f \in [Viewers -> UNION {Filters[v] : v \in Viewers}] :
                     \A v \in Viewers : f[v] \in Filters[v]}
    /\ left = {} /\ subs = {} /\ closed = {} /\ panicked = FALSE
    /\ chan = [v \in Viewers |-> <<>>]
    /\ got = [r \in Viewers \X Collectors |-> 0]
    /\ lost = [k \in Collectors |-> {}] /\ dropped = [k \in Collectors |-> {}]
    /\ owed = [v \in Viewers |-> {}]
    /\ lister = [l \in Listers |-> "none"]
    /\ col = [k \in Collectors |-> "none"] /\ pos = [k \in Collectors |-> 1]
    /\ entry = [k \in Collectors |-> NoEntry] /\ rest = [k \in Collectors |-> {}]
    /\ events = 0

-----------------------------------------------------------------------------
(* Filters.                                                                *)

Passes(condition, value) == condition = {} \/ value \in condition

(* The containers whose logs a viewer's collectors read.                   *)
Collects(v, c) ==
    /\ Passes(filter[v].hosts, HostOf[c])
    /\ Passes(filter[v].containers, c)
    /\ Passes(filter[v].stacks, StackOf[c])

(* Mutant: only the collectors look at the containers of the filter.       *)
Matches_AnyContainer(v, c) ==
    /\ Passes(filter[v].hosts, HostOf[c])
    /\ StackOf[c] # NoStack => Passes(filter[v].stacks, StackOf[c])

(* Where a viewer passes on the entries it receives: a container without a *)
(* stack passes the condition on stacks.                                   *)
Matches(v, c) ==
    /\ Passes(filter[v].hosts, HostOf[c])
    /\ StackOf[c] # NoStack => Passes(filter[v].stacks, StackOf[c])
    /\ Passes(filter[v].containers, c)

-----------------------------------------------------------------------------
(* The handler of a viewer.                                                *)

Event == events < MaxEvents /\ events' = events + 1
Goto(v, place) == at' = [at EXCEPT ![v] = place]

Readers == {k \in Collectors : col[k] = "send"}

(* Under the lock; then the collectors start.  Without follow the handler  *)
(* shows the rows of container_logs, which nothing writes.                 *)
Register(v) ==
    /\ at[v] = "away" /\ Readers = {}
    /\ subs' = subs \cup {v}
    /\ IF filter[v].follow
       THEN /\ lister' = [l \in Listers |->
                            IF l[1] = v /\ Passes(filter[v].hosts, l[2]) THEN "list"
                            ELSE lister[l]]
            /\ Goto(v, "watch")
       ELSE Goto(v, "query") /\ UNCHANGED lister
    /\ UNCHANGED <<docker, filter, left, chan, closed, got, lost, dropped, owed,
                   panicked, collectors, events>>

(* The channel is on the map all the while.                                *)
SendHistoricalLogs(v) ==
    /\ at[v] = "query"
    /\ Goto(v, "leave")
    /\ UNCHANGED <<docker, filter, left, channels, lister, collectors, events>>

(* The first entry of the channel, and what is left out before it.         *)
Take(v) ==
    LET e == Head(chan[v])
        later(S) == IF e.by[1] = v THEN [S EXCEPT ![e.by] = {n \in @ : n > e.last}] ELSE S
    IN  /\ chan' = [chan EXCEPT ![v] = Tail(@)]
        /\ got' = [got EXCEPT ![<<v, e.by>>] = e.last]
        /\ lost' = later(lost) /\ dropped' = later(dropped)

(* Mutant: a backlog is skipped, only the newest entry is written.         *)
Receive_Newest(v) ==
    /\ at[v] = "watch" /\ chan[v] # <<>>
    /\ Take(v)
    /\ IF Tail(chan[v]) = <<>> /\ Matches(v, Head(chan[v]).by[2])
       THEN owed' = [owed EXCEPT ![v] = @ \ {Head(chan[v])}] /\ Goto(v, "write")
       ELSE UNCHANGED <<at, owed>>
    /\ UNCHANGED <<docker, filter, left, subs, closed, panicked, lister, collectors, events>>

(* An entry is received; one that matches is written to the client, which  *)
(* may be slow.                                                            *)
Receive(v) ==
    /\ at[v] = "watch" /\ chan[v] # <<>>
    /\ Take(v)
    /\ LET e == Head(chan[v])
       IN  \/ /\ Matches(v, e.by[2])
              /\ owed' = [owed EXCEPT ![v] = @ \ {e}]
              /\ Goto(v, "write")
           \/ /\ filter[v].text \/ ~Matches(v, e.by[2])
              /\ UNCHANGED <<at, owed>>
    /\ UNCHANGED <<docker, filter, left, subs, closed, panicked, lister, collectors, events>>

Written(v) ==
    /\ at[v] = "write"
    /\ Goto(v, "watch")
    /\ UNCHANGED <<docker, filter, left, channels, lister, collectors, events>>

(* The client disconnects, at any time.                                    *)
Disconnect(v) ==
    /\ Event /\ at[v] \in {"watch", "write"} /\ v \notin left
    /\ left' = left \cup {v}
    /\ UNCHANGED <<docker, at, filter, channels, lister, collectors>>

(* Mutant: the handler does not wait for the broadcasts under way.         *)
Delete_NoLock(v) ==
    /\ at[v] = "leave" \/ (at[v] = "watch" /\ v \in left)
    /\ subs' = subs \ {v}
    /\ Goto(v, "close")
    /\ UNCHANGED <<docker, filter, left, chan, closed, got, lost, dropped, owed,
                   panicked, lister, collectors, events>>

(* Under the lock.                                                         *)
Delete(v) ==
    /\ at[v] = "leave" \/ (at[v] = "watch" /\ v \in left)
    /\ Readers = {}
    /\ subs' = subs \ {v}
    /\ Goto(v, "close")
    /\ UNCHANGED <<docker, filter, left, chan, closed, got, lost, dropped, owed,
                   panicked, lister, collectors, events>>

(* Nobody can see what was in the channel.                                 *)
Close(v) ==
    /\ at[v] = "close"
    /\ closed' = closed \cup {v}
    /\ chan' = [chan EXCEPT ![v] = <<>>]
    /\ got' = [r \in Viewers \X Collectors |-> IF r[1] = v THEN 0 ELSE got[r]]
    /\ lost' = [k \in Collectors |-> IF k[1] = v THEN {} ELSE lost[k]]
    /\ dropped' = [k \in Collectors |-> IF k[1] = v THEN {} ELSE dropped[k]]
    /\ owed' = [owed EXCEPT ![v] = {}]
    /\ Goto(v, "gone")
    /\ UNCHANGED <<docker, filter, left, subs, panicked, lister, collectors, events>>

-----------------------------------------------------------------------------
(* The collectors.                                                         *)

Step(k, place) == col' = [col EXCEPT ![k] = place]

(* The containers that run now get a collector, unless the host cannot be  *)
(* reached, the list fails or the viewer has left.                         *)
List(v, h) ==
    /\ lister[<<v, h>>] = "list"
    /\ lister' = [lister EXCEPT ![<<v, h>>] = "done"]
    /\ \/ /\ v \notin left
          /\ col' = [k \in Collectors |->
                        IF k[1] = v /\ k[2] \in running /\ HostOf[k[2]] = h
                           /\ Collects(v, k[2])
                        THEN "open" ELSE col[k]]
          /\ UNCHANGED events
       \/ v \in left /\ UNCHANGED <<col, events>>
       \/ Event /\ UNCHANGED col
    /\ UNCHANGED <<docker, handlers, channels, pos, entry, rest>>

(* ContainerLogs, from the last lines on.                                  *)
Open(k) ==
    /\ col[k] = "open"
    /\ \/ /\ k[1] \notin left
          /\ pos' = [pos EXCEPT ![k] =
                        IF log[k[2]] > Backlog THEN log[k[2]] - Backlog + 1 ELSE 1]
          /\ got' = [got EXCEPT ![<<k[1], k>>] = pos'[k] - 1]
          /\ Step(k, "read")
          /\ UNCHANGED events
       \/ k[1] \in left /\ Step(k, "done") /\ UNCHANGED <<pos, got, events>>
       \/ Event /\ Step(k, "done") /\ UNCHANGED <<pos, got>>
    /\ UNCHANGED <<docker, handlers, subs, chan, closed, lost, dropped, owed, panicked,
                   lister, entry, rest>>

(* What a read up to a piece makes: an entry for all, under the read lock  *)
(* (handlers change the map only between broadcasts), or, of no more than  *)
(* eight bytes, nothing: the loop goes on, and looks at the context.       *)
Reads(k, last) ==
    \/ /\ last > pos[k]
       /\ entry' = [entry EXCEPT ![k] = [by |-> k, first |-> pos[k], last |-> last]]
       /\ rest' = [rest EXCEPT ![k] = subs]
       /\ Step(k, "send")
       /\ UNCHANGED dropped
    \/ /\ last = pos[k]
       /\ dropped' = [dropped EXCEPT ![k] = @ \cup {last}]
       /\ Step(k, IF k[1] \in left THEN "done" ELSE "read")
       /\ UNCHANGED <<entry, rest>>

(* Mutant: the end of what was read is read once more.                    *)
Read_Again(k) ==
    /\ col[k] = "read"
    /\ \E last \in pos[k]..log[k[2]] :
          /\ last < pos[k] + Window
          /\ Reads(k, last)
          /\ pos' = [pos EXCEPT ![k] = IF last > @ THEN last ELSE last + 1]
    /\ UNCHANGED <<docker, handlers, subs, chan, closed, got, lost, owed, panicked, lister,
                   events>>

(* Mutant: what comes after an entry is passed over.                      *)
Read_SkipsOne(k) ==
    /\ col[k] = "read"
    /\ \E last \in pos[k]..log[k[2]] :
          /\ last < pos[k] + Window
          /\ Reads(k, last)
          /\ pos' = [pos EXCEPT ![k] = last + 2]
    /\ UNCHANGED <<docker, handlers, subs, chan, closed, got, lost, owed, panicked, lister,
                   events>>

(* One read returns what there is or a part of it, up to 4096 bytes.       *)
Read(k) ==
    /\ col[k] = "read"
    /\ \E last \in pos[k]..log[k[2]] :
          /\ last < pos[k] + Window
          /\ Reads(k, last)
          /\ pos' = [pos EXCEPT ![k] = last + 1]
    /\ UNCHANGED <<docker, handlers, subs, chan, closed, got, lost, owed, panicked, lister,
                   events>>

(* Mutant: the log is not read under the context of the request.          *)
End_StaysOn(k) ==
    /\ col[k] = "read"
    /\ \/ pos[k] > log[k[2]] /\ k[2] \notin running /\ UNCHANGED events
       \/ Event
    /\ Step(k, "done")
    /\ UNCHANGED <<docker, handlers, channels, lister, pos, entry, rest>>

(* The container has stopped, the viewer has left, or the read fails.      *)
End(k) ==
    /\ col[k] = "read"
    /\ \/ pos[k] > log[k[2]] /\ k[2] \notin running /\ UNCHANGED events
       \/ k[1] \in left /\ UNCHANGED events
       \/ Event
    /\ Step(k, "done")
    /\ UNCHANGED <<docker, handlers, channels, lister, pos, entry, rest>>

(* What an entry was read from.                                            *)
Pieces(e) == e.first..e.last

(* A channel that is full is skipped.                                      *)
Send(k, v) ==
    /\ col[k] = "send" /\ v \in rest[k]
    /\ rest' = [rest EXCEPT ![k] = @ \ {v}]
    /\ IF v \in closed
       THEN panicked' = TRUE /\ UNCHANGED <<chan, lost, owed>>
       ELSE IF Len(chan[v]) < Buffer
       THEN /\ chan' = [chan EXCEPT ![v] = Append(@, entry[k])]
            /\ owed' = IF Matches(v, k[2]) /\ ~filter[v].text
                       THEN [owed EXCEPT ![v] = @ \cup {entry[k]}] ELSE owed
            /\ UNCHANGED <<lost, panicked>>
       ELSE /\ lost' = IF k[1] = v THEN [lost EXCEPT ![k] = @ \cup Pieces(entry[k])] ELSE lost
            /\ UNCHANGED <<chan, owed, panicked>>
    /\ UNCHANGED <<docker, handlers, subs, closed, got, dropped, lister, col, pos, entry,
                   events>>

(* Back to the top of the loop, which looks at the context.                *)
RUnlock(k) ==
    /\ col[k] = "send" /\ rest[k] = {}
    /\ entry' = [entry EXCEPT ![k] = NoEntry]
    /\ Step(k, IF k[1] \in left THEN "done" ELSE "read")
    /\ UNCHANGED <<docker, handlers, channels, lister, pos, rest, events>>

-----------------------------------------------------------------------------
(* Docker, and the system.                                                 *)

WriteLine(c) ==
    /\ Event /\ c \in running /\ log[c] + LinePieces <= MaxLog
    /\ log' = [log EXCEPT ![c] = @ + LinePieces]
    /\ UNCHANGED <<running, handlers, channels, lister, collectors>>

StartOrStop(c) ==
    /\ Event
    /\ running' = IF c \in running THEN running \ {c} ELSE running \cup {c}
    /\ UNCHANGED <<log, handlers, channels, lister, collectors>>

Handler(v) ==
    SendHistoricalLogs(v) \/ Receive(v) \/ Delete(v) \/ Close(v)

Broadcast(k) == RUnlock(k) \/ \E v \in Viewers : Send(k, v)
Collector(k) == Open(k) \/ Read(k) \/ End(k) \/ Broadcast(k)

Next ==
    /\ ~panicked
    /\ \/ \E v \in Viewers : Register(v) \/ Handler(v) \/ Written(v) \/ Disconnect(v)
       \/ \E v \in Viewers, h \in Hosts : List(v, h)
       \/ \E k \in Collectors : Collector(k)
       \/ \E c \in Containers : WriteLine(c) \/ StartOrStop(c)

Spec == Init /\ [][Next]_vars

(* Goroutines go on.  Strongly so where they wait for the lock: a Lock     *)
(* that waits keeps further readers out, and select takes either branch.   *)
(* A write to a client that is gone returns; a client that is there may be *)
(* slow for ever.  Viewers, lines, starts, stops and failures need not     *)
(* come.                                                                   *)
Fairness ==
    /\ \A v \in Viewers : /\ WF_vars(Handler(v)) /\ SF_vars(Delete(v))
                          /\ WF_vars(v \in left /\ Written(v))
    /\ \A v \in Viewers, h \in Hosts : WF_vars(List(v, h))
    /\ \A k \in Collectors : WF_vars(Collector(k))

FairSpec == Spec /\ Fairness

-----------------------------------------------------------------------------
(* Properties.                                                             *)

(* No broadcast comes to a channel that has been closed, on which a send   *)
(* would end the process: HandleLogStream closes it only when it is off    *)
(* the map, and takes it off only when no broadcast is under way.          *)
NeverPanics == ~panicked

(* What a viewer is shown is a LogTail: of each collector's reads none     *)
(* twice, in the order in which the log was written, through the channel   *)
(* that all collectors share; and each that it does not see between two    *)
(* others of a container it follows was of a single piece, or was skipped  *)
(* because its channel was full.                                           *)
Tailing == INSTANCE LogTail WITH
    read <- [k \in Collectors |-> pos[k] - 1], seen <- got,
    missed <- [k \in Collectors |-> lost[k] \cup dropped[k]]
ImplementsTail == Tailing!TailSpec

(* Whatever a collector of its own has read since the last entry a viewer  *)
(* received from it is in the viewer's channel, about to be sent, lost to  *)
(* a full channel or of a read of a single piece: the channel is on the    *)
(* map before the collector starts.  Of each entry the first piece is not  *)
(* shown.                                                                  *)
NothingVanishes ==
    \A v \in Viewers, c \in Containers :
        LET k == <<v, c>>
        IN  at[v] \in {"watch", "write"} =>
            \A n \in got[<<v, k>>] + 1..pos[k] - 1 :
                \/ n \in lost[k] \cup dropped[k]
                \/ \E m \in DOMAIN chan[v] : chan[v][m].by = k /\ n \in Pieces(chan[v][m])
                \/ /\ entry[k] # NoEntry /\ n \in Pieces(entry[k])
                   /\ v \in rest[k]

(* Every collector broadcasts to every viewer, yet a viewer is shown only  *)
(* the containers its own collectors would read - and, if it asks for      *)
(* stacks, those without one that another viewer's collectors read.        *)
ShownIsAskedFor ==
    [][\A v \in Viewers : at[v] = "watch" /\ at'[v] = "write" =>
          LET c == Head(chan[v]).by[2]
          IN  Collects(v, c) \/ (StackOf[c] = NoStack /\ filter[v].stacks # {})]_vars

(* Once a viewer has disconnected its request ends, and so does every      *)
(* goroutine that it started, though another viewer's client may not read. *)
ViewersLeave ==
    \A v \in Viewers :
        v \in left ~> /\ at[v] = "gone"
                      /\ \A h \in Hosts : lister[<<v, h>>] # "list"
                      /\ \A c \in Containers : col[<<v, c>>] \in {"none", "done"}

(* To a viewer that keeps up each matching entry that was put in its       *)
(* channel is written in the end, unless the viewer disconnects.  (Whether *)
(* one matches a condition on the text is left open.)                      *)
EntriesArrive ==
    \A v \in Viewers : []<>(at[v] # "write") =>
        (owed[v] # {} ~> owed[v] = {} \/ v \in left)

(* Stated but not checked, since the code does not make it so: what a      *)
(* collector leaves out of its reads are the headers of lines ("first 8    *)
(* bytes are header").  A read that begins inside a line loses its text.   *)
LeavesOutHeaders ==
    \A k \in Collectors : \A e \in {entry[k]} \ {NoEntry} : e.first % LinePieces = 1

-----------------------------------------------------------------------------
(* What holds beyond the properties the runs check.                        *)

(* The entries in a channel are in the order in which the log was          *)
(* written, and later than what the viewer has received, for each of the   *)
(* collectors that broadcast into it.                                      *)
InOrder ==
    \A v \in Viewers : \A n \in DOMAIN chan[v] :
        LET e == chan[v][n]
        IN  /\ got[<<v, e.by>>] < e.first
            /\ \A m \in 1..n - 1 : chan[v][m].by = e.by => chan[v][m].last < e.first

(* How often a collector whose viewer has left still comes to its loop.    *)
RoundsLeft(k) ==
    CASE col[k] \in {"open", "read"} -> 2
      [] col[k] = "send" -> 1
      [] col[k] \in {"none", "done"} -> 0

(* No goroutine outlives its viewer by more than one read and broadcast,   *)
(* and none is started any more: whatever a collector of a viewer that has *)
(* left does brings it nearer to its end.                                  *)
LeaversStop ==
    [][\A k \in Collectors : (k[1] \in left /\ col'[k] # col[k]) =>
          RoundsLeft(k)' < RoundsLeft(k)]_vars
=============================================================================
