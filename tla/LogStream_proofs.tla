-------------------------- MODULE LogStream_proofs --------------------------
(***************************************************************************)
(* Proofs about LogStream, for any number of viewers and containers and    *)
(* channels of any capacity: types; no send on a closed channel; reads in  *)
(* order and none that vanishes; nothing is shown that was not asked for;  *)
(* that the logs are a LogTail; and that who leaves only comes nearer to   *)
(* its end.                                                                *)
(***************************************************************************)
EXTENDS LogStream, SequenceTheorems, TLAPS

-----------------------------------------------------------------------------
(* Types.                                                                  *)

(* A collector that broadcasts holds an entry of its own.                  *)
Sending == \A k \in Collectors : col[k] = "send" => entry[k] \in Entries /\ entry[k].by = k
TInv == TypeOK /\ Sending

LEMMA TypeInit == Init => TypeOK
<1> SUFFICES ASSUME Init PROVE TypeOK
    OBVIOUS
<1>1. filter \in [Viewers -> Filter]
  <2>1. filter \in [Viewers -> UNION {Filters[v] : v \in Viewers}]
        /\ \A v \in Viewers : filter[v] \in Filters[v]
      BY DEF Init
  <2>2. \A v \in Viewers : filter[v] \in Filter
      BY <2>1, LogStreamAssumption
  <2> QED
      BY <2>1, <2>2
<1>2. 0 \in 0..MaxLog /\ 1 \in 1..MaxLog + 1 /\ 0 \in 0..MaxEvents
    BY LogStreamAssumption
<1>3. chan \in [Viewers -> Seq(Entries)] /\ \A v \in Viewers : Len(chan[v]) <= Buffer
  <2>1. <<>> \in Seq(Entries) /\ Len(<<>>) <= Buffer
      BY EmptySeq, LogStreamAssumption
  <2> QED
      BY <2>1 DEF Init
<1> QED
    BY <1>1, <1>2, <1>3 DEF Init, TypeOK

LEMMA EventType == ASSUME TypeOK, Event PROVE events' \in 0..MaxEvents
    BY LogStreamAssumption DEF TypeOK, Event

LEMMA EntryType ==
    ASSUME NEW e \in Entries
    PROVE  /\ e.by \in Collectors /\ e.by[1] \in Viewers /\ e.by[2] \in Containers
           /\ e.first \in 1..MaxLog /\ e.last \in 1..MaxLog /\ e.last \in 0..MaxLog
    BY LogStreamAssumption DEF Entries, Collectors

(* What is left when the first entry of a channel is received.             *)
LEMMA Received ==
    ASSUME NEW s \in Seq(Entries), s # <<>>
    PROVE  /\ Head(s) \in Entries /\ Head(s) = s[1] /\ 1 \in DOMAIN s
           /\ Tail(s) \in Seq(Entries) /\ Len(Tail(s)) = Len(s) - 1
           /\ \A n \in DOMAIN Tail(s) : n + 1 \in DOMAIN s /\ Tail(s)[n] = s[n + 1]
           /\ \A n \in DOMAIN s : n # 1 => n - 1 \in DOMAIN Tail(s)
    BY HeadTailProperties

(* What is there when one more is sent.                                    *)
LEMMA Appended ==
    ASSUME NEW s \in Seq(Entries), NEW e \in Entries
    PROVE  /\ Append(s, e) \in Seq(Entries) /\ Len(Append(s, e)) = Len(s) + 1
           /\ Len(s) + 1 \in DOMAIN Append(s, e) /\ Append(s, e)[Len(s) + 1] = e
           /\ \A n \in DOMAIN s : n \in DOMAIN Append(s, e) /\ Append(s, e)[n] = s[n]
           /\ \A n \in DOMAIN Append(s, e) : n \in DOMAIN s \/ n = Len(s) + 1
    BY AppendProperties

LEMMA TypeHandler ==
    ASSUME TypeOK, NEW v \in Viewers,
           Register(v) \/ Handler(v) \/ Written(v) \/ Disconnect(v)
    PROVE  TypeOK'
<1> USE DEF docker, handlers, channels, collectors, Goto
<1>1. CASE Register(v)
  <2>1. at' \in [Viewers -> {"away", "watch", "write", "query", "leave", "close", "gone"}]
    <3>1. \E place \in {"watch", "query"} : at' = [at EXCEPT ![v] = place]
        BY <1>1 DEF Register
    <3> QED
        BY <3>1 DEF TypeOK
  <2>2. lister' \in [Listers -> {"none", "list", "done"}]
      BY <1>1 DEF Register, TypeOK
  <2>3. /\ subs' \subseteq Viewers
        /\ UNCHANGED <<docker, filter, left, chan, closed, got, lost, dropped, owed,
                       panicked, collectors, events>>
      BY <1>1 DEF Register, TypeOK
  <2> QED
      BY <2>1, <2>2, <2>3 DEF TypeOK
<1>2. CASE SendHistoricalLogs(v) \/ Written(v) \/ Delete(v)
  <2>1. at' \in [Viewers -> {"away", "watch", "write", "query", "leave", "close", "gone"}]
      BY <1>2 DEF SendHistoricalLogs, Written, Delete, TypeOK
  <2>2. /\ subs' \subseteq Viewers
        /\ UNCHANGED <<docker, filter, left, chan, closed, got, lost, dropped, owed,
                       panicked, lister, collectors, events>>
      BY <1>2 DEF SendHistoricalLogs, Written, Delete, TypeOK
  <2> QED
      BY <2>1, <2>2 DEF TypeOK
<1>3. CASE Disconnect(v)
    BY <1>3, EventType DEF Disconnect, TypeOK
<1>4. CASE Close(v)
  <2>1. <<>> \in Seq(Entries) /\ Len(<<>>) <= Buffer /\ 0 \in 0..MaxLog
      BY EmptySeq, LogStreamAssumption
  <2>2. chan' \in [Viewers -> Seq(Entries)] /\ \A w \in Viewers : Len(chan'[w]) <= Buffer
      BY <1>4, <2>1 DEF Close, TypeOK
  <2>3. got' \in [Viewers \X Collectors -> 0..MaxLog]
      BY <1>4, <2>1 DEF Close, TypeOK
  <2>4. /\ lost' \in [Collectors -> SUBSET (1..MaxLog)]
        /\ dropped' \in [Collectors -> SUBSET (1..MaxLog)]
        /\ owed' \in [Viewers -> SUBSET Entries]
      BY <1>4 DEF Close, TypeOK
  <2>5. at' \in [Viewers -> {"away", "watch", "write", "query", "leave", "close", "gone"}]
      BY <1>4 DEF Close, TypeOK
  <2> QED
      BY <1>4, <2>2, <2>3, <2>4, <2>5 DEF Close, TypeOK
<1>5. CASE Receive(v)
  <2> DEFINE e == Head(chan[v])
  <2>1. chan[v] \in Seq(Entries) /\ chan[v] # <<>>
      BY <1>5 DEF Receive, TypeOK
  <2>2. e \in Entries /\ Tail(chan[v]) \in Seq(Entries)
        /\ Len(Tail(chan[v])) = Len(chan[v]) - 1
      BY <2>1, Received
  <2>3. Len(Tail(chan[v])) <= Buffer
      BY <2>1, <2>2, LogStreamAssumption DEF TypeOK
  <2>4. e.by \in Collectors /\ e.last \in 0..MaxLog
      BY <2>2, EntryType
  <2> HIDE DEF e
  <2>5. chan' = [chan EXCEPT ![v] = Tail(@)]
      BY <1>5 DEF Receive, Take
  <2>6. chan' \in [Viewers -> Seq(Entries)] /\ \A w \in Viewers : Len(chan'[w]) <= Buffer
      BY <2>2, <2>3, <2>5 DEF TypeOK
  <2>7. got' = [got EXCEPT ![<<v, e.by>>] = e.last]
      BY <1>5 DEF Receive, Take, e
  <2>8. got' \in [Viewers \X Collectors -> 0..MaxLog]
      BY <2>4, <2>7 DEF TypeOK
  <2>9. lost' \in [Collectors -> SUBSET (1..MaxLog)]
    <3>1. lost' = lost \/ lost' = [lost EXCEPT ![e.by] = {n \in lost[e.by] : n > e.last}]
        BY <1>5 DEF Receive, Take, e
    <3>2. {n \in lost[e.by] : n > e.last} \in SUBSET (1..MaxLog)
        BY <2>4 DEF TypeOK
    <3> QED
        BY <3>1, <3>2 DEF TypeOK
  <2>10. dropped' \in [Collectors -> SUBSET (1..MaxLog)]
    <3>1. \/ dropped' = dropped
          \/ dropped' = [dropped EXCEPT ![e.by] = {n \in dropped[e.by] : n > e.last}]
        BY <1>5 DEF Receive, Take, e
    <3>2. {n \in dropped[e.by] : n > e.last} \in SUBSET (1..MaxLog)
        BY <2>4 DEF TypeOK
    <3> QED
        BY <3>1, <3>2 DEF TypeOK
  <2>11. owed' \in [Viewers -> SUBSET Entries]
    <3>1. owed' = owed \/ owed' = [owed EXCEPT ![v] = owed[v] \ {e}]
        BY <1>5 DEF Receive, e
    <3>2. owed[v] \ {e} \in SUBSET Entries
        BY DEF TypeOK
    <3> QED
        BY <3>1, <3>2 DEF TypeOK
  <2>12. at' \in [Viewers -> {"away", "watch", "write", "query", "leave", "close", "gone"}]
      BY <1>5 DEF Receive, TypeOK
  <2> QED
      BY <1>5, <2>6, <2>8, <2>9, <2>10, <2>11, <2>12 DEF Receive, TypeOK
<1> QED
    BY <1>1, <1>2, <1>3, <1>4, <1>5 DEF Handler

(* A read makes an entry, or is of a single piece and makes none.          *)
LEMMA ReadResult ==
    ASSUME TypeOK, NEW k \in Collectors, Read(k)
    PROVE  \E last \in pos[k]..log[k[2]] :
              /\ last \in 1..MaxLog /\ pos[k] \in 1..MaxLog
              /\ pos' = [pos EXCEPT ![k] = last + 1]
              /\ \/ /\ entry' = [entry EXCEPT ![k] =
                                    [by |-> k, first |-> pos[k], last |-> last]]
                    /\ col' = [col EXCEPT ![k] = "send"]
                    /\ rest' = [rest EXCEPT ![k] = subs]
                    /\ dropped' = dropped
                 \/ /\ last = pos[k]
                    /\ dropped' = [dropped EXCEPT ![k] = @ \cup {last}]
                    /\ col' = [col EXCEPT ![k] = IF k[1] \in left THEN "done" ELSE "read"]
                    /\ UNCHANGED <<entry, rest>>
<1>1. PICK last \in pos[k]..log[k[2]] :
        Reads(k, last) /\ pos' = [pos EXCEPT ![k] = last + 1]
    BY DEF Read
<1>2. log[k[2]] \in 0..MaxLog /\ pos[k] \in 1..MaxLog + 1
    BY DEF TypeOK, Collectors
<1>3. last \in 1..MaxLog /\ pos[k] \in 1..MaxLog
    BY <1>1, <1>2, LogStreamAssumption
<1> QED
    BY <1>1, <1>3 DEF Reads, Step

LEMMA TypeCollector ==
    ASSUME TInv, NEW k \in Collectors, Collector(k) PROVE TypeOK'
<1> USE DEF TInv, docker, handlers, channels, collectors, Step
<1>1. k[1] \in Viewers /\ k[2] \in Containers /\ k = <<k[1], k[2]>>
    BY DEF Collectors
<1>2. log[k[2]] \in 0..MaxLog /\ pos[k] \in 1..MaxLog + 1
    BY <1>1 DEF TypeOK
<1>3. CASE Open(k)
  <2> DEFINE p == IF log[k[2]] > Backlog THEN log[k[2]] - Backlog + 1 ELSE 1
  <2>1. p \in 1..MaxLog + 1 /\ p - 1 \in 0..MaxLog
      BY <1>2, LogStreamAssumption
  <2> HIDE DEF p
  <2>2. pos' \in [Collectors -> 1..MaxLog + 1]
        /\ got' \in [Viewers \X Collectors -> 0..MaxLog]
    <3>1. CASE UNCHANGED <<pos, got>>
        BY <3>1 DEF TypeOK
    <3>2. CASE pos' = [pos EXCEPT ![k] = p] /\ got' = [got EXCEPT ![<<k[1], k>>] = pos'[k] - 1]
      <4>1. pos' \in [Collectors -> 1..MaxLog + 1] /\ pos'[k] = p
          BY <2>1, <3>2 DEF TypeOK
      <4> QED
          BY <1>1, <2>1, <3>2, <4>1 DEF TypeOK
    <3> QED
        BY <1>3, <3>1, <3>2 DEF Open, p
  <2>3. col' \in [Collectors -> {"none", "open", "read", "send", "done"}]
      BY <1>3 DEF Open, TypeOK
  <2>4. events' \in 0..MaxEvents
      BY <1>3, EventType DEF Open, TypeOK
  <2> QED
      BY <1>3, <2>2, <2>3, <2>4 DEF Open, TypeOK
<1>4. CASE Read(k)
  <2>1. PICK last \in pos[k]..log[k[2]] :
          /\ last \in 1..MaxLog /\ pos[k] \in 1..MaxLog
          /\ pos' = [pos EXCEPT ![k] = last + 1]
          /\ \/ /\ entry' = [entry EXCEPT ![k] =
                                [by |-> k, first |-> pos[k], last |-> last]]
                /\ col' = [col EXCEPT ![k] = "send"]
                /\ rest' = [rest EXCEPT ![k] = subs]
                /\ dropped' = dropped
             \/ /\ last = pos[k]
                /\ dropped' = [dropped EXCEPT ![k] = @ \cup {last}]
                /\ col' = [col EXCEPT ![k] = IF k[1] \in left THEN "done" ELSE "read"]
                /\ UNCHANGED <<entry, rest>>
      BY <1>4, ReadResult
  <2>2. last + 1 \in 1..MaxLog + 1
      BY <2>1, LogStreamAssumption
  <2>3. [by |-> k, first |-> pos[k], last |-> last] \in Entries
      BY <2>1 DEF Entries
  <2>4. entry' \in [Collectors -> Entries \cup {NoEntry}]
      BY <2>1, <2>3 DEF TypeOK
  <2>5. pos' \in [Collectors -> 1..MaxLog + 1]
      BY <2>1, <2>2 DEF TypeOK
  <2>6. dropped' \in [Collectors -> SUBSET (1..MaxLog)]
    <3>1. dropped' = dropped \/ dropped' = [dropped EXCEPT ![k] = dropped[k] \cup {last}]
        BY <2>1
    <3>2. dropped[k] \cup {last} \in SUBSET (1..MaxLog)
        BY <2>1 DEF TypeOK
    <3> QED
        BY <3>1, <3>2 DEF TypeOK
  <2>7. rest' \in [Collectors -> SUBSET Viewers]
      BY <2>1 DEF TypeOK
  <2>8. col' \in [Collectors -> {"none", "open", "read", "send", "done"}]
      BY <2>1 DEF TypeOK
  <2>9. UNCHANGED <<docker, handlers, subs, chan, closed, got, lost, owed, panicked, lister,
                    events>>
      BY <1>4 DEF Read
  <2> QED
      BY <2>4, <2>5, <2>6, <2>7, <2>8, <2>9 DEF TypeOK
<1>5. CASE End(k)
    BY <1>5, EventType DEF End, TypeOK
<1>6. CASE RUnlock(k)
    BY <1>6 DEF RUnlock, TypeOK
<1>7. ASSUME NEW v \in Viewers, Send(k, v), entry[k] \in Entries PROVE TypeOK'
  <2>1. CASE v \in closed
      BY <1>7, <2>1 DEF Send, TypeOK
  <2>2. CASE v \notin closed /\ Len(chan[v]) < Buffer
    <3>1. chan[v] \in Seq(Entries) /\ Len(chan[v]) \in Nat
        BY DEF TypeOK
    <3>2. /\ Append(chan[v], entry[k]) \in Seq(Entries)
          /\ Len(Append(chan[v], entry[k])) <= Buffer
        BY <1>7, <2>2, <3>1, Appended, LogStreamAssumption
    <3>3. chan' = [chan EXCEPT ![v] = Append(chan[v], entry[k])]
        BY <1>7, <2>2 DEF Send
    <3>4. chan' \in [Viewers -> Seq(Entries)] /\ \A w \in Viewers : Len(chan'[w]) <= Buffer
        BY <3>2, <3>3 DEF TypeOK
    <3>5. owed' = owed \/ owed' = [owed EXCEPT ![v] = owed[v] \cup {entry[k]}]
        BY <1>7, <2>2 DEF Send
    <3>6. owed' \in [Viewers -> SUBSET Entries]
      <4>1. owed[v] \cup {entry[k]} \in SUBSET Entries
          BY <1>7 DEF TypeOK
      <4> QED
          BY <3>5, <4>1 DEF TypeOK
    <3> QED
        BY <1>7, <2>2, <3>4, <3>6 DEF Send, TypeOK
  <2>3. CASE v \notin closed /\ ~(Len(chan[v]) < Buffer)
    <3>1. entry[k].first \in 1..MaxLog /\ entry[k].last \in 1..MaxLog
        BY <1>7, EntryType
    <3>2. Pieces(entry[k]) \subseteq 1..MaxLog
        BY <3>1, LogStreamAssumption DEF Pieces
    <3>3. lost[k] \cup Pieces(entry[k]) \in SUBSET (1..MaxLog)
        BY <3>2 DEF TypeOK
    <3>4. lost' = lost \/ lost' = [lost EXCEPT ![k] = lost[k] \cup Pieces(entry[k])]
        BY <1>7, <2>3 DEF Send
    <3>5. lost' \in [Collectors -> SUBSET (1..MaxLog)]
        BY <3>3, <3>4 DEF TypeOK
    <3> QED
        BY <1>7, <2>3, <3>5 DEF Send, TypeOK
  <2> QED
      BY <2>1, <2>2, <2>3
<1> QED
    BY <1>3, <1>4, <1>5, <1>6, <1>7 DEF Collector, Broadcast, Send, Sending

LEMMA SendingNext == ASSUME TInv, Next PROVE Sending'
<1> USE DEF docker, handlers, channels, collectors, Step
<1>1. ASSUME NEW k \in Collectors, Read(k) PROVE Sending'
  <2>1. PICK last \in 1..MaxLog :
          /\ pos[k] \in 1..MaxLog
          /\ \/ /\ entry' = [entry EXCEPT ![k] =
                                [by |-> k, first |-> pos[k], last |-> last]]
                /\ col' = [col EXCEPT ![k] = "send"]
             \/ /\ col' = [col EXCEPT ![k] = IF k[1] \in left THEN "done" ELSE "read"]
                /\ UNCHANGED entry
      BY <1>1, ReadResult DEF TInv
  <2>2. \A j \in Collectors : j # k => entry'[j] = entry[j] /\ col'[j] = col[j]
      BY <2>1 DEF TInv, TypeOK
  <2>3. col'[k] # "send" \/ entry'[k] = [by |-> k, first |-> pos[k], last |-> last]
      BY <2>1 DEF TInv, TypeOK
  <2>4. [by |-> k, first |-> pos[k], last |-> last] \in Entries
      BY <2>1 DEF Entries
  <2>5. col'[k] = "send" => entry'[k] \in Entries /\ entry'[k].by = k
      BY <2>3, <2>4
  <2> QED
      BY <2>2, <2>5 DEF TInv, Sending
<1>2. ASSUME NEW k \in Collectors, Open(k) \/ End(k) PROVE Sending'
    BY <1>2 DEF Open, End, TInv, TypeOK, Sending
<1>3. ASSUME NEW k \in Collectors, RUnlock(k) PROVE Sending'
    BY <1>3 DEF RUnlock, TInv, TypeOK, Sending
<1>4. ASSUME NEW v \in Viewers, NEW h \in Hosts, List(v, h) PROVE Sending'
  <2>1. entry' = entry /\ \A k \in Collectors : col'[k] \in {"open", col[k]}
      BY <1>4 DEF List, TInv, TypeOK
  <2> QED
      BY <2>1 DEF TInv, Sending
<1>5. CASE UNCHANGED <<col, entry>>
    BY <1>5 DEF TInv, Sending
<1> QED
    BY <1>1, <1>2, <1>3, <1>4, <1>5
    DEF Next, Register, Handler, SendHistoricalLogs, Receive, Delete, Close, Written,
        Disconnect, Collector, Broadcast, Send, WriteLine, StartOrStop

LEMMA TypeNext == TInv /\ [Next]_vars => TInv'
<1> SUFFICES ASSUME TInv, [Next]_vars PROVE TInv'
    OBVIOUS
<1> USE DEF docker, handlers, channels, collectors
<1>1. ASSUME NEW v \in Viewers, NEW h \in Hosts, List(v, h) PROVE TypeOK'
  <2>1. col' \in [Collectors -> {"none", "open", "read", "send", "done"}]
      BY <1>1 DEF List, TInv, TypeOK
  <2> QED
      BY <1>1, <2>1, EventType DEF List, TInv, TypeOK
<1>2. ASSUME NEW c \in Containers, WriteLine(c) PROVE TypeOK'
  <2>1. log[c] + LinePieces \in 0..MaxLog
      BY <1>2, LogStreamAssumption DEF WriteLine, TInv, TypeOK
  <2>2. log' \in [Containers -> 0..MaxLog]
      BY <1>2, <2>1 DEF WriteLine, TInv, TypeOK
  <2> QED
      BY <1>2, <2>2, EventType DEF WriteLine, TInv, TypeOK
<1>3. ASSUME NEW c \in Containers, StartOrStop(c) PROVE TypeOK'
    BY <1>3, EventType DEF StartOrStop, TInv, TypeOK
<1>4. CASE UNCHANGED vars
    BY <1>4 DEF vars, TInv, TypeOK, Sending
<1> QED
    BY <1>1, <1>2, <1>3, <1>4, TypeHandler, TypeCollector, SendingNext DEF Next, TInv

LEMMA TypeInvariant == Spec => []TInv
<1>1. Init => TInv
    BY TypeInit DEF Init, TInv, Sending
<1> QED
    BY <1>1, TypeNext, PTL DEF Spec

(* Every variable keeps its type.                                          *)
THEOREM TypeCorrect == Spec => []TypeOK
<1>1. TInv => TypeOK
    BY DEF TInv
<1> QED
    BY <1>1, TypeInvariant, PTL

-----------------------------------------------------------------------------
(* The map of subscribers.                                                 *)

(* A channel is on the map until its handler leaves, and closed only then; *)
(* a broadcast that is under way has still to come to channels on the map. *)
Mapped ==
    /\ \A v \in closed : at[v] = "gone"
    /\ \A v \in subs : at[v] \in {"watch", "write", "query", "leave"}
    /\ \A v \in Viewers : at[v] \in {"watch", "write"} => v \in subs
    /\ \A k \in Collectors : rest[k] \subseteq subs /\ (col[k] # "send" => rest[k] = {})
(* A collector starts after its viewer is on the map.                      *)
Started ==
    /\ \A v \in Viewers, h \in Hosts : at[v] = "away" => lister[<<v, h>>] = "none"
    /\ \A k \in Collectors : lister[<<k[1], HostOf[k[2]]>>] # "done" => col[k] = "none"
MInv == TInv /\ Mapped /\ Started /\ ~panicked

LEMMA KeysOf ==
    ASSUME NEW k \in Collectors
    PROVE  /\ k[1] \in Viewers /\ k[2] \in Containers /\ HostOf[k[2]] \in Hosts
           /\ <<k[1], HostOf[k[2]]>> \in Listers
    BY DEF Collectors, Hosts, Listers

LEMMA MapHandler ==
    ASSUME MInv, NEW v \in Viewers,
           Register(v) \/ Handler(v) \/ Written(v) \/ Disconnect(v)
    PROVE  Mapped' /\ Started' /\ ~panicked'
<1> USE DEF docker, handlers, channels, collectors, Goto
<1>1. Mapped'
  <2>1. CASE Register(v)
      BY <2>1 DEF Register, MInv, TInv, TypeOK, Mapped
  <2>2. CASE Delete(v)
    <3>1. \A k \in Collectors : rest[k] = {}
        BY <2>2 DEF Delete, Readers, MInv, Mapped
    <3> QED
        BY <2>2, <3>1 DEF Delete, MInv, TInv, TypeOK, Mapped
  <2>3. CASE SendHistoricalLogs(v) \/ Receive(v) \/ Written(v) \/ Disconnect(v)
    <3>1. UNCHANGED <<subs, closed, rest, col>>
        BY <2>3 DEF SendHistoricalLogs, Receive, Written, Disconnect
    <3>2. \A w \in Viewers :
            \/ at'[w] = at[w]
            \/ at[w] \in {"watch", "write"} /\ at'[w] \in {"watch", "write"}
            \/ at[w] = "query" /\ at'[w] = "leave"
        BY <2>3 DEF SendHistoricalLogs, Receive, Written, Disconnect, MInv, TInv, TypeOK
    <3>3. closed \subseteq Viewers /\ subs \subseteq Viewers
        BY DEF MInv, TInv, TypeOK
    <3> QED
        BY <3>1, <3>2, <3>3 DEF MInv, Mapped
  <2>4. CASE Close(v)
      BY <2>4 DEF Close, MInv, TInv, TypeOK, Mapped
  <2> QED
      BY <2>1, <2>2, <2>3, <2>4 DEF Handler
<1>2. Started'
  <2>1. CASE Register(v)
    <3>1. at[v] = "away" /\ at'[v] # "away" /\ col' = col
        BY <2>1 DEF Register, MInv, TInv, TypeOK
    <3>2. \A w \in Viewers \ {v} : at'[w] = at[w]
        BY <2>1 DEF Register, MInv, TInv, TypeOK
    <3>3. \A l \in Listers : lister'[l] = lister[l] \/ l[1] = v
        BY <2>1 DEF Register
    <3>4. ASSUME NEW w \in Viewers, NEW h \in Hosts, at'[w] = "away"
          PROVE  lister'[<<w, h>>] = "none"
        BY <3>1, <3>2, <3>3, <3>4 DEF MInv, Started, Listers
    <3>5. ASSUME NEW k \in Collectors, lister'[<<k[1], HostOf[k[2]]>>] # "done"
          PROVE  col'[k] = "none"
      <4>1. k[1] = v => lister[<<k[1], HostOf[k[2]]>>] = "none"
          BY <3>1, KeysOf DEF MInv, Started
      <4>2. k[1] # v => lister'[<<k[1], HostOf[k[2]]>>] = lister[<<k[1], HostOf[k[2]]>>]
          BY <3>3, KeysOf
      <4> QED
          BY <3>1, <3>5, <4>1, <4>2 DEF MInv, Started
    <3> QED
        BY <3>4, <3>5 DEF Started
  <2>2. CASE Handler(v) \/ Written(v) \/ Disconnect(v)
    <3>1. lister' = lister /\ col' = col
        BY <2>2 DEF Handler, SendHistoricalLogs, Receive, Delete, Close, Written, Disconnect
    <3>2. \A w \in Viewers : at'[w] = "away" => at[w] = "away"
        BY <2>2 DEF Handler, SendHistoricalLogs, Receive, Delete, Close, Written,
                    Disconnect, MInv, TInv, TypeOK
    <3> QED
        BY <3>1, <3>2 DEF MInv, Started
  <2> QED
      BY <2>1, <2>2
<1>3. ~panicked'
    BY DEF Register, Handler, SendHistoricalLogs, Receive, Delete, Close, Written,
           Disconnect, MInv
<1> QED
    BY <1>1, <1>2, <1>3

LEMMA MapCollector ==
    ASSUME MInv, NEW k \in Collectors, Collector(k)
    PROVE  Mapped' /\ Started' /\ ~panicked'
<1> USE DEF docker, handlers, channels, collectors, Step
<1>1. /\ \A j \in Collectors : j # k => col'[j] = col[j]
      /\ at' = at /\ lister' = lister /\ subs' = subs /\ closed' = closed
      /\ col[k] # "none"
    BY DEF Collector, Open, Read, Reads, End, Broadcast, RUnlock, Send, MInv, TInv, TypeOK
<1>2. Started'
    BY <1>1 DEF MInv, Started
<1>3. rest'[k] \subseteq subs /\ (col'[k] # "send" => rest'[k] = {})
  <2>1. CASE Open(k) \/ End(k)
    <3>1. col[k] # "send" /\ rest' = rest
        BY <2>1 DEF Open, End
    <3>2. rest[k] = {}
        BY <3>1 DEF MInv, Mapped
    <3> QED
        BY <3>1, <3>2
  <2>3. CASE Read(k)
    <3>1. col[k] = "read" /\ (col'[k] = "send" \/ rest' = rest)
        BY <2>3 DEF Read, Reads, MInv, TInv, TypeOK
    <3>2. rest' = rest \/ rest' = [rest EXCEPT ![k] = subs]
        BY <2>3 DEF Read, Reads
    <3>3. rest[k] = {}
        BY <3>1 DEF MInv, Mapped
    <3> QED
        BY <3>1, <3>2, <3>3 DEF MInv, TInv, TypeOK
  <2>2. CASE Broadcast(k)
      BY <2>2 DEF Broadcast, RUnlock, Send, MInv, TInv, TypeOK, Mapped
  <2> QED
      BY <2>1, <2>2, <2>3 DEF Collector
<1>4. \A j \in Collectors : j # k => rest'[j] = rest[j]
    BY DEF Collector, Open, Read, Reads, End, Broadcast, RUnlock, Send, MInv, TInv, TypeOK
<1>5. Mapped'
    BY <1>1, <1>3, <1>4 DEF MInv, Mapped
<1>6. ~panicked'
  <2>1. \A v \in rest[k] : v \notin closed
      BY DEF MInv, Mapped
  <2> QED
      BY <2>1 DEF Collector, Open, Read, End, Broadcast, RUnlock, Send, MInv
<1> QED
    BY <1>2, <1>5, <1>6

LEMMA MapList ==
    ASSUME MInv, NEW v \in Viewers, NEW h \in Hosts, List(v, h)
    PROVE  Mapped' /\ Started' /\ ~panicked'
<1> USE DEF docker, handlers, channels
<1>1. /\ UNCHANGED <<at, subs, closed, rest, panicked>>
      /\ \A l \in Listers : l # <<v, h>> => lister'[l] = lister[l]
      /\ lister[<<v, h>>] = "list" /\ lister'[<<v, h>>] = "done"
    BY DEF List, MInv, TInv, TypeOK, Listers
<1>2. ASSUME NEW k \in Collectors
      PROVE  col'[k] = col[k] \/ (<<k[1], HostOf[k[2]]>> = <<v, h>> /\ col'[k] = "open")
    BY DEF List, MInv, TInv, TypeOK
<1>3. \A k \in Collectors : col[k] # "send" => col'[k] # "send"
    BY <1>2
<1>4. \A k \in Collectors : col'[k] # "send" => col[k] # "send"
    BY <1>1, <1>2 DEF MInv, Started
<1>5. Mapped'
    BY <1>1, <1>4 DEF MInv, Mapped
<1>6. \A w \in Viewers, g \in Hosts : at'[w] = "away" => lister'[<<w, g>>] = "none"
  <2>1. ASSUME NEW w \in Viewers, NEW g \in Hosts, at'[w] = "away"
        PROVE  lister'[<<w, g>>] = "none"
    <3>1. lister[<<w, g>>] = "none" /\ <<w, g>> \in Listers
        BY <1>1, <2>1 DEF MInv, Started, Listers
    <3> QED
        BY <1>1, <3>1
  <2> QED
      BY <2>1
<1>7. ASSUME NEW k \in Collectors, lister'[<<k[1], HostOf[k[2]]>>] # "done"
      PROVE  col'[k] = "none"
  <2>1. <<k[1], HostOf[k[2]]>> # <<v, h>>
      BY <1>1, <1>7
  <2>2. lister[<<k[1], HostOf[k[2]]>>] # "done"
      BY <1>1, <1>7, <2>1, KeysOf
  <2> QED
      BY <1>2, <2>1, <2>2 DEF MInv, Started
<1> QED
    BY <1>1, <1>5, <1>6, <1>7 DEF MInv, Started

LEMMA MapNext == MInv /\ [Next]_vars => MInv'
<1> SUFFICES ASSUME MInv, [Next]_vars PROVE MInv'
    OBVIOUS
<1>1. TInv'
    BY TypeNext DEF MInv
<1>2. ASSUME NEW c \in Containers, WriteLine(c) \/ StartOrStop(c) PROVE MInv'
    BY <1>1, <1>2
    DEF WriteLine, StartOrStop, handlers, channels, collectors, MInv, Mapped, Started
<1>3. CASE UNCHANGED vars
    BY <1>1, <1>3 DEF vars, handlers, channels, collectors, MInv, Mapped, Started
<1> QED
    BY <1>1, <1>2, <1>3, MapHandler, MapCollector, MapList DEF Next, MInv

LEMMA MapInvariant == Spec => []MInv
<1>1. Init => MInv
  <2> SUFFICES ASSUME Init PROVE MInv
      OBVIOUS
  <2>1. TInv
      BY TypeInit DEF Init, TInv, Sending
  <2>2. Mapped
      BY DEF Init, Mapped
  <2>3. Started
      BY KeysOf DEF Init, Started, Listers
  <2> QED
      BY <2>1, <2>2, <2>3 DEF Init, MInv
<1> QED
    BY <1>1, MapNext, PTL DEF Spec

(* No send comes to a closed channel, whoever leaves during a broadcast.   *)
THEOREM NoPanic == Spec => []NeverPanics
<1>1. MInv => NeverPanics
    BY DEF MInv, NeverPanics
<1> QED
    BY <1>1, MapInvariant, PTL

-----------------------------------------------------------------------------
(* The order of reads.                                                     *)

(* What is in a channel comes after what its viewer has received from the  *)
(* same collector, one entry after the other, and before what the          *)
(* collector reads next.                                                   *)
ChannelOrder(v) ==
    \A n \in DOMAIN chan[v] :
        LET e == chan[v][n]
        IN  /\ got[<<v, e.by>>] < e.first /\ e.first <= e.last /\ e.last < pos[e.by]
            /\ \A m \in DOMAIN chan[v] :
                  m < n /\ chan[v][m].by = e.by => chan[v][m].last < e.first

(* And so does what a collector is about to send.                          *)
SendOrder(k) ==
    col[k] = "send" =>
        /\ entry[k].first <= entry[k].last /\ entry[k].last < pos[k]
        /\ \A v \in rest[k] :
              /\ got[<<v, k>>] < entry[k].first
              /\ \A n \in DOMAIN chan[v] : chan[v][n].by = k => chan[v][n].last < entry[k].first

(* A collector that has not opened its log has sent nothing.               *)
FreshCollector(k) ==
    col[k] \in {"none", "open"} =>
        /\ pos[k] = 1
        /\ \A v \in Viewers :
              got[<<v, k>>] = 0 /\ \A n \in DOMAIN chan[v] : chan[v][n].by # k

Ordered ==
    /\ \A v \in Viewers : ChannelOrder(v)
    /\ \A k \in Collectors : SendOrder(k) /\ FreshCollector(k)
    /\ \A v \in Viewers, k \in Collectors : got[<<v, k>>] < pos[k]
OInv == MInv /\ Ordered

LEMMA ChannelTypes ==
    ASSUME TypeOK, NEW v \in Viewers
    PROVE  /\ chan[v] \in Seq(Entries) /\ Len(chan[v]) \in Nat
           /\ DOMAIN chan[v] = 1..Len(chan[v])
           /\ \A n \in DOMAIN chan[v] :
                 /\ chan[v][n] \in Entries /\ chan[v][n].by \in Collectors
                 /\ chan[v][n].first \in Nat /\ chan[v][n].last \in Nat
<1>1. chan[v] \in Seq(Entries)
    BY DEF TypeOK
<1>2. \A n \in DOMAIN chan[v] : chan[v][n] \in Entries
    BY <1>1
<1> QED
    BY <1>1, <1>2, EntryType

LEMMA NumberTypes ==
    ASSUME TypeOK, NEW k \in Collectors
    PROVE  /\ pos[k] \in Nat /\ pos[k] >= 1 /\ 0 < pos[k] /\ log[k[2]] \in Nat
           /\ \A v \in Viewers : <<v, k>> \in Viewers \X Collectors /\ got[<<v, k>>] \in Nat
<1>1. pos[k] \in 1..MaxLog + 1 /\ log[k[2]] \in 0..MaxLog
    BY KeysOf DEF TypeOK
<1>2. \A v \in Viewers : <<v, k>> \in Viewers \X Collectors /\ got[<<v, k>>] \in 0..MaxLog
    BY DEF TypeOK
<1> QED
    BY <1>1, <1>2, LogStreamAssumption

(* A step that neither sends, receives nor reads.                          *)
LEMMA OrderStays ==
    ASSUME OInv, UNCHANGED <<chan, got, pos, rest>>,
           \A k \in Collectors :
               /\ entry'[k] = entry[k] \/ col'[k] # "send"
               /\ \/ col'[k] = col[k] \/ col'[k] = "done"
                  \/ col[k] = "none" /\ col'[k] = "open"
                  \/ col[k] = "send" /\ col'[k] = "read"
    PROVE  Ordered'
    BY DEF OInv, Ordered, ChannelOrder, SendOrder, FreshCollector

LEMMA OrderReceive ==
    ASSUME OInv, NEW v \in Viewers, Receive(v) PROVE Ordered'
<1> DEFINE e == Head(chan[v])
<1>1. TypeOK /\ chan[v] \in Seq(Entries) /\ chan[v] # <<>>
    BY DEF Receive, OInv, MInv, TInv, TypeOK
<1>2. /\ e \in Entries /\ e = chan[v][1] /\ 1 \in DOMAIN chan[v]
      /\ \A n \in DOMAIN Tail(chan[v]) :
            n + 1 \in DOMAIN chan[v] /\ Tail(chan[v])[n] = chan[v][n + 1]
      /\ Tail(chan[v]) \in Seq(Entries)
    BY <1>1, Received
<1>3. e.by \in Collectors /\ e.first \in Nat /\ e.last \in Nat
    BY <1>2, EntryType
<1> HIDE DEF e
<1>4. /\ chan'[v] = Tail(chan[v]) /\ \A w \in Viewers : w # v => chan'[w] = chan[w]
      /\ got' = [got EXCEPT ![<<v, e.by>>] = e.last]
      /\ UNCHANGED <<pos, rest, entry, col>>
    BY <1>1 DEF Receive, Take, TypeOK, collectors, e
<1>5. /\ got'[<<v, e.by>>] = e.last
      /\ \A w \in Viewers, k \in Collectors :
            w # v \/ k # e.by => got'[<<w, k>>] = got[<<w, k>>]
    BY <1>1, <1>3, <1>4 DEF TypeOK
<1>6. \A n \in DOMAIN chan'[v] : n \in Nat /\ n + 1 \in DOMAIN chan[v] /\ 1 < n + 1
                                 /\ chan'[v][n] = chan[v][n + 1]
    BY <1>2, <1>4
<1>7. /\ \A k \in Collectors : e.by = k => got[<<v, k>>] < e.first /\ e.first <= e.last
                                           /\ e.last < pos[k]
      /\ ChannelOrder(v)
    BY <1>1, <1>2 DEF OInv, Ordered, ChannelOrder
<1>8. ChannelOrder(v)'
  <2> SUFFICES ASSUME NEW n \in DOMAIN chan'[v]
               PROVE  /\ got'[<<v, chan'[v][n].by>>] < chan'[v][n].first
                      /\ chan'[v][n].first <= chan'[v][n].last
                      /\ chan'[v][n].last < pos'[chan'[v][n].by]
                      /\ \A m \in DOMAIN chan'[v] :
                            m < n /\ chan'[v][m].by = chan'[v][n].by
                                => chan'[v][m].last < chan'[v][n].first
      BY DEF ChannelOrder
  <2>1. PICK f \in Entries : f = chan[v][n + 1] /\ f = chan'[v][n]
      BY <1>1, <1>6, ChannelTypes
  <2>2. /\ got[<<v, f.by>>] < f.first /\ f.first <= f.last /\ f.last < pos[f.by]
        /\ \A m \in DOMAIN chan[v] :
              m < n + 1 /\ chan[v][m].by = f.by => chan[v][m].last < f.first
      BY <1>6, <1>7, <2>1 DEF ChannelOrder
  <2>3. f.by \in Collectors
      BY <2>1, EntryType
  <2>4. got'[<<v, f.by>>] < f.first
    <3>1. CASE f.by = e.by
        BY <1>2, <1>5, <1>6, <2>2, <3>1
    <3>2. CASE f.by # e.by
        BY <1>5, <2>2, <2>3, <3>2
    <3> QED
        BY <3>1, <3>2
  <2>5. ASSUME NEW m \in DOMAIN chan'[v], m < n, chan'[v][m].by = f.by
        PROVE  chan'[v][m].last < f.first
    <3>1. m + 1 \in DOMAIN chan[v] /\ m + 1 < n + 1 /\ chan'[v][m] = chan[v][m + 1]
        BY <1>6, <2>5
    <3> QED
        BY <2>2, <2>5, <3>1
  <2> QED
      BY <1>4, <2>1, <2>2, <2>4, <2>5
<1>9. \A w \in Viewers : w # v => ChannelOrder(w)'
  <2> SUFFICES ASSUME NEW w \in Viewers, w # v PROVE ChannelOrder(w)'
      OBVIOUS
  <2>1. \A n \in DOMAIN chan[w] : got'[<<w, chan[w][n].by>>] = got[<<w, chan[w][n].by>>]
      BY <1>1, <1>5, ChannelTypes
  <2>2. chan'[w] = chan[w] /\ pos' = pos
      BY <1>4
  <2> QED
      BY <2>1, <2>2 DEF ChannelOrder, OInv, Ordered
<1>10. ASSUME NEW k \in Collectors PROVE SendOrder(k)'
  <2> SUFFICES ASSUME col[k] = "send", NEW w \in rest[k]
               PROVE  /\ got'[<<w, k>>] < entry[k].first
                      /\ \A n \in DOMAIN chan'[w] :
                            chan'[w][n].by = k => chan'[w][n].last < entry[k].first
      BY <1>4 DEF SendOrder, OInv, Ordered
  <2>1. /\ got[<<w, k>>] < entry[k].first
        /\ \A n \in DOMAIN chan[w] : chan[w][n].by = k => chan[w][n].last < entry[k].first
        /\ w \in Viewers
      BY <1>1 DEF SendOrder, OInv, Ordered, TypeOK
  <2>2. CASE w # v
      BY <1>4, <1>5, <2>1, <2>2
  <2>3. CASE w = v
    <3>1. got'[<<v, k>>] < entry[k].first
        BY <1>2, <1>5, <2>1, <2>3
    <3> QED
        BY <1>6, <2>1, <2>3, <3>1
  <2> QED
      BY <2>2, <2>3
<1>11. ASSUME NEW k \in Collectors PROVE FreshCollector(k)'
  <2> SUFFICES ASSUME col[k] \in {"none", "open"}
               PROVE  /\ pos[k] = 1
                      /\ \A w \in Viewers :
                            got'[<<w, k>>] = 0 /\ \A n \in DOMAIN chan'[w] : chan'[w][n].by # k
      BY <1>4 DEF FreshCollector
  <2>1. /\ pos[k] = 1
        /\ \A w \in Viewers :
              got[<<w, k>>] = 0 /\ \A n \in DOMAIN chan[w] : chan[w][n].by # k
      BY DEF FreshCollector, OInv, Ordered
  <2>2. k # e.by
      BY <1>2, <2>1
  <2>3. \A w \in Viewers : got'[<<w, k>>] = 0
      BY <1>5, <2>1, <2>2
  <2>4. \A n \in DOMAIN chan'[v] : chan'[v][n].by # k
      BY <1>6, <2>1
  <2>5. \A w \in Viewers : \A n \in DOMAIN chan'[w] : chan'[w][n].by # k
      BY <1>4, <2>1, <2>4
  <2> QED
      BY <2>1, <2>3, <2>5
<1>12. \A w \in Viewers, k \in Collectors : got'[<<w, k>>] < pos'[k]
    BY <1>4, <1>5, <1>7 DEF OInv, Ordered
<1> QED
    BY <1>8, <1>9, <1>10, <1>11, <1>12 DEF Ordered

LEMMA OrderClose ==
    ASSUME OInv, NEW v \in Viewers, Close(v) PROVE Ordered'
<1>1. TypeOK
    BY DEF OInv, MInv, TInv
<1>2. /\ chan'[v] = <<>> /\ \A w \in Viewers : w # v => chan'[w] = chan[w]
      /\ UNCHANGED <<pos, rest, entry, col>>
      /\ \A w \in Viewers, k \in Collectors :
            got'[<<w, k>>] = IF w = v THEN 0 ELSE got[<<w, k>>]
    BY <1>1 DEF Close, TypeOK, collectors
<1>3. \A k \in Collectors : v \notin rest[k]
    BY DEF Close, OInv, MInv, Mapped
<1>4. ASSUME NEW w \in Viewers PROVE ChannelOrder(w)'
  <2>1. CASE w = v
      BY <1>2, <2>1 DEF ChannelOrder
  <2>2. CASE w # v
    <3>1. \A n \in DOMAIN chan[w] : got'[<<w, chan[w][n].by>>] = got[<<w, chan[w][n].by>>]
        BY <1>1, <1>2, <2>2, ChannelTypes
    <3>2. ChannelOrder(w) /\ chan'[w] = chan[w] /\ pos' = pos
        BY <1>2, <2>2 DEF OInv, Ordered
    <3> QED
        BY <3>1, <3>2 DEF ChannelOrder
  <2> QED
      BY <2>1, <2>2
<1>5. ASSUME NEW k \in Collectors PROVE SendOrder(k)' /\ FreshCollector(k)'
  <2>1. \A w \in rest[k] : w \in Viewers /\ w # v
      BY <1>1, <1>3 DEF TypeOK
  <2>2. SendOrder(k)'
      BY <1>2, <2>1 DEF SendOrder, OInv, Ordered
  <2>3. FreshCollector(k)'
      BY <1>2 DEF FreshCollector, OInv, Ordered
  <2> QED
      BY <2>2, <2>3
<1>6. \A w \in Viewers, k \in Collectors : got'[<<w, k>>] < pos'[k]
  <2>1. \A k \in Collectors : 0 < pos[k]
      BY <1>1, NumberTypes
  <2> QED
      BY <1>2, <2>1 DEF OInv, Ordered
<1> QED
    BY <1>4, <1>5, <1>6 DEF Ordered

LEMMA OrderOpen ==
    ASSUME OInv, NEW k \in Collectors, Open(k), Step(k, "read") PROVE Ordered'
<1> DEFINE p == IF log[k[2]] > Backlog THEN log[k[2]] - Backlog + 1 ELSE 1
<1>1. TypeOK /\ k[1] \in Viewers
    BY KeysOf DEF OInv, MInv, TInv
<1>2. p \in Nat /\ p >= 1 /\ p - 1 \in Nat /\ p - 1 < p
  <2>1. log[k[2]] \in Nat
      BY <1>1, NumberTypes
  <2> QED
      BY <2>1, LogStreamAssumption
<1>3. /\ pos' = [pos EXCEPT ![k] = p] /\ got' = [got EXCEPT ![<<k[1], k>>] = pos'[k] - 1]
      /\ col[k] = "open" /\ col' = [col EXCEPT ![k] = "read"]
      /\ UNCHANGED <<chan, rest, entry>>
  <2>1. col' # [col EXCEPT ![k] = "done"]
      BY <1>1 DEF Step, TypeOK
  <2> QED
      BY <2>1 DEF Open, Step, p
<1> HIDE DEF p
<1>4. /\ pos'[k] = p /\ \A j \in Collectors : j # k => pos'[j] = pos[j] /\ col'[j] = col[j]
      /\ col'[k] = "read"
    BY <1>1, <1>3 DEF TypeOK
<1>5. /\ got'[<<k[1], k>>] = p - 1
      /\ \A w \in Viewers, j \in Collectors :
            w # k[1] \/ j # k => got'[<<w, j>>] = got[<<w, j>>]
    BY <1>1, <1>3, <1>4 DEF TypeOK
<1>6. \A v \in Viewers :
          got[<<v, k>>] = 0 /\ \A n \in DOMAIN chan[v] : chan[v][n].by # k
    BY <1>3 DEF FreshCollector, OInv, Ordered
<1>7. ASSUME NEW v \in Viewers PROVE ChannelOrder(v)'
  <2>1. \A n \in DOMAIN chan[v] : chan[v][n].by \in Collectors /\ chan[v][n].by # k
      BY <1>1, <1>6, ChannelTypes
  <2>2. \A n \in DOMAIN chan[v] :
            /\ got'[<<v, chan[v][n].by>>] = got[<<v, chan[v][n].by>>]
            /\ pos'[chan[v][n].by] = pos[chan[v][n].by]
      BY <1>4, <1>5, <2>1
  <2>3. ChannelOrder(v) /\ chan' = chan
      BY <1>3 DEF OInv, Ordered
  <2> QED
      BY <2>2, <2>3 DEF ChannelOrder
<1>8. ASSUME NEW j \in Collectors PROVE SendOrder(j)' /\ FreshCollector(j)'
  <2>1. CASE j = k
      BY <1>4, <2>1 DEF SendOrder, FreshCollector
  <2>2. CASE j # k
    <3>1. \A w \in Viewers : got'[<<w, j>>] = got[<<w, j>>]
        BY <1>5, <2>2
    <3>2. rest[j] \subseteq Viewers
        BY <1>1 DEF TypeOK
    <3> QED
        BY <1>3, <1>4, <2>2, <3>1, <3>2 DEF SendOrder, FreshCollector, OInv, Ordered
  <2> QED
      BY <2>1, <2>2
<1>9. ASSUME NEW v \in Viewers, NEW j \in Collectors PROVE got'[<<v, j>>] < pos'[j]
    BY <1>2, <1>4, <1>5, <1>6 DEF OInv, Ordered
<1> QED
    BY <1>7, <1>8, <1>9 DEF Ordered

LEMMA OrderRead ==
    ASSUME OInv, NEW k \in Collectors, Read(k) PROVE Ordered'
<1>1. TypeOK
    BY DEF OInv, MInv, TInv
<1>2. PICK last \in pos[k]..log[k[2]] :
        /\ pos' = [pos EXCEPT ![k] = last + 1]
        /\ \/ /\ entry' = [entry EXCEPT ![k] =
                              [by |-> k, first |-> pos[k], last |-> last]]
              /\ col' = [col EXCEPT ![k] = "send"]
              /\ rest' = [rest EXCEPT ![k] = subs]
           \/ /\ col' = [col EXCEPT ![k] = IF k[1] \in left THEN "done" ELSE "read"]
              /\ UNCHANGED <<entry, rest>>
    BY <1>1, ReadResult
<1>3. last \in Nat /\ pos[k] \in Nat /\ pos[k] <= last /\ pos[k] < last + 1 /\ last < last + 1
  <2>1. log[k[2]] \in Nat
      BY <1>1, NumberTypes
  <2> QED
      BY <1>1, <1>2, <2>1, NumberTypes
<1>4. /\ pos'[k] = last + 1
      /\ \A j \in Collectors : j # k => /\ entry'[j] = entry[j] /\ pos'[j] = pos[j]
                                        /\ col'[j] = col[j] /\ rest'[j] = rest[j]
      /\ UNCHANGED <<chan, got>> /\ subs \subseteq Viewers
    BY <1>1, <1>2 DEF Read, TypeOK
<1>10. \/ /\ entry'[k].first = pos[k] /\ entry'[k].last = last
          /\ col'[k] = "send" /\ rest'[k] = subs
       \/ col'[k] \in {"done", "read"}
    BY <1>1, <1>2 DEF TypeOK
<1>5. \A j \in Collectors : pos'[j] >= pos[j]
    BY <1>1, <1>3, <1>4, NumberTypes
<1>6. ASSUME NEW v \in Viewers PROVE ChannelOrder(v)'
  <2> SUFFICES ASSUME NEW n \in DOMAIN chan[v]
               PROVE  /\ got[<<v, chan[v][n].by>>] < chan[v][n].first
                      /\ chan[v][n].first <= chan[v][n].last
                      /\ chan[v][n].last < pos'[chan[v][n].by]
                      /\ \A m \in DOMAIN chan[v] :
                            m < n /\ chan[v][m].by = chan[v][n].by
                                => chan[v][m].last < chan[v][n].first
      BY <1>4 DEF ChannelOrder
  <2>1. chan[v][n].by \in Collectors /\ chan[v][n].last \in Nat
      BY <1>1, ChannelTypes
  <2>2. /\ got[<<v, chan[v][n].by>>] < chan[v][n].first
        /\ chan[v][n].first <= chan[v][n].last
        /\ chan[v][n].last < pos[chan[v][n].by]
        /\ \A m \in DOMAIN chan[v] :
              m < n /\ chan[v][m].by = chan[v][n].by => chan[v][m].last < chan[v][n].first
      BY DEF ChannelOrder, OInv, Ordered
  <2>3. PICK b \in Collectors : b = chan[v][n].by
      BY <2>1
  <2>4. pos[b] \in Nat /\ pos'[b] \in Nat /\ pos'[b] >= pos[b]
      BY <1>1, <1>3, <1>4, <1>5, NumberTypes
  <2>5. chan[v][n].last < pos'[b]
      BY <2>1, <2>2, <2>3, <2>4
  <2> QED
      BY <2>2, <2>3, <2>5
<1>7. ASSUME NEW v \in Viewers
      PROVE  /\ got[<<v, k>>] < pos[k]
             /\ \A n \in DOMAIN chan[v] : chan[v][n].by = k => chan[v][n].last < pos[k]
    BY DEF ChannelOrder, OInv, Ordered
<1>8. ASSUME NEW j \in Collectors PROVE SendOrder(j)' /\ FreshCollector(j)'
  <2>1. CASE j = k
    <3>1. SendOrder(k)'
        BY <1>3, <1>4, <1>7, <1>10 DEF SendOrder
    <3>2. col'[k] \notin {"none", "open"}
        BY <1>10
    <3> QED
        BY <2>1, <3>1, <3>2 DEF FreshCollector
  <2>2. CASE j # k
      BY <1>4, <2>2 DEF SendOrder, FreshCollector, OInv, Ordered
  <2> QED
      BY <2>1, <2>2
<1>9. ASSUME NEW v \in Viewers, NEW j \in Collectors PROVE got'[<<v, j>>] < pos'[j]
  <2>1. got[<<v, j>>] < pos[j] /\ got[<<v, j>>] \in Nat /\ pos[j] \in Nat
      BY <1>1, NumberTypes DEF OInv, Ordered
  <2>2. CASE j = k
      BY <1>3, <1>4, <2>1, <2>2
  <2>3. CASE j # k
      BY <1>4, <2>1, <2>3
  <2> QED
      BY <2>2, <2>3
<1> QED
    BY <1>6, <1>8, <1>9 DEF Ordered

LEMMA OrderSend ==
    ASSUME OInv, NEW k \in Collectors, NEW v \in Viewers, Send(k, v) PROVE Ordered'
<1>1. TypeOK /\ col[k] = "send" /\ v \in rest[k] /\ entry[k] \in Entries /\ entry[k].by = k
    BY DEF Send, OInv, MInv, TInv, Sending
<1>2. /\ rest'[k] = rest[k] \ {v} /\ \A j \in Collectors : j # k => rest'[j] = rest[j]
      /\ UNCHANGED <<col, pos, entry, got>>
    BY <1>1 DEF Send, TypeOK
<1>3. CASE UNCHANGED chan
    BY <1>2, <1>3 DEF OInv, Ordered, ChannelOrder, SendOrder, FreshCollector
<1>4. CASE chan' = [chan EXCEPT ![v] = Append(@, entry[k])]
  <2> DEFINE L == Len(chan[v])
             new == entry[k]
  <2>1. /\ chan'[v] = Append(chan[v], new)
        /\ \A w \in Viewers : w # v => chan'[w] = chan[w]
      BY <1>1, <1>4 DEF TypeOK
  <2>2. L \in Nat /\ \A n \in DOMAIN chan[v] : n \in Nat /\ n < L + 1
      BY <1>1, ChannelTypes
  <2>3. /\ \A n \in DOMAIN chan'[v] : n \in DOMAIN chan[v] \/ n = L + 1
        /\ \A n \in DOMAIN chan[v] : chan'[v][n] = chan[v][n]
        /\ chan'[v][L + 1] = new
      BY <1>1, <2>1, Appended, ChannelTypes
  <2> HIDE DEF L
  <2>4. /\ new.first <= new.last /\ new.last < pos[k] /\ got[<<v, k>>] < new.first
        /\ \A n \in DOMAIN chan[v] : chan[v][n].by = k => chan[v][n].last < new.first
      BY <1>1 DEF SendOrder, OInv, Ordered
  <2> HIDE DEF new
  <2>5. new.by = k
      BY <1>1 DEF new
  <2>6. ChannelOrder(v)'
    <3> SUFFICES ASSUME NEW n \in DOMAIN chan'[v]
                 PROVE  /\ got[<<v, chan'[v][n].by>>] < chan'[v][n].first
                        /\ chan'[v][n].first <= chan'[v][n].last
                        /\ chan'[v][n].last < pos[chan'[v][n].by]
                        /\ \A m \in DOMAIN chan'[v] :
                              m < n /\ chan'[v][m].by = chan'[v][n].by
                                  => chan'[v][m].last < chan'[v][n].first
        BY <1>2 DEF ChannelOrder
    <3>1. CASE n \in DOMAIN chan[v]
      <4>1. \A m \in DOMAIN chan'[v] : m < n => m \in DOMAIN chan[v]
          BY <2>2, <2>3, <3>1
      <4> QED
          BY <2>3, <3>1, <4>1 DEF ChannelOrder, OInv, Ordered
    <3>2. CASE n = L + 1
      <4>1. \A m \in DOMAIN chan'[v] : m < n => m \in DOMAIN chan[v]
          BY <2>2, <2>3, <3>2
      <4> QED
          BY <2>3, <2>4, <2>5, <3>2, <4>1
    <3> QED
        BY <2>3, <3>1, <3>2
  <2>7. \A w \in Viewers : w # v => ChannelOrder(w)'
      BY <1>2, <2>1 DEF ChannelOrder, OInv, Ordered
  <2>8. ASSUME NEW j \in Collectors PROVE SendOrder(j)'
    <3> SUFFICES ASSUME col[j] = "send", NEW w \in rest'[j]
                 PROVE  /\ got[<<w, j>>] < entry[j].first
                        /\ \A n \in DOMAIN chan'[w] :
                              chan'[w][n].by = j => chan'[w][n].last < entry[j].first
        BY <1>2 DEF SendOrder, OInv, Ordered
    <3>1. w \in rest[j] /\ w \in Viewers /\ (j = k => w # v)
        BY <1>1, <1>2 DEF TypeOK
    <3>2. /\ got[<<w, j>>] < entry[j].first
          /\ \A n \in DOMAIN chan[w] : chan[w][n].by = j => chan[w][n].last < entry[j].first
        BY <3>1 DEF SendOrder, OInv, Ordered
    <3>3. CASE w # v
        BY <2>1, <3>1, <3>2, <3>3
    <3>4. CASE w = v
        BY <2>3, <2>5, <3>1, <3>2, <3>4
    <3> QED
        BY <3>3, <3>4
  <2>9. ASSUME NEW j \in Collectors PROVE FreshCollector(j)'
    <3> SUFFICES ASSUME col[j] \in {"none", "open"}
                 PROVE  \A w \in Viewers : \A n \in DOMAIN chan'[w] : chan'[w][n].by # j
        BY <1>2 DEF FreshCollector, OInv, Ordered
    <3>1. j # k /\ \A w \in Viewers : \A n \in DOMAIN chan[w] : chan[w][n].by # j
        BY <1>1 DEF FreshCollector, OInv, Ordered
    <3> QED
        BY <2>1, <2>3, <2>5, <3>1
  <2> QED
      BY <1>2, <2>6, <2>7, <2>8, <2>9 DEF OInv, Ordered
<1> QED
    BY <1>3, <1>4 DEF Send

LEMMA OrderNext == OInv /\ [Next]_vars => OInv'
<1> SUFFICES ASSUME OInv, [Next]_vars PROVE OInv'
    OBVIOUS
<1>1. MInv'
    BY MapNext DEF OInv
<1> USE DEF docker, handlers, channels, collectors
<1>2. CASE UNCHANGED <<chan, got, collectors>>
    BY <1>1, <1>2, OrderStays DEF OInv
<1>3. ASSUME NEW v \in Viewers, Handler(v) PROVE OInv'
    BY <1>1, <1>2, <1>3, OrderReceive, OrderClose
    DEF Handler, SendHistoricalLogs, Delete, OInv
<1>4. ASSUME NEW v \in Viewers, NEW h \in Hosts, List(v, h) PROVE OInv'
  <2>1. \A k \in Collectors : col'[k] = col[k] \/ (col[k] = "none" /\ col'[k] = "open")
    <3>1. \A k \in Collectors : \/ col'[k] = col[k]
                                \/ <<k[1], HostOf[k[2]]>> = <<v, h>> /\ col'[k] = "open"
        BY <1>4 DEF List, OInv, MInv, TInv, TypeOK
    <3>2. lister[<<v, h>>] # "done"
        BY <1>4 DEF List
    <3> QED
        BY <3>1, <3>2 DEF OInv, MInv, Started
  <2> QED
      BY <1>1, <1>4, <2>1, OrderStays DEF List, OInv
<1>5. ASSUME NEW k \in Collectors, Collector(k) PROVE OInv'
  <2>1. CASE Open(k) /\ Step(k, "read")
      BY <1>1, <2>1, OrderOpen DEF OInv
  <2>2. CASE \/ Open(k) /\ Step(k, "done") /\ UNCHANGED <<pos, got>>
             \/ End(k) \/ RUnlock(k)
    <3>1. UNCHANGED <<chan, got, pos, rest>>
        BY <2>2 DEF Open, End, RUnlock
    <3>2. \A j \in Collectors :
            /\ entry'[j] = entry[j] \/ col'[j] # "send"
            /\ \/ col'[j] = col[j] \/ col'[j] = "done"
               \/ col[j] = "send" /\ col'[j] = "read"
        BY <2>2 DEF Open, End, RUnlock, Step, OInv, MInv, TInv, TypeOK
    <3> QED
        BY <1>1, <3>1, <3>2, OrderStays DEF OInv
  <2>3. CASE Read(k)
      BY <1>1, <2>3, OrderRead DEF OInv
  <2>4. ASSUME NEW v \in Viewers, Send(k, v) PROVE OInv'
      BY <1>1, <2>4, OrderSend DEF OInv
  <2> QED
      BY <1>5, <2>1, <2>2, <2>3, <2>4 DEF Collector, Broadcast, Open
<1>6. CASE UNCHANGED vars
    BY <1>2, <1>6 DEF vars
<1> QED
    BY <1>2, <1>3, <1>4, <1>5, <1>6
    DEF Next, Register, Written, Disconnect, WriteLine, StartOrStop

LEMMA OrderInit == Init => OInv
<1> SUFFICES ASSUME Init PROVE OInv
    OBVIOUS
<1>1. MInv
  <2>1. TInv
      BY TypeInit DEF Init, TInv, Sending
  <2> QED
      BY <2>1, KeysOf DEF Init, MInv, Mapped, Started, Listers
<1>2. /\ \A v \in Viewers : chan[v] = <<>>
      /\ \A v \in Viewers, k \in Collectors : got[<<v, k>>] = 0
      /\ \A k \in Collectors : col[k] = "none" /\ pos[k] = 1
    BY DEF Init
<1>3. Ordered
    BY <1>2 DEF Ordered, ChannelOrder, SendOrder, FreshCollector
<1> QED
    BY <1>1, <1>3 DEF OInv

LEMMA OrderInvariant == Spec => []OInv
    BY OrderInit, OrderNext, PTL DEF Spec

(* No viewer is sent a piece twice by a collector, or pieces out of order, *)
(* however many collectors broadcast into its channel.                     *)
THEOREM ReadsInOrder == Spec => []InOrder
<1>1. OInv => InOrder
  <2> SUFFICES ASSUME OInv, NEW v \in Viewers, NEW n \in DOMAIN chan[v]
               PROVE  /\ got[<<v, chan[v][n].by>>] < chan[v][n].first
                      /\ \A m \in 1..n - 1 :
                            chan[v][m].by = chan[v][n].by => chan[v][m].last < chan[v][n].first
      BY DEF InOrder
  <2>1. DOMAIN chan[v] = 1..Len(chan[v]) /\ Len(chan[v]) \in Nat
      BY ChannelTypes DEF OInv, MInv, TInv
  <2>2. \A m \in 1..n - 1 : m \in DOMAIN chan[v] /\ m < n
      BY <2>1
  <2> QED
      BY <2>2 DEF OInv, Ordered, ChannelOrder
<1> QED
    BY <1>1, OrderInvariant, PTL

-----------------------------------------------------------------------------
(* No read vanishes.                                                       *)

InChannel(k, n) ==
    \E m \in DOMAIN chan[k[1]] : chan[k[1]][m].by = k /\ n \in Pieces(chan[k[1]][m])
Gone(k) == lost[k] \cup dropped[k]
ToSend(k, n) == entry[k] # NoEntry /\ n \in Pieces(entry[k]) /\ k[1] \in rest[k]
Kept(k) ==
    at[k[1]] \in {"watch", "write"} =>
        \A n \in got[<<k[1], k>>] + 1..pos[k] - 1 :
            n \in Gone(k) \/ InChannel(k, n) \/ ToSend(k, n)
VInv == OInv /\ \A k \in Collectors : Kept(k)

LEMMA KeptIsNothingVanishes == (\A k \in Collectors : Kept(k)) => NothingVanishes
<1> SUFFICES ASSUME \A k \in Collectors : Kept(k), NEW v \in Viewers, NEW c \in Containers,
                    at[v] \in {"watch", "write"},
                    NEW n \in got[<<v, <<v, c>> >>] + 1..pos[<<v, c>>] - 1
             PROVE  \/ n \in lost[<<v, c>>] \cup dropped[<<v, c>>]
                    \/ \E m \in DOMAIN chan[v] :
                          chan[v][m].by = <<v, c>> /\ n \in Pieces(chan[v][m])
                    \/ /\ entry[<<v, c>>] # NoEntry /\ n \in Pieces(entry[<<v, c>>])
                       /\ v \in rest[<<v, c>>]
    BY DEF NothingVanishes
<1> DEFINE k == <<v, c>>
<1>1. k \in Collectors /\ k[1] = v
    BY DEF Collectors
<1> HIDE DEF k
<1>2. k = <<v, c>>
    BY DEF k
<1>3. n \in Gone(k) \/ InChannel(k, n) \/ ToSend(k, n)
    BY <1>1, <1>2 DEF Kept
<1> QED
    BY <1>1, <1>2, <1>3 DEF InChannel, ToSend, Gone

(* Nothing happens to what a collector has read.                           *)
LEMMA KeptStays ==
    ASSUME NEW k \in Collectors, Kept(k),
           at'[k[1]] \in {"watch", "write"} => at[k[1]] \in {"watch", "write"},
           got'[<<k[1], k>>] = got[<<k[1], k>>], pos'[k] = pos[k],
           Gone(k) \subseteq Gone(k)', chan'[k[1]] = chan[k[1]],
           entry'[k] = entry[k], rest'[k] = rest[k] \/ (rest'[k] = rest[k] \ {k[1]} /\
               \A n \in got[<<k[1], k>>] + 1..pos[k] - 1 : ToSend(k, n) => n \in Gone(k)')
    PROVE  Kept(k)'
    BY DEF Kept, InChannel, ToSend

LEMMA KeptReceive ==
    ASSUME VInv, NEW v \in Viewers, Receive(v), NEW k \in Collectors PROVE Kept(k)'
<1> DEFINE e == Head(chan[v])
<1>1. TypeOK /\ chan[v] \in Seq(Entries) /\ chan[v] # <<>> /\ k[1] \in Viewers
    BY KeysOf DEF Receive, VInv, OInv, MInv, TInv, TypeOK
<1>2. /\ e \in Entries /\ e = chan[v][1] /\ 1 \in DOMAIN chan[v]
      /\ \A n \in DOMAIN Tail(chan[v]) :
            n + 1 \in DOMAIN chan[v] /\ Tail(chan[v])[n] = chan[v][n + 1]
      /\ \A n \in DOMAIN chan[v] : n # 1 => n - 1 \in DOMAIN Tail(chan[v]) /\ (n - 1) + 1 = n
    BY <1>1, Received
<1>3. e.by \in Collectors /\ e.first \in Nat /\ e.last \in Nat
    BY <1>2, EntryType
<1> HIDE DEF e
<1>4. /\ chan'[v] = Tail(chan[v]) /\ \A w \in Viewers : w # v => chan'[w] = chan[w]
      /\ got' = [got EXCEPT ![<<v, e.by>>] = e.last]
      /\ UNCHANGED <<pos, rest, entry, col>> /\ at[v] = "watch"
      /\ \A w \in Viewers : w # v => at'[w] = at[w]
      /\ lost' = IF e.by[1] = v THEN [lost EXCEPT ![e.by] = {n \in @ : n > e.last}] ELSE lost
      /\ dropped' = IF e.by[1] = v THEN [dropped EXCEPT ![e.by] = {n \in @ : n > e.last}]
                    ELSE dropped
    BY <1>1 DEF Receive, Take, TypeOK, collectors, e, Goto
<1>5. /\ got'[<<v, e.by>>] = e.last
      /\ \A w \in Viewers : w # v \/ k # e.by => got'[<<w, k>>] = got[<<w, k>>]
      /\ k # e.by \/ e.by[1] # v => Gone(k)' = Gone(k)
      /\ k = e.by /\ k[1] = v => Gone(k)' = {n \in Gone(k) : n > e.last}
    BY <1>1, <1>3, <1>4 DEF TypeOK, Gone
<1>6. CASE k[1] # v
    BY <1>1, <1>4, <1>5, <1>6, KeptStays DEF VInv
<1>7. CASE k[1] = v
  <2>1. got[<<v, k>>] \in Nat /\ pos[k] \in Nat /\ Kept(k)
      BY <1>1, <1>7, NumberTypes DEF VInv
  <2>2. e.by = k => got[<<v, k>>] < e.first /\ e.first <= e.last
      BY <1>1, <1>2 DEF VInv, OInv, Ordered, ChannelOrder
  <2> SUFFICES ASSUME NEW n \in got'[<<v, k>>] + 1..pos[k] - 1
               PROVE  n \in Gone(k)' \/ InChannel(k, n)' \/ ToSend(k, n)'
      BY <1>4, <1>7 DEF Kept
  <2>3. n \in Nat /\ (e.by = k => n > e.last) /\ n \in got[<<v, k>>] + 1..pos[k] - 1
    <3>1. CASE e.by = k
        BY <1>3, <1>5, <2>1, <2>2, <3>1
    <3>2. CASE e.by # k
        BY <1>5, <1>1, <2>1, <3>2
    <3> QED
        BY <3>1, <3>2
  <2>4. n \in Gone(k) \/ InChannel(k, n) \/ ToSend(k, n)
      BY <1>4, <1>7, <2>1, <2>3 DEF Kept
  <2>5. CASE n \in Gone(k)
      BY <1>5, <1>7, <2>3, <2>5
  <2>6. CASE InChannel(k, n)
    <3>1. PICK m \in DOMAIN chan[v] : chan[v][m].by = k /\ n \in Pieces(chan[v][m])
        BY <1>7, <2>6 DEF InChannel
    <3>2. m # 1
        BY <1>2, <1>3, <2>3, <3>1 DEF Pieces
    <3>3. m - 1 \in DOMAIN chan'[v] /\ chan'[v][m - 1] = chan[v][m]
        BY <1>2, <1>4, <3>1, <3>2
    <3>4. InChannel(k, n)'
        BY <1>7, <3>1, <3>3 DEF InChannel
    <3> QED
        BY <3>4
  <2>7. CASE ToSend(k, n)
      BY <1>4, <2>7 DEF ToSend
  <2> QED
      BY <2>4, <2>5, <2>6, <2>7
<1> QED
    BY <1>6, <1>7

LEMMA KeptRead ==
    ASSUME VInv, NEW k \in Collectors, Read(k) PROVE Kept(k)'
<1>1. TypeOK /\ k[1] \in Viewers
    BY KeysOf DEF VInv, OInv, MInv, TInv
<1>2. PICK last \in pos[k]..log[k[2]] :
        /\ pos' = [pos EXCEPT ![k] = last + 1]
        /\ \/ /\ entry' = [entry EXCEPT ![k] =
                              [by |-> k, first |-> pos[k], last |-> last]]
              /\ col' = [col EXCEPT ![k] = "send"]
              /\ rest' = [rest EXCEPT ![k] = subs]
              /\ dropped' = dropped
           \/ /\ last = pos[k]
              /\ dropped' = [dropped EXCEPT ![k] = @ \cup {last}]
    BY <1>1, ReadResult
<1>3. /\ pos'[k] = last + 1 /\ col[k] = "read"
      /\ UNCHANGED <<chan, got, lost, at>>
    BY <1>1, <1>2 DEF Read, TypeOK, handlers
<1>8. Gone(k) \subseteq Gone(k)'
    BY <1>1, <1>2, <1>3 DEF Gone, TypeOK
<1>4. got[<<k[1], k>>] \in Nat /\ pos[k] \in Nat /\ last \in Nat /\ rest[k] = {}
  <2>1. log[k[2]] \in Nat /\ pos[k] \in Nat /\ got[<<k[1], k>>] \in Nat
      BY <1>1, NumberTypes
  <2>2. rest[k] = {}
      BY <1>3 DEF VInv, OInv, MInv, Mapped
  <2> QED
      BY <1>2, <2>1, <2>2
<1>5. col'[k] = "send" => entry'[k] # NoEntry
  <2>1. Next
      BY DEF Next, Collector, VInv, OInv, MInv
  <2>2. Sending'
      BY <2>1, SendingNext DEF VInv, OInv, MInv
  <2> QED
      BY <2>2, LogStreamAssumption DEF Sending
<1> SUFFICES ASSUME at[k[1]] \in {"watch", "write"},
                    NEW n \in got[<<k[1], k>>] + 1..last
             PROVE  n \in Gone(k)' \/ InChannel(k, n)' \/ ToSend(k, n)'
    BY <1>3, <1>4 DEF Kept
<1>6. CASE n < pos[k]
  <2>1. n \in got[<<k[1], k>>] + 1..pos[k] - 1
      BY <1>4, <1>6
  <2>2. n \in Gone(k) \/ InChannel(k, n)
      BY <1>4, <2>1 DEF VInv, Kept, ToSend
  <2> QED
      BY <1>3, <1>8, <2>2 DEF InChannel
<1>7. CASE n >= pos[k]
  <2>1. CASE /\ entry' = [entry EXCEPT ![k] = [by |-> k, first |-> pos[k], last |-> last]]
             /\ col' = [col EXCEPT ![k] = "send"]
             /\ rest' = [rest EXCEPT ![k] = subs]
    <3>1. /\ entry'[k] = [by |-> k, first |-> pos[k], last |-> last]
          /\ col'[k] = "send" /\ rest'[k] = subs
        BY <1>1, <2>1 DEF TypeOK
    <3>2. n \in Pieces(entry'[k])
        BY <1>4, <1>7, <3>1 DEF Pieces
    <3>3. k[1] \in subs
        BY <1>1 DEF VInv, OInv, MInv, Mapped
    <3> QED
        BY <1>5, <3>1, <3>2, <3>3 DEF ToSend
  <2>2. CASE last = pos[k] /\ dropped' = [dropped EXCEPT ![k] = @ \cup {last}]
    <3>1. n = last
        BY <1>4, <1>7, <2>2
    <3> QED
        BY <1>1, <2>2, <3>1 DEF Gone, TypeOK
  <2> QED
      BY <1>2, <2>1, <2>2
<1> QED
    BY <1>4, <1>6, <1>7

LEMMA KeptSend ==
    ASSUME VInv, NEW k \in Collectors, NEW v \in Viewers, Send(k, v),
           NEW j \in Collectors
    PROVE  Kept(j)'
<1>1. /\ TypeOK /\ j[1] \in Viewers /\ entry[k] \in Entries /\ entry[k].by = k
      /\ v \in rest[k] /\ v \notin closed
    BY KeysOf DEF Send, VInv, OInv, MInv, TInv, Sending, Mapped
<1>2. /\ rest'[k] = rest[k] \ {v} /\ \A i \in Collectors : i # k => rest'[i] = rest[i]
      /\ UNCHANGED <<at, got, pos, entry, dropped>>
    BY <1>1 DEF Send, TypeOK, handlers
<1>3. CASE chan' = [chan EXCEPT ![v] = Append(@, entry[k])] /\ lost' = lost
  <2>1. /\ chan'[v] = Append(chan[v], entry[k]) /\ chan[v] \in Seq(Entries)
        /\ \A w \in Viewers : w # v => chan'[w] = chan[w]
      BY <1>1, <1>3 DEF TypeOK
  <2>2. /\ \A m \in DOMAIN chan[v] : m \in DOMAIN chan'[v] /\ chan'[v][m] = chan[v][m]
        /\ Len(chan[v]) + 1 \in DOMAIN chan'[v]
        /\ chan'[v][Len(chan[v]) + 1] = entry[k]
      BY <1>1, <2>1, Appended
  <2>3. ASSUME NEW n, InChannel(j, n) PROVE InChannel(j, n)'
      BY <1>1, <2>1, <2>2, <2>3 DEF InChannel
  <2>4. ASSUME NEW n, ToSend(j, n) PROVE InChannel(j, n)' \/ ToSend(j, n)'
    <3>1. CASE j = k /\ j[1] = v
        BY <1>1, <2>2, <2>4, <3>1 DEF InChannel, ToSend
    <3>2. CASE j # k \/ j[1] # v
        BY <1>2, <2>4, <3>2 DEF ToSend
    <3> QED
        BY <3>1, <3>2
  <2> QED
      BY <1>2, <1>3, <2>3, <2>4 DEF VInv, Kept, Gone
<1>4. CASE /\ chan' = chan
           /\ lost' = IF k[1] = v THEN [lost EXCEPT ![k] = @ \cup Pieces(entry[k])] ELSE lost
  <2>1. Gone(j) \subseteq Gone(j)' /\ (j = k /\ k[1] = v => Pieces(entry[k]) \subseteq Gone(j)')
      BY <1>1, <1>2, <1>4 DEF TypeOK, Gone
  <2>2. rest'[j] = rest[j] \/ (j = k /\ rest'[j] = rest[j] \ {v})
      BY <1>2
  <2>3. ASSUME NEW n, ToSend(j, n) PROVE n \in Gone(j)' \/ ToSend(j, n)'
      BY <1>2, <2>1, <2>2, <2>3 DEF ToSend
  <2>4. \A n : InChannel(j, n) => InChannel(j, n)'
      BY <1>4 DEF InChannel
  <2> QED
      BY <1>2, <2>1, <2>3, <2>4 DEF VInv, Kept
<1> QED
    BY <1>1, <1>3, <1>4 DEF Send

(* A viewer that arrives has missed nothing: none of its own collectors    *)
(* has opened its log.                                                     *)
LEMMA KeptRegister ==
    ASSUME VInv, NEW v \in Viewers, Register(v), NEW k \in Collectors PROVE Kept(k)'
<1>1. /\ at[v] = "away" /\ UNCHANGED <<chan, got, lost, dropped, pos, entry, rest, col>>
      /\ \A w \in Viewers : w # v => at'[w] = at[w]
    BY DEF Register, Goto, channels, collectors, VInv, OInv, MInv, TInv, TypeOK
<1>2. CASE k[1] # v
    BY <1>1, <1>2, KeysOf, KeptStays DEF VInv, Gone
<1>3. CASE k[1] = v
  <2>1. col[k] = "none"
      BY <1>1, <1>3, KeysOf DEF VInv, OInv, MInv, Started
  <2>2. got[<<v, k>>] = 0 /\ pos[k] = 1
      BY <2>1 DEF VInv, OInv, Ordered, FreshCollector
  <2>3. got[<<v, k>>] + 1..pos[k] - 1 = {}
      BY <2>2
  <2> QED
      BY <1>1, <1>3, <2>3 DEF Kept
<1> QED
    BY <1>2, <1>3

(* So has one whose collector opens the log.                               *)
LEMMA KeptOpen ==
    ASSUME VInv, NEW k \in Collectors, Open(k), Step(k, "read") PROVE Kept(k)'
<1> DEFINE p == IF log[k[2]] > Backlog THEN log[k[2]] - Backlog + 1 ELSE 1
<1>1. TypeOK /\ k[1] \in Viewers /\ <<k[1], k>> \in Viewers \X Collectors
    BY KeysOf, NumberTypes DEF VInv, OInv, MInv, TInv
<1>2. p \in Nat
  <2>1. log[k[2]] \in Nat
      BY <1>1, NumberTypes
  <2> QED
      BY <2>1, LogStreamAssumption
<1>3. pos' = [pos EXCEPT ![k] = p] /\ got' = [got EXCEPT ![<<k[1], k>>] = pos'[k] - 1]
  <2>1. col' # [col EXCEPT ![k] = "done"]
      BY <1>1 DEF Step, TypeOK
  <2> QED
      BY <2>1 DEF Open, Step, p
<1> HIDE DEF p
<1>4. pos'[k] = p /\ got'[<<k[1], k>>] = p - 1
    BY <1>1, <1>3 DEF TypeOK
<1>5. got'[<<k[1], k>>] + 1..pos'[k] - 1 = {}
    BY <1>2, <1>4
<1> QED
    BY <1>5 DEF Kept

LEMMA KeptClose ==
    ASSUME VInv, NEW v \in Viewers, Close(v), NEW k \in Collectors PROVE Kept(k)'
<1>1. TypeOK /\ k[1] \in Viewers
    BY KeysOf DEF VInv, OInv, MInv, TInv
<1>2. CASE k[1] = v
    BY <1>1, <1>2 DEF Close, Goto, TypeOK, Kept
<1>3. CASE k[1] # v
  <2>1. /\ at'[k[1]] = at[k[1]] /\ chan'[k[1]] = chan[k[1]] /\ Gone(k)' = Gone(k)
        /\ got'[<<k[1], k>>] = got[<<k[1], k>>] /\ UNCHANGED <<pos, entry, rest>>
      BY <1>1, <1>3 DEF Close, Goto, TypeOK, collectors, Gone
  <2> QED
      BY <2>1, KeptStays DEF VInv
<1> QED
    BY <1>2, <1>3

LEMMA KeptNext == VInv /\ [Next]_vars => VInv'
<1> SUFFICES ASSUME VInv, [Next]_vars PROVE VInv'
    OBVIOUS
<1>1. OInv'
    BY OrderNext DEF VInv
<1> SUFFICES ASSUME NEW k \in Collectors PROVE Kept(k)'
    BY <1>1 DEF VInv
<1>2. TypeOK /\ k[1] \in Viewers /\ Kept(k)
    BY KeysOf DEF VInv, OInv, MInv, TInv
<1> USE DEF docker, handlers, channels, collectors
<1>3. CASE UNCHANGED <<chan, got, lost, dropped, pos, entry, rest>>
           /\ \A v \in Viewers : at'[v] \in {"watch", "write"} => at[v] \in {"watch", "write"}
    BY <1>2, <1>3, KeptStays DEF Gone
<1>4. ASSUME NEW v \in Viewers, Handler(v) \/ Written(v) \/ Disconnect(v) PROVE Kept(k)'
  <2>1. CASE SendHistoricalLogs(v) \/ Delete(v) \/ Written(v) \/ Disconnect(v)
    <3>1. \A w \in Viewers : at'[w] \in {"watch", "write"} => at[w] \in {"watch", "write"}
        BY <1>2, <2>1 DEF SendHistoricalLogs, Delete, Written, Disconnect, Goto, TypeOK
    <3> QED
        BY <1>3, <2>1, <3>1 DEF SendHistoricalLogs, Delete, Written, Disconnect
  <2> QED
      BY <1>4, <2>1, KeptReceive, KeptClose DEF Handler
<1>5. ASSUME NEW j \in Collectors, Collector(j) PROVE Kept(k)'
  <2>1. CASE Read(j) \/ (Open(j) /\ Step(j, "read"))
    <3>1. CASE j = k
        BY <2>1, <3>1, KeptRead, KeptOpen
    <3>2. CASE j # k
      <4>1. /\ UNCHANGED <<at, chan>> /\ Gone(k)' = Gone(k) /\ entry'[k] = entry[k] /\ rest'[k] = rest[k]
            /\ pos'[k] = pos[k] /\ got'[<<k[1], k>>] = got[<<k[1], k>>]
          BY <1>2, <2>1, <3>2 DEF Read, Reads, Open, TypeOK, Gone
      <4> QED
          BY <1>2, <4>1, KeptStays
    <3> QED
        BY <3>1, <3>2
  <2>2. CASE \/ Open(j) /\ UNCHANGED <<pos, got>>
             \/ End(j)
      BY <1>3, <2>2 DEF Open, End
  <2>3. CASE RUnlock(j)
    <3>1. /\ UNCHANGED <<at, chan, got, lost, dropped, pos, rest>>
          /\ k = j \/ entry'[k] = entry[k]
          /\ k = j => rest[k] = {}
        BY <1>2, <2>3 DEF RUnlock, TypeOK
    <3>2. CASE k = j
        BY <1>2, <3>1, <3>2 DEF Kept, InChannel, ToSend, Gone
    <3>3. CASE k # j
        BY <1>2, <3>1, <3>3, KeptStays DEF Gone
    <3> QED
        BY <3>2, <3>3
  <2> QED
      BY <1>5, <2>1, <2>2, <2>3, KeptSend DEF Collector, Broadcast, Open
<1>6. CASE UNCHANGED vars
    BY <1>3, <1>6 DEF vars
<1> QED
    BY <1>3, <1>4, <1>5, <1>6, KeptRegister DEF Next, List, WriteLine, StartOrStop

(* What each collector has read is accounted for, always.                  *)
LEMMA EverythingKept == Spec => []VInv
<1>1. Init => VInv
  <2> SUFFICES ASSUME Init PROVE VInv
      OBVIOUS
  <2>1. OInv
      BY OrderInit
  <2>2. \A k \in Collectors : at[k[1]] = "away"
      BY KeysOf DEF Init
  <2> QED
      BY <2>1, <2>2 DEF VInv, Kept
<1> QED
    BY <1>1, KeptNext, PTL DEF Spec

(* Whatever a viewer's collector has read is on its way to the viewer or   *)
(* was skipped because its channel was full, or was a read of one piece,   *)
(* whoever else comes and goes.                                            *)
THEOREM NoReadVanishes == Spec => []NothingVanishes
<1>1. VInv => NothingVanishes
    BY KeptIsNothingVanishes DEF VInv
<1> QED
    BY <1>1, EverythingKept, PTL

-----------------------------------------------------------------------------
(* What is shown.                                                          *)

(* A viewer is shown what it asked for, whatever other viewers read.       *)
THEOREM OnlyAskedForIsShown == Spec => ShownIsAskedFor
<1> DEFINE Shown(v) ==
        at[v] = "watch" /\ at'[v] = "write" =>
            LET c == Head(chan[v]).by[2]
            IN  Collects(v, c) \/ (StackOf[c] = NoStack /\ filter[v].stacks # {})
<1>1. ASSUME TInv, Next, NEW v \in Viewers PROVE Shown(v)
  <2> SUFFICES ASSUME at[v] = "watch", at'[v] = "write" PROVE Shown(v)
      OBVIOUS
  <2>1. Receive(v) /\ at' # at
    <3> USE DEF docker, handlers, channels, collectors, Goto
    <3>1. at' # at
        OBVIOUS
    <3>2. PICK w \in Viewers : Register(w) \/ Handler(w) \/ Written(w)
        BY <1>1, <3>1 DEF Next, List, Collector, Open, Read, End, Broadcast, RUnlock, Send,
                          WriteLine, StartOrStop, Disconnect
    <3> QED
        BY <1>1, <3>1, <3>2 DEF Register, Handler, SendHistoricalLogs, Receive, Delete, Close,
                                Written, TInv, TypeOK
  <2>2. Matches(v, Head(chan[v]).by[2])
      BY <2>1 DEF Receive
  <2> QED
      BY <2>2 DEF Matches, Collects, Passes
<1>2. TInv /\ [Next]_vars => \A v \in Viewers : Shown(v)
  <2>1. CASE UNCHANGED vars
      BY <2>1 DEF vars, handlers
  <2> QED
      BY <1>1, <2>1
<1>3. TInv /\ [Next]_vars => [\A v \in Viewers : Shown(v)]_vars
    BY <1>2
<1> QED
    BY <1>3, TypeInvariant, PTL DEF Spec, ShownIsAskedFor

-----------------------------------------------------------------------------
(* Both together: the logs are a LogTail.                                  *)

(* What lies between two entries that a viewer receives of its own         *)
(* collector is lost, or it would still come before the later one.         *)
LEMMA GapIsLost ==
    ASSUME VInv, NEW v \in Viewers, Receive(v), NEW e, e = Head(chan[v]), e.by[1] = v,
           NEW n \in got[<<v, e.by>>] + 1..e.first - 1
    PROVE  n \in Gone(e.by)
<1>1. /\ TypeOK /\ chan[v] \in Seq(Entries) /\ chan[v] # <<>>
      /\ at[v] = "watch"
    BY DEF Receive, VInv, OInv, MInv, TInv, TypeOK
<1>2. e \in Entries /\ e = chan[v][1] /\ 1 \in DOMAIN chan[v]
    BY <1>1, Received
<1>3. PICK k \in Collectors : k = e.by /\ k[1] = v
    BY <1>2, EntryType
<1>4. /\ e.first \in Nat /\ e.last \in Nat /\ pos[k] \in Nat
      /\ got[<<v, k>>] \in Nat
    BY <1>1, <1>2, EntryType, NumberTypes
<1>5. n \in Nat /\ got[<<v, k>>] < n /\ n < e.first
    BY <1>3, <1>4
<1>6. /\ e.first <= e.last /\ e.last < pos[k]
      /\ \A m \in DOMAIN chan[v] : 1 < m /\ chan[v][m].by = k => e.last < chan[v][m].first
    BY <1>2, <1>3 DEF VInv, OInv, Ordered, ChannelOrder
<1>7. n \in got[<<k[1], k>>] + 1..pos[k] - 1
    BY <1>3, <1>4, <1>5, <1>6
<1>8. n \in Gone(k) \/ InChannel(k, n) \/ ToSend(k, n)
    BY <1>1, <1>3, <1>7 DEF VInv, Kept
<1>9. ~InChannel(k, n)
  <2> SUFFICES ASSUME NEW m \in DOMAIN chan[v], chan[v][m].by = k,
                      n \in Pieces(chan[v][m])
               PROVE  FALSE
      BY <1>3 DEF InChannel
  <2>1. m \in Nat /\ m >= 1 /\ chan[v][m].first \in Nat /\ chan[v][m].last \in Nat
      BY <1>1, ChannelTypes
  <2>2. chan[v][m].first <= n
      BY <1>5, <2>1 DEF Pieces
  <2>3. m = 1 => chan[v][m] = e
      BY <1>2
  <2> QED
      BY <1>4, <1>5, <1>6, <2>1, <2>2, <2>3
<1>10. ~ToSend(k, n)
  <2> SUFFICES ASSUME n \in Pieces(entry[k]), v \in rest[k] PROVE FALSE
      BY <1>3 DEF ToSend
  <2>1. col[k] = "send"
      BY DEF VInv, OInv, MInv, Mapped
  <2>2. entry[k] \in Entries
      BY <2>1 DEF VInv, OInv, MInv, TInv, Sending
  <2>3. entry[k].first \in Nat /\ e.last < entry[k].first
      BY <1>2, <1>3, <2>1, <2>2, EntryType DEF VInv, OInv, Ordered, SendOrder
  <2>4. entry[k].first <= n
      BY <1>5, <2>2, <2>3, EntryType DEF Pieces
  <2> QED
      BY <1>4, <1>5, <1>6, <2>3, <2>4
<1> QED
    BY <1>3, <1>8, <1>9, <1>10

(* What a collector that opens, reads or broadcasts does to the tail.      *)
LEMMA TailOpen ==
    ASSUME VInv, NEW k \in Collectors, Open(k)
    PROVE  Tailing!Start(k) \/ UNCHANGED <<pos, got, lost, dropped>>
<1> DEFINE p == IF log[k[2]] > Backlog THEN log[k[2]] - Backlog + 1 ELSE 1
<1>1. TypeOK /\ k[1] \in Viewers /\ pos[k] = 1 /\ log[k[2]] \in 0..MaxLog
  <2>1. TypeOK /\ k[1] \in Viewers /\ k[2] \in Containers
      BY KeysOf DEF VInv, OInv, MInv, TInv
  <2>2. pos[k] = 1
      BY DEF Open, VInv, OInv, Ordered, FreshCollector
  <2> QED
      BY <2>1, <2>2 DEF TypeOK
<1>2. p - 1 \in 0..MaxLog
    BY <1>1, LogStreamAssumption
<1>3. \/ UNCHANGED <<pos, got, lost, dropped>>
      \/ pos' = [pos EXCEPT ![k] = p] /\ got' = [got EXCEPT ![<<k[1], k>>] = pos'[k] - 1]
         /\ UNCHANGED <<lost, dropped>>
    BY DEF Open
<1> HIDE DEF p
<1>4. ASSUME pos' = [pos EXCEPT ![k] = p], got' = [got EXCEPT ![<<k[1], k>>] = pos'[k] - 1],
             UNCHANGED <<lost, dropped>>
      PROVE  Tailing!Start(k)
  <2>1. pos'[k] = p /\ \A j \in Collectors : j # k => pos'[j] = pos[j]
      BY <1>1, <1>4 DEF TypeOK
  <2>2. [j \in Collectors |-> pos'[j] - 1]
            = [[j \in Collectors |-> pos[j] - 1] EXCEPT ![k] = p - 1]
      BY <2>1
  <2>3. got' = [got EXCEPT ![<<k[1], k>>] = p - 1]
      BY <1>4, <2>1
  <2>4. [j \in Collectors |-> pos[j] - 1][k] = 0
      BY <1>1
  <2> QED
      BY <1>2, <1>4, <2>2, <2>3, <2>4 DEF Tailing!Start
<1> QED
    BY <1>3, <1>4

LEMMA TailRead ==
    ASSUME VInv, NEW k \in Collectors, Read(k) PROVE Tailing!Advance(k) \/ Tailing!Drop(k)
<1> DEFINE read == [j \in Collectors |-> pos[j] - 1]
           missed == [j \in Collectors |-> Gone(j)]
<1>1. TypeOK
    BY DEF VInv, OInv, MInv, TInv
<1>2. PICK last \in 1..MaxLog :
        /\ last \in pos[k]..log[k[2]] /\ pos[k] \in 1..MaxLog
        /\ pos' = [pos EXCEPT ![k] = last + 1]
        /\ \/ dropped' = dropped
           \/ last = pos[k] /\ dropped' = [dropped EXCEPT ![k] = @ \cup {last}]
    BY <1>1, ReadResult
<1>3. pos[k] \in Nat /\ last \in Nat /\ pos[k] <= last
    BY <1>2
<1>4. read[k] = pos[k] - 1 /\ missed[k] = Gone(k)
    OBVIOUS
<1>5. pos'[k] = last + 1 /\ \A j \in Collectors : j # k => pos'[j] = pos[j]
    BY <1>1, <1>2 DEF TypeOK
<1>6. read' = [read EXCEPT ![k] = last]
  <2>1. pos'[k] - 1 = last
      BY <1>3, <1>5
  <2> QED
      BY <1>5, <2>1
<1>7. UNCHANGED <<got, lost>>
    BY DEF Read
<1>8. CASE dropped' = dropped
  <2>1. last \in read[k] + 1..MaxLog
      BY <1>2, <1>3, LogStreamAssumption
  <2>2. UNCHANGED <<got, missed>>
      BY <1>7, <1>8 DEF Gone
  <2> QED
      BY <1>6, <2>1, <2>2 DEF Tailing!Advance, Gone
<1>9. CASE last = pos[k] /\ dropped' = [dropped EXCEPT ![k] = @ \cup {last}]
  <2>1. read[k] < MaxLog /\ read[k] + 1 = last
      BY <1>2, <1>3, <1>9, LogStreamAssumption
  <2>2. Gone(k)' = Gone(k) \cup {last} /\ \A j \in Collectors : j # k => Gone(j)' = Gone(j)
      BY <1>1, <1>7, <1>9 DEF Gone, TypeOK
  <2>3. missed' = [missed EXCEPT ![k] = @ \cup {read[k] + 1}]
      BY <2>1, <2>2
  <2>4. read' = [read EXCEPT ![k] = @ + 1]
      BY <1>6, <2>1
  <2> QED
      BY <1>7, <2>1, <2>3, <2>4 DEF Tailing!Drop, Gone
<1> QED
    BY <1>2, <1>8, <1>9

LEMMA TailSend ==
    ASSUME VInv, NEW k \in Collectors, NEW v \in Viewers, Send(k, v)
    PROVE  Tailing!Miss(k) \/ UNCHANGED <<pos, got, lost, dropped>>
<1>1. TypeOK /\ col[k] = "send" /\ v \in rest[k] /\ entry[k] \in Entries
    BY DEF Send, VInv, OInv, MInv, TInv, Sending
<1>2. UNCHANGED <<pos, got, dropped>>
    BY DEF Send
<1>3. CASE lost' = lost
    BY <1>2, <1>3
<1>4. CASE k[1] = v /\ lost' = [lost EXCEPT ![k] = @ \cup Pieces(entry[k])]
  <2>1. PICK first, last : first = entry[k].first /\ last = entry[k].last
      OBVIOUS
  <2>2. first \in Nat /\ last \in Nat /\ got[<<v, k>>] \in Nat /\ pos[k] \in Nat
      BY <1>1, <2>1, EntryType, NumberTypes
  <2>3. got[<<v, k>>] < first /\ first <= last /\ last < pos[k]
      BY <1>1, <2>1 DEF VInv, OInv, Ordered, SendOrder
  <2>4. first \in got[<<k[1], k>>] + 1..pos[k] - 1 /\ last \in 1..pos[k] - 1
      BY <1>4, <2>2, <2>3
  <2>5. [j \in Collectors |-> lost'[j] \cup dropped'[j]]
            = [[j \in Collectors |-> lost[j] \cup dropped[j]] EXCEPT ![k] = @ \cup first..last]
    <3>1. lost'[k] = lost[k] \cup first..last /\ \A j \in Collectors : j # k => lost'[j] = lost[j]
        BY <1>1, <1>4, <2>1 DEF Pieces, TypeOK
    <3> QED
        BY <1>2, <3>1
  <2>6. UNCHANGED [j \in Collectors |-> pos[j] - 1]
      BY <1>2
  <2>7. [j \in Collectors |-> pos[j] - 1][k] = pos[k] - 1
      OBVIOUS
  <2>8. \E f \in got[<<k[1], k>>] + 1..[j \in Collectors |-> pos[j] - 1][k],
           l \in 1..[j \in Collectors |-> pos[j] - 1][k] :
            [j \in Collectors |-> lost'[j] \cup dropped'[j]]
                = [[j \in Collectors |-> lost[j] \cup dropped[j]] EXCEPT ![k] = @ \cup f..l]
      BY ONLY <2>4, <2>5, <2>7
  <2> QED
      BY <1>2, <2>6, <2>8 DEF Tailing!Miss
<1> QED
    BY <1>3, <1>4 DEF Send

(* An entry that is received is shown to the tail, whatever the filter.    *)
LEMMA TailReceive ==
    ASSUME VInv, NEW v \in Viewers, Receive(v)
    PROVE  \E k \in Collectors : Tailing!Show(v, k)
<1>1. PICK e : e = Head(chan[v])
    OBVIOUS
<1>2. TypeOK /\ chan[v] \in Seq(Entries) /\ chan[v] # <<>>
    BY DEF Receive, VInv, OInv, MInv, TInv, TypeOK
<1>3. e \in Entries /\ e = chan[v][1] /\ 1 \in DOMAIN chan[v]
    BY <1>1, <1>2, Received
<1>4. PICK k \in Collectors : k = e.by
    BY <1>3, EntryType
<1>5. PICK first, last : first = e.first /\ last = e.last
    OBVIOUS
<1>6. first \in Nat /\ last \in Nat /\ got[<<v, k>>] \in Nat /\ pos[k] \in Nat
    BY <1>2, <1>3, <1>5, EntryType, NumberTypes
<1>7. got[<<v, k>>] < first /\ first <= last /\ last < pos[k]
    BY <1>3, <1>4, <1>5 DEF VInv, OInv, Ordered, ChannelOrder
<1>8. first \in got[<<v, k>>] + 1..pos[k] - 1 /\ last \in 1..pos[k] - 1
    BY <1>6, <1>7
<1>9. k[1] = v => got[<<v, k>>] + 1..first - 1 \subseteq lost[k] \cup dropped[k]
    BY <1>1, <1>4, <1>5, GapIsLost DEF Gone
<1>10. /\ got' = [got EXCEPT ![<<v, k>>] = last]
       /\ lost' = IF k[1] = v THEN [lost EXCEPT ![k] = {n \in @ : n > last}] ELSE lost
       /\ dropped' = IF k[1] = v THEN [dropped EXCEPT ![k] = {n \in @ : n > last}] ELSE dropped
       /\ pos' = pos
    BY <1>1, <1>4, <1>5 DEF Receive, Take, collectors
<1>14. [j \in Collectors |-> lost'[j] \cup dropped'[j]]
          = IF k[1] = v
            THEN [[j \in Collectors |-> lost[j] \cup dropped[j]] EXCEPT
                     ![k] = {n \in @ : n > last}]
            ELSE [j \in Collectors |-> lost[j] \cup dropped[j]]
  <2>1. CASE k[1] = v
    <3>1. /\ lost'[k] = {n \in lost[k] : n > last}
          /\ dropped'[k] = {n \in dropped[k] : n > last}
          /\ \A j \in Collectors : j # k => lost'[j] = lost[j] /\ dropped'[j] = dropped[j]
        BY <1>2, <1>10, <2>1 DEF TypeOK
    <3>2. lost'[k] \cup dropped'[k] = {n \in lost[k] \cup dropped[k] : n > last}
        BY <3>1
    <3> QED
        BY <2>1, <3>1, <3>2
  <2>2. CASE k[1] # v
      BY <1>10, <2>2
  <2> QED
      BY <2>1, <2>2
<1>11. UNCHANGED [j \in Collectors |-> pos[j] - 1]
    BY <1>10
<1>12. [j \in Collectors |-> pos[j] - 1][k] = pos[k] - 1
    OBVIOUS
<1>15. k[1] = v =>
          got[<<v, k>>] + 1..first - 1 \subseteq [j \in Collectors |-> lost[j] \cup dropped[j]][k]
    BY <1>9
<1>16. /\ first \in got[<<v, k>>] + 1..[j \in Collectors |-> pos[j] - 1][k]
       /\ last \in 1..[j \in Collectors |-> pos[j] - 1][k]
       /\ got' = [got EXCEPT ![<<v, k>>] = last]
    BY <1>8, <1>10, <1>12
<1>17. \E f \in got[<<v, k>>] + 1..[j \in Collectors |-> pos[j] - 1][k],
          l \in 1..[j \in Collectors |-> pos[j] - 1][k] :
          /\ f <= l
          /\ k[1] = v => got[<<v, k>>] + 1..f - 1
                            \subseteq [j \in Collectors |-> lost[j] \cup dropped[j]][k]
          /\ got' = [got EXCEPT ![<<v, k>>] = l]
          /\ [j \in Collectors |-> lost'[j] \cup dropped'[j]]
                = IF k[1] = v
                  THEN [[j \in Collectors |-> lost[j] \cup dropped[j]] EXCEPT
                           ![k] = {n \in @ : n > l}]
                  ELSE [j \in Collectors |-> lost[j] \cup dropped[j]]
    BY ONLY <1>7, <1>14, <1>15, <1>16, Zenon
<1>18. Tailing!Show(v, k)
    BY <1>11, <1>17 DEF Tailing!Show
<1> QED
    BY <1>18

LEMMA TailStep ==
    ASSUME VInv, [Next]_vars PROVE [Tailing!TailNext]_(Tailing!tvars)
<1>1. CASE UNCHANGED <<pos, got, lost, dropped>>
    BY <1>1 DEF Tailing!tvars
<1> USE DEF docker, handlers, channels, collectors
<1>2. ASSUME NEW v \in Viewers, Close(v) PROVE Tailing!Leave(v)
    BY <1>2 DEF Close, Tailing!Leave
<1>3. ASSUME NEW k \in Collectors, Collector(k) PROVE [Tailing!TailNext]_(Tailing!tvars)
    BY <1>1, <1>3, TailOpen, TailRead, TailSend
    DEF Collector, Broadcast, End, RUnlock, Tailing!TailNext
<1>4. ASSUME NEW v \in Viewers, Handler(v) PROVE [Tailing!TailNext]_(Tailing!tvars)
    BY <1>1, <1>2, <1>4, TailReceive
    DEF Handler, SendHistoricalLogs, Delete, Tailing!TailNext
<1>5. CASE UNCHANGED vars
    BY <1>1, <1>5 DEF vars
<1> QED
    BY <1>1, <1>3, <1>4, <1>5
    DEF Next, Register, Written, Disconnect, List, WriteLine, StartOrStop

(* Viewers are shown what their collectors read, once and in order, and    *)
(* miss of their own only what did not fit and the reads of one piece:     *)
(* whoever else comes, goes or does not read.                              *)
THEOREM Refinement == Spec => ImplementsTail
<1>1. Init => Tailing!TailInit
    BY DEF Init, Tailing!TailInit
<1> QED
    BY <1>1, TailStep, EverythingKept, PTL DEF Spec, ImplementsTail, Tailing!TailSpec

-----------------------------------------------------------------------------
(* The end.                                                                *)

(* A collector whose viewer has left reads once more at most: what is left *)
(* of ViewersLeave without fairness.                                       *)
THEOREM LeaversOnlyStop == Spec => LeaversStop
<1> DEFINE Stops(k) == (k[1] \in left /\ col'[k] # col[k]) => RoundsLeft(k)' < RoundsLeft(k)
<1>1. ASSUME TInv, Next, NEW k \in Collectors PROVE Stops(k)
  <2> SUFFICES ASSUME k[1] \in left, col'[k] # col[k]
               PROVE  RoundsLeft(k)' < RoundsLeft(k)
      OBVIOUS
  <2>1. PICK j \in Collectors : Collector(j)
    <3>1. ASSUME NEW v \in Viewers, NEW h \in Hosts, List(v, h) PROVE FALSE
        BY <1>1, <3>1 DEF List, TInv, TypeOK
    <3>2. ASSUME NEW v \in Viewers, Register(v) \/ Handler(v) \/ Written(v) \/ Disconnect(v)
          PROVE  FALSE
        BY <3>2 DEF Register, Handler, SendHistoricalLogs, Receive, Delete, Close,
                    Written, Disconnect, collectors
    <3>3. ASSUME NEW c \in Containers, WriteLine(c) \/ StartOrStop(c) PROVE FALSE
        BY <3>3 DEF WriteLine, StartOrStop, collectors
    <3> QED
        BY <1>1, <3>1, <3>2, <3>3 DEF Next
  <2>2. j = k
      BY <1>1, <2>1 DEF Collector, Open, Read, Reads, End, Broadcast, RUnlock, Send, Step,
                        TInv, TypeOK
  <2>3. CASE Open(k) \/ End(k)
      BY <1>1, <2>3 DEF Open, End, Step, RoundsLeft, TInv, TypeOK
  <2>4. CASE Read(k)
      BY <1>1, <2>4 DEF Read, Reads, Step, RoundsLeft, TInv, TypeOK
  <2>5. CASE RUnlock(k)
      BY <1>1, <2>5 DEF RUnlock, Step, RoundsLeft, TInv, TypeOK
  <2>6. ~\E v \in Viewers : Send(k, v)
      BY DEF Send
  <2> QED
      BY <2>1, <2>2, <2>3, <2>4, <2>5, <2>6 DEF Collector, Broadcast
<1> HIDE DEF Stops
<1>2. TInv /\ [Next]_vars => [\A k \in Collectors : Stops(k)]_vars
    BY <1>1
<1>3. Spec => [][\A k \in Collectors : Stops(k)]_vars
    BY <1>2, TypeInvariant, PTL DEF Spec
<1> QED
    BY <1>3 DEF LeaversStop, Stops
=============================================================================
