-------------------------- MODULE IpcChannelProofs --------------------------
(***************************************************************************)
(* The channel between processes, for any number of writers, any capacity  *)
(* and any messages: proofs of MessagesArriveWhole, SpaceIsSignalled and   *)
(* ReportIsTrue.  Four arguments carry them.  Only the owner of the write  *)
(* mutex is inside WritePendingMessages or has a message half written, so  *)
(* that the newest packet is its last one.  The free space is what the     *)
(* packets do not take, so that a packet that does not fit finds a buffer  *)
(* the reader has still to empty.  A writer's messages keep their order    *)
(* over what is delivered, in the buffer and pending.  And of the messages *)
(* a writer was given, those pending, those written, those that failed and *)
(* those reported are different ones.                                      *)
(***************************************************************************)
EXTENDS IpcChannel, TLAPS, SequenceTheorems, NaturalsInduction, WellFoundedInduction

Message == [from : Writer, n : Nat, size : Nat \ {0}, callback : BOOLEAN]
Packet == [msg : Message, sequence : Nat, last : BOOLEAN, from : Nat, size : Nat]
Queue == [state : {"none", "open", "closed"}, pending : Seq(Message),
          waits : {"nothing", "mutex", "space"}, has : BOOLEAN, written : Nat, sequence : Nat]
Turn == {"write", "signal", "signal_stop", "stop"}
Running == [at : {"build", "wait", "dead"} \cup Turn,
            watch : SUBSET {"mutex", "space", "process"}, count : Nat]

SharedType ==
  /\ ipc_buffer \in Seq(Packet) /\ ipc_free \in Int
  /\ ipc_data \in BOOLEAN /\ ipc_space \in BOOLEAN /\ ipc_alive \in BOOLEAN
  /\ ipc_reader \in [at : {"wait", "read", "set", "set_last"}, data : Seq(Packet),
                     last : Packet \cup {NoPacket}]
  /\ ipc_delivered \in [Writer -> Seq(Seq(Packet))]
  /\ ipc_sent \in Seq(Message)

WriterType ==
  /\ ipc_mutex \in Writer \cup {NoWriter}
  /\ ipc_run \in [Writer -> Running]
  /\ ipc_queue \in [Writer -> Queue]

(* The write mutex and what a queue waits for follow its writer's place in *)
(* Run: only the owner of the mutex is between a wait and a release, and   *)
(* only it has a message half written.                                     *)
TurnOf(w) ==
  LET q == ipc_queue[w] r == ipc_run[w]
  IN  /\ q.has <=> ipc_mutex = w
      /\ r.at \in Turn => q.has /\ q.waits = "nothing" /\ q.state = "open"
      /\ q.waits = "space" => q.has
      /\ q.waits = "mutex" => ~q.has
      /\ q.has /\ r.at \notin Turn => q.waits = "space"
      /\ q.state = "none" => q = NoQueue
      /\ r.at = "wait" => \A h \in {"mutex", "space"} : h \in r.watch => q.waits = h /\ q.state = "open"
      /\ r.at = "wait" /\ "process" \in r.watch => q.state # "none"
      /\ r.at \in {"build", "wait"} /\ q.state # "none" /\ q.pending # <<>> =>
           q.waits = IF q.has THEN "space" ELSE "mutex"
      /\ q.written > 0 => q.has /\ q.pending # <<>> /\ (r.at \in Turn => r.count = 0)

Turns == \A w \in Writer : TurnOf(w)

(* s[i] is the space that the first i packets take. *)
Totals(s, packets) ==
  /\ s \in [0 .. Len(packets) -> Nat]
  /\ s[0] = 0
  /\ \A i \in 1 .. Len(packets) : s[i] = s[i - 1] + 1 + packets[i].size
  /\ \A i, j \in 0 .. Len(packets) : i <= j => s[i] <= s[j]

Space ==
  /\ ipc_free \in 0 .. Capacity
  /\ \E s : Totals(s, ipc_buffer) /\ ipc_free = Capacity - s[Len(ipc_buffer)]

(* The reader works, or will, and sets the space event then. *)
Awake == ipc_space \/ ipc_data \/ ipc_reader.at # "wait"

HopeOf(w) ==
  LET q == ipc_queue[w] r == ipc_run[w]
  IN  /\ q.waits = "space" => Awake
      /\ r.at = "signal_stop" /\ r.count = 0 /\ q.pending # <<>> => Awake \/ ipc_buffer # <<>>
      /\ r.at = "stop" /\ r.count = 0 /\ q.pending # <<>> => Awake

Hope == ipc_alive => \A w \in Writer : HopeOf(w)

(* A packet is a piece of its message. *)
Piece(p) ==
  /\ p.from + p.size <= p.msg.size
  /\ p.last <=> p.from + p.size = p.msg.size
  /\ p.sequence = 0 => p.from = 0

Continues(p, q) ==
  q.sequence # 0 => ~p.last /\ p.msg = q.msg /\ q.sequence = p.sequence + 1 /\ q.from = p.from + p.size

(* The last packet read, then the packets in the buffer. *)
Newest == IF ipc_buffer = <<>> THEN ipc_reader.last ELSE ipc_buffer[Len(ipc_buffer)]

Pieces ==
  /\ \A i \in 1 .. Len(ipc_buffer) : Piece(ipc_buffer[i])
  /\ ipc_buffer # <<>> => Continues(ipc_reader.last, ipc_buffer[1])
  /\ \A i \in 1 .. Len(ipc_buffer) - 1 : Continues(ipc_buffer[i], ipc_buffer[i + 1])
  /\ \A w \in Writer : ipc_queue[w].written > 0 =>
       /\ ~Newest.last /\ Newest.msg = Head(ipc_queue[w].pending)
       /\ Newest.sequence = ipc_queue[w].sequence
       /\ Newest.from + Newest.size = ipc_queue[w].written
       /\ ipc_queue[w].written < Head(ipc_queue[w].pending).size

(* Packets that were put together: a message from its start on. *)
Chain(data) ==
  /\ data # <<>>
  /\ data[1].from = 0
  /\ \A i \in 1 .. Len(data) : data[i].msg = data[1].msg
  /\ \A i \in 1 .. Len(data) - 1 : data[i + 1].from = data[i].from + data[i].size

Gathered ==
  ~ipc_reader.last.last =>
     Chain(ipc_reader.data) /\ ipc_reader.data[Len(ipc_reader.data)] = ipc_reader.last

Dispatched ==
  \A w \in Writer : \A i \in 1 .. Len(ipc_delivered[w]) :
    /\ Chain(ipc_delivered[w][i])
    /\ ipc_delivered[w][i][1].msg.from = w
    /\ LET end == ipc_delivered[w][i][Len(ipc_delivered[w][i])]
       IN  end.from + end.size = ipc_delivered[w][i][1].msg.size

(* Delivered (d), in the buffer (b), pending (p): the messages of writer w *)
(* keep their order over all three; k were sent so far.                    *)
OrderOf(w, d, b, p, k) ==
  LET mine == {i \in 1 .. Len(b) : b[i].msg.from = w}
  IN  /\ \A i \in 1 .. Len(d) : d[i][1].msg.n \in 1 .. k
      /\ \A i \in mine : b[i].msg.n \in 1 .. k
      /\ \A i \in 1 .. Len(p) : p[i].n \in 1 .. k /\ p[i].from = w
      /\ \A i, j \in 1 .. Len(d) : i < j => d[i][1].msg.n < d[j][1].msg.n
      /\ \A i \in 1 .. Len(d), j \in mine : d[i][1].msg.n < b[j].msg.n
      /\ \A i \in 1 .. Len(d), j \in 1 .. Len(p) : d[i][1].msg.n < p[j].n
      /\ \A i, j \in mine : i < j =>
           b[i].msg.n <= b[j].msg.n /\ (b[i].last => b[i].msg.n < b[j].msg.n)
      /\ \A i \in mine, j \in 1 .. Len(p) :
           b[i].msg.n <= p[j].n /\ (b[i].last => b[i].msg.n < p[j].n)
      /\ \A i, j \in 1 .. Len(p) : i < j => p[i].n < p[j].n

Ordered ==
  \A w \in Writer : OrderOf(w, ipc_delivered[w], ipc_buffer, ipc_queue[w].pending, Len(ipc_sent))

ChannelInv ==
  /\ SharedType /\ WriterType /\ Turns /\ Space /\ Hope
  /\ Pieces /\ Gathered /\ Dispatched /\ Ordered

-----------------------------------------------------------------------------
(* A step of writer w leaves the other writers alone. *)
Alone(w) ==
  /\ \A v \in Writer \ {w} :
       ipc_queue'[v] = ipc_queue[v] /\ ipc_run'[v] = ipc_run[v] /\ (ipc_mutex' = v <=> ipc_mutex = v)

LEMMA NoQueueType == NoQueue \in Queue
BY EmptySeq DEF NoQueue, Queue

LEMMA NewMessageType ==
  ASSUME ipc_sent \in Seq(Message), NEW w \in Writer, Len(ipc_sent) < Len(Sends)
  PROVE  NewIpcMessage(w) \in Message /\ NewIpcMessage(w).n = Len(ipc_sent) + 1 /\ NewIpcMessage(w).from = w
<1> DEFINE n == Len(ipc_sent) + 1
<1>1. n \in 1 .. Len(Sends)
  BY ChannelAssumption
<1> DEFINE S == [size : Nat \ {0}, callback : BOOLEAN]
<1>2. Sends \in Seq(S)
  BY ChannelAssumption
<1> HIDE DEF S
<1>3. Sends[n] \in S
  BY <1>1, <1>2
<1>4. Sends[n] \in [size : Nat \ {0}, callback : BOOLEAN]
  BY <1>3 DEF S
<1> QED
  BY <1>1, <1>4 DEF NewIpcMessage, Message

(* What a Send does to the queue of its writer. *)
LEMMA SendQueue ==
  ASSUME WriterType, Turns, NEW w \in Writer, ipc_run[w].at \in {"build", "wait"},
         NEW m \in Message, GetOutboundQueue(w).state # "none", AddMessageToQueue(w, m)
  PROVE  /\ ipc_queue' \in [Writer -> Queue]
         /\ \A v \in Writer \ {w} : ipc_queue'[v] = ipc_queue[v]
         /\ LET q == ipc_queue[w] p == ipc_queue'[w]
            IN  /\ p.pending = Append(q.pending, m)
                /\ p.written = q.written /\ p.sequence = q.sequence /\ p.has = q.has
                /\ q.state = "none" => p.state = "open" /\ p.waits = "mutex"
                /\ q.state # "none" => p.state = q.state
                /\ ~q.has => p.waits = "mutex"
                /\ q.has => p.waits = q.waits
<1> DEFINE g == GetOutboundQueue(w)
<1> DEFINE e == [g EXCEPT !.pending = Append(@, m)]
<1>1. ipc_queue[w] \in Queue /\ TurnOf(w)
  BY DEF WriterType, Turns
<1>2. ipc_queue[w].state = "none" => ipc_queue[w] = NoQueue
  BY <1>1 DEF TurnOf
<1>3. /\ g \in Queue /\ g.pending = ipc_queue[w].pending
      /\ g.written = ipc_queue[w].written /\ g.sequence = ipc_queue[w].sequence
      /\ g.has = ipc_queue[w].has /\ g.waits = ipc_queue[w].waits
      /\ (ipc_queue[w].state = "none" => g.state = "open" /\ ~g.has /\ g.waits = "nothing")
      /\ (ipc_queue[w].state # "none" => g.state = ipc_queue[w].state)
  <2>1. CASE ipc_queue[w].state = "none"
    <3>1. ipc_queue[w] = NoQueue /\ g = [NoQueue EXCEPT !.state = "open"]
      BY <1>2, <2>1 DEF GetOutboundQueue
    <3> QED
      BY <3>1, NoQueueType DEF NoQueue, Queue
  <2>2. CASE ipc_queue[w].state # "none"
    BY <2>2, <1>1 DEF GetOutboundQueue
  <2> QED
    BY <2>1, <2>2
<1> HIDE DEF g
<1>4. e \in Queue
  <2>1. Append(g.pending, m) \in Seq(Message)
    BY <1>3 DEF Queue
  <2> QED
    BY <2>1, <1>3 DEF Queue
<1>5. /\ e.pending = Append(g.pending, m) /\ e.written = g.written /\ e.sequence = g.sequence
      /\ e.has = g.has /\ e.waits = g.waits /\ e.state = g.state
  BY <1>3 DEF Queue
<1> HIDE DEF e
<1> DEFINE x == MaybeWaitForWriteMutex(e)
<1>6. /\ x \in Queue /\ x.pending = e.pending /\ x.written = e.written /\ x.sequence = e.sequence
      /\ x.has = e.has /\ x.state = e.state
      /\ (~e.has => x.waits = "mutex") /\ (e.has => x.waits = e.waits)
  BY <1>4 DEF MaybeWaitForWriteMutex, Queue
<1>7. ipc_queue' = [ipc_queue EXCEPT ![w] = x]
  BY DEF AddMessageToQueue, x, e, g
<1> HIDE DEF x
<1>8. ipc_queue'[w] = x /\ ipc_queue' \in [Writer -> Queue] /\ \A v \in Writer \ {w} : ipc_queue'[v] = ipc_queue[v]
  BY <1>6, <1>7 DEF WriterType
<1> QED
  BY <1>3, <1>5, <1>6, <1>8

LEMMA SendTurn ==
  ASSUME WriterType, SharedType, Turns, NEW w \in Writer, SendWithCompletion(w) \/ SendToAll(w)
  PROVE  WriterType' /\ SharedType' /\ TurnOf(w)' /\ Alone(w)
<1>1. /\ ipc_run[w].at \in {"build", "wait"} /\ Len(ipc_sent) < Len(Sends)
      /\ ipc_sent' = Append(ipc_sent, NewIpcMessage(w))
      /\ UNCHANGED <<sharedVars, readerVars, ipc_run>>
  BY DEF SendWithCompletion, SendToAll, SendStarts
<1>2. NewIpcMessage(w) \in Message
  BY <1>1, NewMessageType DEF SharedType
<1>3. SharedType'
  <2>1. Append(ipc_sent, NewIpcMessage(w)) \in Seq(Message)
    BY <1>2 DEF SharedType
  <2> QED
    BY <1>1, <2>1 DEF SharedType, sharedVars, readerVars
<1>4. ipc_queue[w] \in Queue /\ ipc_run[w] \in Running /\ TurnOf(w)
  BY DEF WriterType, Turns
<1>5. CASE UNCHANGED ipc_queue
  BY <1>1, <1>3, <1>4, <1>5 DEF WriterType, TurnOf, Alone, sharedVars
<1>6. CASE GetOutboundQueue(w).state # "none" /\ AddMessageToQueue(w, NewIpcMessage(w))
  <2>1. /\ ipc_queue' \in [Writer -> Queue]
        /\ \A v \in Writer \ {w} : ipc_queue'[v] = ipc_queue[v]
        /\ LET q == ipc_queue[w] p == ipc_queue'[w]
           IN  /\ p.pending = Append(q.pending, NewIpcMessage(w))
               /\ p.written = q.written /\ p.sequence = q.sequence /\ p.has = q.has
               /\ q.state = "none" => p.state = "open" /\ p.waits = "mutex"
               /\ q.state # "none" => p.state = q.state
               /\ ~q.has => p.waits = "mutex"
               /\ q.has => p.waits = q.waits
    BY <1>1, <1>2, <1>6, SendQueue
  <2>2. ipc_queue'[w].pending # <<>>
    BY <2>1, <1>2, <1>4 DEF Queue
  <2>3. ipc_run' = ipc_run /\ ipc_mutex' = ipc_mutex
    BY <1>1 DEF sharedVars
  <2>4. WriterType' /\ Alone(w)
    BY <2>1, <2>3 DEF WriterType, Alone
  <2>5. TurnOf(w)'
    <3>1. ipc_queue[w].state = "none" => ipc_queue[w].waits = "nothing" /\ ~ipc_queue[w].has
      BY <1>4 DEF TurnOf, NoQueue
    <3>2. ipc_queue'[w].state # "none"
      BY <2>1, <1>4
    <3>3. ipc_run'[w].at \notin Turn
      BY <1>1, <2>3 DEF Turn
    <3>4. ipc_queue[w].has => ipc_queue[w].state # "none"
      BY <3>1
    <3>5. ipc_run[w].at = "wait" => \A h \in {"mutex", "space"} : h \in ipc_run[w].watch =>
             ipc_queue'[w].waits = h /\ ipc_queue'[w].state = "open"
      BY <1>4, <2>1, <3>1 DEF TurnOf
    <3>6. ipc_queue'[w].waits = IF ipc_queue'[w].has THEN "space" ELSE "mutex"
      BY <1>4, <2>1, <3>3, <2>3 DEF TurnOf
    <3> QED
      BY <1>4, <2>1, <2>2, <2>3, <3>1, <3>2, <3>3, <3>4, <3>5, <3>6 DEF TurnOf
  <2> QED
    BY <1>3, <2>4, <2>5
<1> QED
  BY <1>5, <1>6 DEF SendWithCompletion, SendToAll

LEMMA BuildTurn ==
  ASSUME WriterType, SharedType, Turns, NEW w \in Writer, Build(w)
  PROVE  WriterType' /\ SharedType' /\ TurnOf(w)' /\ Alone(w)
<1>1. ipc_queue[w] \in Queue /\ ipc_run[w] \in Running /\ TurnOf(w)
  BY DEF WriterType, Turns
<1> DEFINE handles == IF ipc_queue[w].state = "none" THEN {} ELSE AddWaitHandles(ipc_queue[w])
<1>2. /\ ipc_run[w].at = "build" /\ ipc_queue[w].state # "closed"
      /\ ipc_run' = [ipc_run EXCEPT ![w].at = "wait", ![w].watch = handles]
      /\ UNCHANGED <<ipc_buffer, ipc_free, ipc_data, ipc_space, readerVars, ipc_sent, ipc_queue, ipc_mutex>>
  BY DEF Build, BuildStarts
<1>3. handles \in SUBSET {"mutex", "space", "process"}
  BY <1>1 DEF Queue, AddWaitHandles
<1>4. /\ \A h \in {"mutex", "space"} : h \in handles => ipc_queue[w].waits = h /\ ipc_queue[w].state = "open"
      /\ "process" \in handles => ipc_queue[w].state # "none"
  BY <1>1, <1>2 DEF Queue, AddWaitHandles
<1> HIDE DEF handles
<1>5. /\ ipc_run'[w] \in Running /\ ipc_run'[w].at = "wait" /\ ipc_run'[w].watch = handles
      /\ ipc_run' \in [Writer -> Running] /\ \A v \in Writer \ {w} : ipc_run'[v] = ipc_run[v]
  BY <1>1, <1>2, <1>3 DEF WriterType, Running
<1>6. WriterType' /\ SharedType' /\ Alone(w)
  BY <1>2, <1>5 DEF WriterType, SharedType, Alone, readerVars
<1>7. TurnOf(w)'
  BY <1>1, <1>2, <1>4, <1>5 DEF TurnOf, Turn
<1> QED
  BY <1>6, <1>7

LEMMA RemoveTurn ==
  ASSUME WriterType, SharedType, Turns, NEW w \in Writer, RemoveOutboundQueue(w) \/ EndWriter(w)
  PROVE  WriterType' /\ SharedType' /\ TurnOf(w)' /\ Alone(w) /\ ipc_queue'[w] = NoQueue
<1>1. ipc_queue[w] \in Queue /\ ipc_run[w] \in Running /\ TurnOf(w)
  BY DEF WriterType, Turns
<1>2. /\ ipc_queue' = [ipc_queue EXCEPT ![w] = NoQueue]
      /\ ipc_mutex' = IF ipc_mutex = w THEN NoWriter ELSE ipc_mutex
      /\ UNCHANGED <<ipc_buffer, ipc_free, ipc_data, ipc_space, readerVars, ipc_sent>>
  BY <1>1 DEF RemoveOutboundQueue, EndWriter, BuildStarts, TurnOf
<1>3. /\ ipc_run' \in [Writer -> Running] /\ \A v \in Writer \ {w} : ipc_run'[v] = ipc_run[v]
      /\ ipc_run'[w].at \in {"wait", "dead"} /\ ipc_run'[w].watch = {}
  <2>1. \/ ipc_run' = [ipc_run EXCEPT ![w].at = "wait", ![w].watch = {}]
        \/ ipc_run' = [ipc_run EXCEPT ![w] = [at |-> "dead", watch |-> {}, count |-> 0]]
    BY DEF RemoveOutboundQueue, EndWriter
  <2>2. CASE ipc_run' = [ipc_run EXCEPT ![w].at = "wait", ![w].watch = {}]
    BY <1>1, <2>2 DEF WriterType, Running
  <2>3. CASE ipc_run' = [ipc_run EXCEPT ![w] = [at |-> "dead", watch |-> {}, count |-> 0]]
    BY <1>1, <2>3 DEF WriterType, Running
  <2> QED
    BY <2>1, <2>2, <2>3
<1>4. /\ ipc_queue' \in [Writer -> Queue] /\ \A v \in Writer \ {w} : ipc_queue'[v] = ipc_queue[v]
      /\ ipc_queue'[w] = NoQueue
  BY <1>2, NoQueueType DEF WriterType
<1>5. /\ ipc_mutex' \in Writer \cup {NoWriter} /\ ipc_mutex' # w
      /\ \A v \in Writer \ {w} : ipc_mutex' = v <=> ipc_mutex = v
  BY <1>2, WriterAssumption DEF WriterType
<1>6. WriterType' /\ SharedType' /\ Alone(w)
  BY <1>2, <1>3, <1>4, <1>5 DEF WriterType, SharedType, Alone, readerVars
<1>7. TurnOf(w)'
  BY <1>3, <1>4, <1>5 DEF TurnOf, Turn, NoQueue
<1> QED
  BY <1>4, <1>6, <1>7

LEMMA WaitTurn ==
  ASSUME WriterType, SharedType, Turns, NEW w \in Writer, WaitReturns(w) \/ WaitComplete(w)
  PROVE  /\ WriterType' /\ SharedType' /\ TurnOf(w)' /\ Alone(w)
         /\ ipc_queue'[w].pending = ipc_queue[w].pending
         /\ ipc_queue'[w].written = ipc_queue[w].written /\ ipc_queue'[w].sequence = ipc_queue[w].sequence
<1>1. ipc_queue[w] \in Queue /\ ipc_run[w] \in Running /\ TurnOf(w)
  BY DEF WriterType, Turns
<1>2. ipc_run[w].at = "wait" /\ UNCHANGED <<ipc_buffer, ipc_free, ipc_data, readerVars, ipc_sent>>
  BY DEF WaitReturns, WaitComplete, sharedVars
<1>3. CASE WaitReturns(w)
  <2>1. UNCHANGED <<ipc_queue, ipc_mutex, ipc_space>> /\ ipc_run' = [ipc_run EXCEPT ![w].at = "build"]
    BY <1>3 DEF WaitReturns, sharedVars
  <2>2. WriterType' /\ SharedType' /\ Alone(w)
    BY <1>1, <1>2, <2>1 DEF WriterType, Running, SharedType, readerVars, Alone
  <2>3. TurnOf(w)'
    BY <1>1, <1>2, <2>1 DEF WriterType, Running, TurnOf, Turn
  <2> QED
    BY <2>1, <2>2, <2>3
<1>4. CASE WaitComplete(w) /\ Signalled(w) = "mutex"
  <2>1. /\ ipc_mutex' = w /\ UNCHANGED ipc_space
        /\ ipc_queue' = [ipc_queue EXCEPT ![w].waits = "nothing", ![w].has = TRUE]
        /\ ipc_run' = [ipc_run EXCEPT ![w].at = "write", ![w].count = 0]
    BY <1>4 DEF WaitComplete
  <2>2. "mutex" \in ipc_run[w].watch /\ ipc_mutex = NoWriter
    BY <1>4 DEF Signalled
  <2>3. ipc_queue[w].state = "open" /\ ~ipc_queue[w].has
    BY <1>1, <1>2, <2>2 DEF TurnOf
  <2>4. WriterType' /\ SharedType' /\ Alone(w)
    <3>1. ipc_queue' \in [Writer -> Queue] /\ \A v \in Writer \ {w} : ipc_queue'[v] = ipc_queue[v]
      BY <1>1, <2>1 DEF WriterType, Queue
    <3>2. ipc_run' \in [Writer -> Running] /\ \A v \in Writer \ {w} : ipc_run'[v] = ipc_run[v]
      BY <1>1, <2>1 DEF WriterType, Running, Turn
    <3> QED
      BY <1>2, <2>1, <2>2, <3>1, <3>2, WriterAssumption DEF WriterType, SharedType, readerVars, Alone
  <2>5. TurnOf(w)'
    BY <1>1, <1>2, <2>1, <2>3 DEF WriterType, Running, Queue, TurnOf, Turn
  <2> QED
    BY <1>1, <2>1, <2>4, <2>5 DEF WriterType, Queue
<1>5. CASE WaitComplete(w) /\ Signalled(w) = "space"
  <2>1. /\ UNCHANGED ipc_mutex /\ ipc_space' = FALSE
        /\ ipc_queue' = [ipc_queue EXCEPT ![w].waits = "nothing"]
        /\ ipc_run' = [ipc_run EXCEPT ![w].at = "write", ![w].count = 0]
    BY <1>5 DEF WaitComplete
  <2>2. "space" \in ipc_run[w].watch
    BY <1>5 DEF Signalled
  <2>3. ipc_queue[w].state = "open" /\ ipc_queue[w].has
    BY <1>1, <1>2, <2>2 DEF TurnOf
  <2>4. WriterType' /\ SharedType' /\ Alone(w)
    <3>1. ipc_queue' \in [Writer -> Queue] /\ \A v \in Writer \ {w} : ipc_queue'[v] = ipc_queue[v]
      BY <1>1, <2>1 DEF WriterType, Queue
    <3>2. ipc_run' \in [Writer -> Running] /\ \A v \in Writer \ {w} : ipc_run'[v] = ipc_run[v]
      BY <1>1, <2>1 DEF WriterType, Running, Turn
    <3> QED
      BY <1>2, <2>1, <2>2, <3>1, <3>2, WriterAssumption DEF WriterType, SharedType, readerVars, Alone
  <2>5. TurnOf(w)'
    BY <1>1, <1>2, <2>1, <2>3 DEF WriterType, Running, Queue, TurnOf, Turn
  <2> QED
    BY <1>1, <2>1, <2>4, <2>5 DEF WriterType, Queue
<1>6. CASE WaitComplete(w) /\ Signalled(w) = "process"
  <2>1. /\ UNCHANGED <<ipc_mutex, ipc_space>>
        /\ ipc_queue' = [ipc_queue EXCEPT ![w].state = "closed"]
        /\ ipc_run' = [ipc_run EXCEPT ![w].at = "build"]
    BY <1>6 DEF WaitComplete
  <2>2. "process" \in ipc_run[w].watch
    BY <1>6 DEF Signalled
  <2>4. WriterType' /\ SharedType' /\ Alone(w)
    <3>1. ipc_queue' \in [Writer -> Queue] /\ \A v \in Writer \ {w} : ipc_queue'[v] = ipc_queue[v]
      BY <1>1, <2>1 DEF WriterType, Queue
    <3>2. ipc_run' \in [Writer -> Running] /\ \A v \in Writer \ {w} : ipc_run'[v] = ipc_run[v]
      BY <1>1, <2>1 DEF WriterType, Running, Turn
    <3> QED
      BY <1>2, <2>1, <2>2, <3>1, <3>2, WriterAssumption DEF WriterType, SharedType, readerVars, Alone
  <2>5. TurnOf(w)'
    BY <1>1, <1>2, <2>1, <2>2 DEF WriterType, Running, Queue, TurnOf, Turn
  <2> QED
    BY <1>1, <2>1, <2>4, <2>5 DEF WriterType, Queue
<1> QED
  BY <1>3, <1>4, <1>5, <1>6 DEF WaitComplete

(* What WriteOneMessage is about to write is the next piece of the first   *)
(* pending message.                                                        *)
LEMMA NextPacketIs ==
  ASSUME NEW w \in Writer, WriterType, ipc_queue[w].pending # <<>>,
         ipc_queue[w].written < Head(ipc_queue[w].pending).size
  PROVE  /\ NextPacket(w) \in Packet /\ Piece(NextPacket(w))
         /\ NextPacket(w).msg = Head(ipc_queue[w].pending)
         /\ NextPacket(w).msg \in Message
         /\ NextPacket(w).from = ipc_queue[w].written
         /\ 1 + NextPacket(w).size <= Capacity
         /\ NextPacket(w).sequence = IF ipc_queue[w].written > 0 THEN ipc_queue[w].sequence + 1 ELSE 0
         /\ ~NextPacket(w).last => NextPacket(w).size > 0
<1> DEFINE q == ipc_queue[w]
<1> DEFINE m == Head(q.pending)
<1> DEFINE left == m.size - q.written
<1>1. q \in Queue
  BY DEF WriterType
<1>2. m \in Message
  BY <1>1 DEF Queue
<1>3. /\ m.size \in Nat /\ q.written \in Nat /\ q.sequence \in Nat /\ left \in Nat /\ left > 0
      /\ m.size = q.written + left
  BY <1>1, <1>2 DEF Queue, Message
<1>4. Capacity \in Nat /\ Capacity > 1
  BY ChannelAssumption
<1>5. NextPacket(w) = [msg |-> m, sequence |-> IF q.written > 0 THEN q.sequence + 1 ELSE 0,
                       last |-> 1 + left <= Capacity, from |-> q.written,
                       size |-> IF 1 + left <= Capacity THEN left ELSE Capacity - 1]
  BY DEF NextPacket
<1> HIDE DEF m, left, q
<1>6. CASE 1 + left <= Capacity
  <2>1. /\ NextPacket(w).msg = m /\ NextPacket(w).from = q.written
        /\ NextPacket(w).sequence = IF q.written > 0 THEN q.sequence + 1 ELSE 0
        /\ NextPacket(w).last = TRUE /\ NextPacket(w).size = left
    <3>1. NextPacket(w) = [msg |-> m, sequence |-> IF q.written > 0 THEN q.sequence + 1 ELSE 0,
                           last |-> TRUE, from |-> q.written, size |-> left]
      BY <1>5, <1>6, Zenon
    <3> QED
      BY <3>1
  <2>2. NextPacket(w) \in Packet
    BY <1>2, <1>3, <1>5, <1>6 DEF Packet
  <2>3. Piece(NextPacket(w))
    BY <1>3, <2>1 DEF Piece
  <2> QED
    BY <1>2, <1>6, <2>1, <2>2, <2>3 DEF m, q
<1>7. CASE ~(1 + left <= Capacity)
  <2>1. /\ NextPacket(w).msg = m /\ NextPacket(w).from = q.written
        /\ NextPacket(w).sequence = IF q.written > 0 THEN q.sequence + 1 ELSE 0
        /\ NextPacket(w).last = FALSE /\ NextPacket(w).size = Capacity - 1
    <3>1. NextPacket(w) = [msg |-> m, sequence |-> IF q.written > 0 THEN q.sequence + 1 ELSE 0,
                           last |-> FALSE, from |-> q.written, size |-> Capacity - 1]
      <4>1. (1 + left <= Capacity) = FALSE
        BY <1>7
      <4> QED
        BY <1>5, <4>1
    <3> QED
      BY <3>1
  <2>2. NextPacket(w) \in Packet
    BY <1>2, <1>3, <1>4, <1>5, <1>7 DEF Packet
  <2>3. Piece(NextPacket(w))
    BY <1>3, <1>4, <1>7, <2>1 DEF Piece
  <2> QED
    BY <1>2, <1>4, <2>1, <2>2, <2>3 DEF m, q
<1> QED
  BY <1>6, <1>7

LEMMA WriteTurn ==
  ASSUME WriterType, SharedType, Turns, NEW w \in Writer, WriteOnePacket(w),
         ipc_queue[w].written < Head(ipc_queue[w].pending).size
  PROVE  /\ WriterType' /\ SharedType' /\ TurnOf(w)' /\ Alone(w)
         /\ ipc_run'[w].count = 0 => ~NextPacket(w).last
         /\ NextPacket(w).last =>
              /\ ipc_queue'[w].pending = Tail(ipc_queue[w].pending)
              /\ ipc_queue'[w].written = 0
         /\ ~NextPacket(w).last =>
              /\ ipc_queue'[w].pending = ipc_queue[w].pending
              /\ ipc_queue'[w].written = ipc_queue[w].written + NextPacket(w).size
              /\ ipc_queue'[w].sequence = NextPacket(w).sequence
<1> DEFINE p == NextPacket(w)
<1>1. ipc_queue[w] \in Queue /\ ipc_run[w] \in Running /\ TurnOf(w)
  BY DEF WriterType, Turns
<1>2. /\ ipc_run[w].at = "write" /\ ipc_queue[w].pending # <<>> /\ (p.last \/ ipc_run[w].count = 0)
      /\ ipc_buffer' = Append(ipc_buffer, p) /\ ipc_free' = ipc_free - 1 - p.size
      /\ UNCHANGED <<ipc_mutex, ipc_data, ipc_space, readerVars, ipc_sent>>
  BY DEF WriteOnePacket, Fits
<1>3. p \in Packet /\ (~p.last => p.size > 0)
  BY <1>2, NextPacketIs
<1>4. SharedType'
  <2>1. p.size \in Nat
    BY <1>3 DEF Packet
  <2>2. ipc_free' \in Int
    BY <1>2, <2>1 DEF SharedType
  <2>3. ipc_buffer' \in Seq(Packet)
    BY <1>2, <1>3 DEF SharedType
  <2> QED
    BY <1>2, <2>2, <2>3 DEF SharedType, readerVars
<1>5. ipc_queue[w].has /\ ipc_queue[w].waits = "nothing" /\ ipc_queue[w].state = "open" /\ ipc_mutex = w
  BY <1>1, <1>2 DEF TurnOf, Turn
<1>6. CASE p.last
  <2>1. /\ ipc_queue' = [ipc_queue EXCEPT ![w].pending = Tail(@), ![w].written = 0, ![w].sequence = 0]
        /\ ipc_run' = [ipc_run EXCEPT ![w].at = "signal", ![w].count = @ + 1]
    BY <1>6 DEF WriteOnePacket
  <2>2. Tail(ipc_queue[w].pending) \in Seq(Message)
    BY <1>1, <1>2 DEF Queue
  <2>3. /\ ipc_queue' \in [Writer -> Queue] /\ \A v \in Writer \ {w} : ipc_queue'[v] = ipc_queue[v]
        /\ ipc_queue'[w].pending = Tail(ipc_queue[w].pending) /\ ipc_queue'[w].written = 0
        /\ ipc_queue'[w].has /\ ipc_queue'[w].waits = "nothing" /\ ipc_queue'[w].state = "open"
    BY <1>1, <1>5, <2>1, <2>2 DEF WriterType, Queue
  <2>4. /\ ipc_run' \in [Writer -> Running] /\ \A v \in Writer \ {w} : ipc_run'[v] = ipc_run[v]
        /\ ipc_run'[w].at = "signal" /\ ipc_run'[w].count # 0
    <3>1. ipc_run[w].count \in Nat /\ ipc_run[w].count + 1 \in Nat /\ ipc_run[w].count + 1 # 0
      BY <1>1 DEF Running
    <3>2. [ipc_run[w] EXCEPT !.at = "signal", !.count = @ + 1] \in Running
      BY <1>1, <3>1 DEF Running, Turn
    <3>3. ipc_run' = [ipc_run EXCEPT ![w] = [ipc_run[w] EXCEPT !.at = "signal", !.count = @ + 1]]
      BY <1>1, <2>1 DEF WriterType, Running
    <3> QED
      BY <1>1, <3>1, <3>2, <3>3 DEF WriterType, Running
  <2>5. WriterType' /\ Alone(w)
    BY <1>2, <2>3, <2>4 DEF WriterType, Alone
  <2>6. TurnOf(w)'
    BY <1>2, <1>5, <2>3, <2>4 DEF TurnOf, Turn
  <2> QED
    BY <1>4, <1>6, <2>3, <2>4, <2>5, <2>6
<1>7. CASE ~p.last
  <2>1. /\ ipc_queue' = [ipc_queue EXCEPT ![w].written = @ + p.size, ![w].sequence = p.sequence]
        /\ ipc_run' = [ipc_run EXCEPT ![w].at = "signal_stop"]
    BY <1>7 DEF WriteOnePacket
  <2>2. p.size \in Nat /\ p.sequence \in Nat /\ p.size > 0
    BY <1>3, <1>7 DEF Packet
  <2> HIDE DEF p
  <2>3. /\ ipc_queue' \in [Writer -> Queue] /\ \A v \in Writer \ {w} : ipc_queue'[v] = ipc_queue[v]
        /\ ipc_queue'[w].pending = ipc_queue[w].pending
        /\ ipc_queue'[w].written = ipc_queue[w].written + p.size /\ ipc_queue'[w].sequence = p.sequence
        /\ ipc_queue'[w].has /\ ipc_queue'[w].waits = "nothing" /\ ipc_queue'[w].state = "open"
    <3> DEFINE x == [ipc_queue[w] EXCEPT !.written = @ + p.size, !.sequence = p.sequence]
    <3>1. ipc_queue[w].written + p.size \in Nat
      BY <1>1, <2>2 DEF Queue
    <3>2. x \in Queue
      BY <1>1, <2>2, <3>1 DEF Queue
    <3>3. /\ x.pending = ipc_queue[w].pending /\ x.written = ipc_queue[w].written + p.size
          /\ x.sequence = p.sequence /\ x.has = ipc_queue[w].has /\ x.waits = ipc_queue[w].waits
          /\ x.state = ipc_queue[w].state
      BY <1>1, <2>2 DEF Queue
    <3>4. ipc_queue' = [ipc_queue EXCEPT ![w] = x]
      BY <1>1, <2>1 DEF WriterType, Queue
    <3> HIDE DEF x
    <3> QED
      BY <1>5, <3>2, <3>3, <3>4 DEF WriterType
  <2>4. /\ ipc_run' \in [Writer -> Running] /\ \A v \in Writer \ {w} : ipc_run'[v] = ipc_run[v]
        /\ ipc_run'[w].at = "signal_stop" /\ ipc_run'[w].count = 0
    BY <1>1, <1>2, <1>7, <2>1 DEF WriterType, Running, Turn
  <2>5. WriterType' /\ Alone(w)
    BY <1>2, <2>3, <2>4 DEF WriterType, Alone
  <2>6. TurnOf(w)'
    BY <1>2, <1>5, <2>3, <2>4 DEF TurnOf, Turn
  <2> QED
    BY <1>4, <1>7, <2>3, <2>4, <2>5, <2>6 DEF p
<1> QED
  BY <1>6, <1>7

LEMMA EndTurn ==
  ASSUME WriterType, SharedType, Turns, NEW w \in Writer, WriteNothing(w) \/ EndWriteTransaction(w)
  PROVE  WriterType' /\ SharedType' /\ TurnOf(w)' /\ Alone(w)
<1>1. ipc_queue[w] \in Queue /\ ipc_run[w] \in Running /\ TurnOf(w)
  BY DEF WriterType, Turns
<1>2. /\ ipc_run[w].at \in Turn /\ ipc_data' \in BOOLEAN
      /\ UNCHANGED <<ipc_buffer, ipc_free, ipc_mutex, ipc_space, readerVars, ipc_sent, ipc_queue>>
  BY DEF WriteNothing, EndWriteTransaction, Turn, sharedVars, SharedType
<1>3. PICK place \in {"write", "signal_stop", "stop"} : ipc_run' = [ipc_run EXCEPT ![w].at = place]
  BY DEF WriteNothing, EndWriteTransaction
<1>4. /\ ipc_run' \in [Writer -> Running] /\ \A v \in Writer \ {w} : ipc_run'[v] = ipc_run[v]
      /\ ipc_run'[w].at \in {"write", "signal_stop", "stop"} /\ ipc_run'[w].count = ipc_run[w].count
  BY <1>1, <1>3 DEF WriterType, Running, Turn
<1>5. WriterType' /\ SharedType' /\ Alone(w)
  BY <1>2, <1>4 DEF WriterType, SharedType, Alone, readerVars
<1>6. TurnOf(w)'
  BY <1>1, <1>2, <1>4 DEF TurnOf, Turn
<1> QED
  BY <1>5, <1>6

LEMMA ReleaseTurn ==
  ASSUME WriterType, SharedType, Turns, NEW w \in Writer, WaitOrRelease(w)
  PROVE  /\ WriterType' /\ SharedType' /\ TurnOf(w)' /\ Alone(w)
         /\ ipc_queue'[w].pending = ipc_queue[w].pending
         /\ ipc_queue'[w].written = ipc_queue[w].written /\ ipc_queue'[w].sequence = ipc_queue[w].sequence
<1> DEFINE keep == ipc_run[w].count = 0 /\ ipc_queue[w].pending # <<>>
<1> DEFINE next == IF keep THEN "space" ELSE IF ipc_queue[w].pending # <<>> THEN "mutex" ELSE "nothing"
<1>1. ipc_queue[w] \in Queue /\ ipc_run[w] \in Running /\ TurnOf(w)
  BY DEF WriterType, Turns
<1>2. /\ ipc_run[w].at = "stop"
      /\ ipc_mutex' = IF keep THEN w ELSE NoWriter
      /\ ipc_queue' = [ipc_queue EXCEPT ![w].has = keep, ![w].waits = next]
      /\ ipc_run' = [ipc_run EXCEPT ![w].at = "build"]
      /\ UNCHANGED <<ipc_buffer, ipc_free, ipc_data, ipc_space, readerVars, ipc_sent>>
  BY DEF WaitOrRelease
<1>3. keep \in BOOLEAN /\ next \in {"nothing", "mutex", "space"}
  OBVIOUS
<1>4. /\ next = "space" => keep
      /\ next = "mutex" => ~keep /\ ipc_queue[w].pending # <<>>
      /\ keep => next = "space"
      /\ ipc_queue[w].pending # <<>> => next = IF keep THEN "space" ELSE "mutex"
      /\ ipc_queue[w].written > 0 => keep
  BY <1>1, <1>2 DEF TurnOf, Turn
<1>5. ipc_mutex = w /\ ipc_queue[w].state = "open"
  BY <1>1, <1>2 DEF TurnOf, Turn
<1>6. keep => ipc_queue[w].pending # <<>>
  OBVIOUS
<1> HIDE DEF keep, next
<1>7. /\ ipc_queue' \in [Writer -> Queue] /\ \A v \in Writer \ {w} : ipc_queue'[v] = ipc_queue[v]
      /\ ipc_queue'[w].pending = ipc_queue[w].pending
      /\ ipc_queue'[w].written = ipc_queue[w].written /\ ipc_queue'[w].sequence = ipc_queue[w].sequence
      /\ ipc_queue'[w].has = keep /\ ipc_queue'[w].waits = next /\ ipc_queue'[w].state = "open"
  BY <1>1, <1>2, <1>3, <1>5 DEF WriterType, Queue
<1>8. /\ ipc_run' \in [Writer -> Running] /\ \A v \in Writer \ {w} : ipc_run'[v] = ipc_run[v]
      /\ ipc_run'[w].at = "build"
  BY <1>1, <1>2 DEF WriterType, Running
<1>9. /\ ipc_mutex' \in Writer \cup {NoWriter} /\ (keep <=> ipc_mutex' = w)
      /\ \A v \in Writer \ {w} : ipc_mutex' = v <=> ipc_mutex = v
  BY <1>2, <1>5, WriterAssumption
<1>10. WriterType' /\ SharedType' /\ Alone(w)
  BY <1>2, <1>7, <1>8, <1>9 DEF WriterType, SharedType, Alone, readerVars
<1>11. TurnOf(w)'
  BY <1>1, <1>4, <1>6, <1>7, <1>8, <1>9 DEF TurnOf, Turn
<1> QED
  BY <1>7, <1>10, <1>11

LEMMA ReaderTurn ==
  ASSUME WriterType, SharedType, Turns, ReaderStep \/ KillReader
  PROVE  WriterType' /\ SharedType' /\ Turns' /\ UNCHANGED <<ipc_queue, ipc_run, ipc_mutex, ipc_sent>>
<1>1. UNCHANGED <<ipc_queue, ipc_run, ipc_mutex, ipc_sent>>
  BY DEF ReaderStep, KillReader, DataAvailable, ReadOnePacket, ReadNothing, EndReadTransaction,
         sharedVars, runVars
<1>2. WriterType' /\ Turns'
  BY <1>1 DEF WriterType, Turns, TurnOf
<1>3. CASE DataAvailable \/ ReadNothing \/ EndReadTransaction \/ KillReader
  <2>1. /\ UNCHANGED <<ipc_buffer, ipc_free, ipc_delivered, ipc_sent>>
        /\ ipc_data' \in BOOLEAN /\ ipc_space' \in BOOLEAN /\ ipc_alive' \in BOOLEAN
    BY <1>3 DEF SharedType, DataAvailable, ReadNothing, EndReadTransaction, KillReader, sharedVars
  <2>2. PICK place \in {"wait", "read", "set", "set_last"} : ipc_reader' = [ipc_reader EXCEPT !.at = place]
    <3>1. CASE KillReader
      BY <3>1 DEF KillReader, SharedType
    <3>2. CASE ~KillReader
      BY <1>3, <3>2 DEF DataAvailable, ReadNothing, EndReadTransaction
    <3> QED
      BY <3>1, <3>2
  <2> QED
    BY <1>1, <1>2, <2>1, <2>2 DEF SharedType
<1>4. CASE ReadOnePacket
  <2> DEFINE p == Head(ipc_buffer)
  <2> DEFINE data == IF p.sequence = 0 THEN <<p>> ELSE Append(ipc_reader.data, p)
  <2>1. /\ ipc_buffer # <<>>
        /\ ipc_reader' = [at |-> "set", data |-> IF p.last THEN <<>> ELSE data, last |-> p]
        /\ ipc_delivered' = IF p.last
                            THEN [ipc_delivered EXCEPT ![p.msg.from] = Append(@, data)]
                            ELSE ipc_delivered
        /\ ipc_buffer' = Tail(ipc_buffer) /\ ipc_free' = ipc_free + 1 + p.size
        /\ UNCHANGED <<ipc_data, ipc_space, ipc_alive, ipc_sent>>
    BY <1>4 DEF ReadOnePacket
  <2>2. p \in Packet
    BY <2>1 DEF SharedType
  <2>3. p.msg.from \in Writer /\ p.size \in Nat
    BY <2>2 DEF Packet, Message
  <2>4. data \in Seq(Packet)
    BY <2>2 DEF SharedType
  <2>5. ipc_buffer' \in Seq(Packet)
    BY <2>1 DEF SharedType
  <2> HIDE DEF p, data
  <2>6. ipc_free' \in Int
    BY <2>1, <2>3 DEF SharedType
  <2>7. ipc_reader' \in [at : {"wait", "read", "set", "set_last"}, data : Seq(Packet),
                        last : Packet \cup {NoPacket}]
    BY <2>1, <2>2, <2>4, EmptySeq
  <2>8. ipc_delivered' \in [Writer -> Seq(Seq(Packet))]
    <3>1. Append(ipc_delivered[p.msg.from], data) \in Seq(Seq(Packet))
      <4>1. ipc_delivered[p.msg.from] \in Seq(Seq(Packet))
        BY <2>3 DEF SharedType
      <4> QED
        BY <2>4, <4>1, AppendProperties
    <3> QED
      BY <2>1, <2>3, <3>1 DEF SharedType
  <2> QED
    BY <1>1, <1>2, <2>1, <2>5, <2>6, <2>7, <2>8 DEF SharedType
<1> QED
  BY <1>1, <1>2, <1>3, <1>4 DEF ReaderStep

-----------------------------------------------------------------------------
(* The space packets take. *)
LEMMA TotalsAppend ==
  ASSUME NEW b \in Seq(Packet), NEW p \in Packet, NEW s, Totals(s, b)
  PROVE  \E t : Totals(t, Append(b, p)) /\ t[Len(Append(b, p))] = s[Len(b)] + 1 + p.size
<1> DEFINE n == Len(b)
<1> DEFINE c == Append(b, p)
<1> DEFINE t == [i \in 0 .. n + 1 |-> IF i <= n THEN s[i] ELSE s[n] + 1 + p.size]
<1>1. n \in Nat /\ Len(c) = n + 1 /\ c[n + 1] = p /\ \A i \in 1 .. n : c[i] = b[i]
  BY AppendProperties
<1>2. p.size \in Nat
  BY DEF Packet
<1>3. /\ s \in [0 .. n -> Nat] /\ s[0] = 0
      /\ \A i \in 1 .. n : s[i] = s[i - 1] + 1 + b[i].size
      /\ \A i, j \in 0 .. n : i <= j => s[i] <= s[j]
  BY DEF Totals
<1> HIDE DEF n, c
<1>4. t \in [0 .. n + 1 -> Nat] /\ t[0] = 0 /\ t[n + 1] = s[n] + 1 + p.size /\ \A i \in 0 .. n : t[i] = s[i]
  BY <1>1, <1>2, <1>3
<1> HIDE DEF t
<1>5. \A i \in 1 .. n + 1 : t[i] = t[i - 1] + 1 + c[i].size
  <2> TAKE i \in 1 .. n + 1
  <2>1. CASE i <= n
    <3>1. i \in 1 .. n /\ i \in 0 .. n /\ i - 1 \in 0 .. n
      BY <2>1, <1>1
    <3> QED
      BY <3>1, <1>1, <1>3, <1>4
  <2>2. CASE i = n + 1
    <3>1. i - 1 = n /\ n \in 0 .. n
      BY <2>2, <1>1
    <3> QED
      BY <3>1, <2>2, <1>1, <1>3, <1>4
  <2> QED
    BY <2>1, <2>2, <1>1
<1>6. \A i, j \in 0 .. n + 1 : i <= j => t[i] <= t[j]
  <2> TAKE i, j \in 0 .. n + 1
  <2> HAVE i <= j
  <2>1. CASE j <= n
    BY <2>1, <1>1, <1>3, <1>4
  <2>2. CASE j = n + 1 /\ i <= n
    <3>1. t[i] = s[i] /\ s[i] <= s[n] /\ t[j] = s[n] + 1 + p.size /\ s[n] \in Nat /\ s[i] \in Nat
      <4>1. i \in 0 .. n /\ n \in 0 .. n
        BY <2>2, <1>1
      <4>2. t[i] = s[i] /\ s[i] \in Nat /\ s[n] \in Nat
        BY <4>1, <1>3, <1>4
      <4>3. s[i] <= s[n]
        BY <4>1, <1>3
      <4> QED
        BY <2>2, <4>2, <4>3, <1>4
    <3> QED
      BY <3>1, <1>2
  <2>3. CASE i = n + 1 /\ j = n + 1
    BY <2>3, <1>1, <1>4
  <2> QED
    BY <2>1, <2>2, <2>3, <1>1
<1>7. Totals(t, c)
  BY <1>1, <1>4, <1>5, <1>6 DEF Totals
<1> QED
  BY <1>1, <1>4, <1>7 DEF c, n

LEMMA TotalsTail ==
  ASSUME NEW b \in Seq(Packet), b # <<>>, NEW s, Totals(s, b)
  PROVE  /\ \E t : Totals(t, Tail(b)) /\ t[Len(Tail(b))] = s[Len(b)] - (1 + Head(b).size)
         /\ s[Len(b)] >= 1 + Head(b).size
<1> DEFINE n == Len(b)
<1> DEFINE c == Tail(b)
<1> DEFINE t == [i \in 0 .. n - 1 |-> s[i + 1] - s[1]]
<1>1. n \in Nat /\ n > 0 /\ Len(c) = n - 1 /\ \A i \in 1 .. n - 1 : c[i] = b[i + 1]
  BY HeadTailProperties
<1>2. /\ s \in [0 .. n -> Nat] /\ s[0] = 0
      /\ \A i \in 1 .. n : s[i] = s[i - 1] + 1 + b[i].size
      /\ \A i, j \in 0 .. n : i <= j => s[i] <= s[j]
  BY DEF Totals
<1>3. Head(b) = b[1] /\ b[1] \in Packet
  BY HeadTailProperties
<1>4. \A i \in 1 .. n : b[i].size \in Nat
  <2> TAKE i \in 1 .. n
  <2>1. b[i] \in Packet
    OBVIOUS
  <2> QED
    BY <2>1 DEF Packet
<1> HIDE DEF n, c
<1>5. s[1] = 1 + Head(b).size /\ s[1] \in Nat
  BY <1>1, <1>2, <1>3, <1>4
<1>6. \A i \in 0 .. n - 1 : i + 1 \in 0 .. n /\ s[i + 1] \in Nat /\ s[1] <= s[i + 1]
  BY <1>1, <1>2
<1>7. t \in [0 .. n - 1 -> Nat] /\ \A i \in 0 .. n - 1 : t[i] = s[i + 1] - s[1]
  BY <1>5, <1>6
<1> HIDE DEF t
<1>8. t[0] = 0
  BY <1>1, <1>5, <1>7
<1>9. \A i \in 1 .. n - 1 : t[i] = t[i - 1] + 1 + c[i].size
  <2> TAKE i \in 1 .. n - 1
  <2>1. i \in 0 .. n - 1 /\ i - 1 \in 0 .. n - 1 /\ i + 1 \in 1 .. n /\ (i - 1) + 1 = i /\ (i + 1) - 1 = i /\ i \in 0 .. n
    BY <1>1
  <2>2. t[i] = s[i + 1] - s[1] /\ t[i - 1] = s[i] - s[1] /\ s[i + 1] = s[i] + 1 + b[i + 1].size
    BY <1>2, <1>7, <2>1
  <2>3. s[i] \in Nat /\ b[i + 1].size \in Nat /\ c[i] = b[i + 1]
    BY <1>1, <1>2, <1>4, <2>1
  <2> QED
    BY <1>5, <2>2, <2>3
<1>10. \A i, j \in 0 .. n - 1 : i <= j => t[i] <= t[j]
  <2> TAKE i, j \in 0 .. n - 1
  <2> HAVE i <= j
  <2>1. s[i + 1] <= s[j + 1] /\ s[i + 1] \in Nat /\ s[j + 1] \in Nat
    BY <1>1, <1>2, <1>6
  <2> QED
    BY <1>5, <1>7, <2>1
<1>11. Totals(t, c)
  BY <1>1, <1>7, <1>8, <1>9, <1>10 DEF Totals
<1>12. t[Len(c)] = s[n] - s[1]
  BY <1>1, <1>7
<1>13. s[n] >= s[1]
  BY <1>1, <1>2
<1> QED
  BY <1>5, <1>11, <1>12, <1>13 DEF c, n

(* The recursive definition computes what Totals describes.  Were there a  *)
(* place where they differ, there would be a first one.                    *)
LEMMA UsedIs ==
  ASSUME NEW b \in Seq(Packet), NEW s, Totals(s, b)
  PROVE  Used(b) = s[Len(b)]
<1> DEFINE n == Len(b)
<1> DEFINE f(t) == [i \in 0 .. n |-> IF i = 0 THEN 0 ELSE t[i - 1] + 1 + b[i].size]
<1> DEFINE u == CHOOSE t : t = f(t)
<1>1. n \in Nat
  OBVIOUS
<1>2. s = f(s)
  BY DEF Totals
<1>3. u = f(u)
  BY <1>2
<1>4. Used(b) = u[n]
  BY DEF Used
<1> HIDE DEF u
<1>5. /\ \A i \in 1 .. n : u[i] = u[i - 1] + 1 + b[i].size
      /\ u[0] = 0
  BY <1>1, <1>3
<1>6. \A i \in 0 .. n : u[i] = s[i]
  <2> DEFINE Wrong == {i \in 0 .. n : u[i] # s[i]}
  <2>1. SUFFICES ASSUME Wrong # {} PROVE FALSE
    OBVIOUS
  <2> DEFINE R == OpToRel(<, Nat)
  <2>2. IsWellFoundedOn(R, Nat)
    BY NatLessThanWellFounded
  <2>3. Wrong \subseteq Nat
    BY <1>1
  <2>4. PICK k \in Wrong : \A j \in Wrong : <<j, k>> \notin R
    BY <2>1, <2>2, <2>3, WFMin
  <2>5. k \in 0 .. n /\ u[k] # s[k]
    OBVIOUS
  <2>6. k # 0
    BY <1>5, <2>5 DEF Totals
  <2>7. k \in 1 .. n /\ k - 1 \in 0 .. n
    BY <1>1, <2>5, <2>6
  <2>8. u[k - 1] = s[k - 1]
    <3>1. <<k - 1, k>> \in R
      BY <2>7 DEF OpToRel
    <3>2. k - 1 \notin Wrong
      BY <2>4, <3>1
    <3> QED
      BY <2>7, <3>2
  <2> QED
    BY <1>5, <2>5, <2>7, <2>8 DEF Totals
<1> QED
  BY <1>1, <1>4, <1>6

-----------------------------------------------------------------------------
(* What the actions do to messages and packets comes down to five moves.   *)
SameMail(v) ==
  /\ ipc_queue'[v].pending = ipc_queue[v].pending
  /\ ipc_queue'[v].written = ipc_queue[v].written
  /\ ipc_queue'[v].sequence = ipc_queue[v].sequence

Others(w) == \A v \in Writer \ {w} : SameMail(v)

Still ==
  /\ UNCHANGED <<ipc_buffer, ipc_free, ipc_delivered>>
  /\ ipc_reader'.data = ipc_reader.data /\ ipc_reader'.last = ipc_reader.last

Idle == Still /\ UNCHANGED ipc_sent /\ \A v \in Writer : SameMail(v)

Sending(w) ==
  /\ Still /\ Others(w)
  /\ \E m \in Message :
       /\ m.n = Len(ipc_sent) + 1 /\ m.from = w /\ ipc_sent' = Append(ipc_sent, m)
       /\ ipc_queue'[w].pending \in {ipc_queue[w].pending, Append(ipc_queue[w].pending, m)}
       /\ ipc_queue'[w].written = ipc_queue[w].written /\ ipc_queue'[w].sequence = ipc_queue[w].sequence

Dropping(w) == Still /\ UNCHANGED ipc_sent /\ Others(w) /\ ipc_queue'[w] = NoQueue

Writing(w) ==
  LET p == NextPacket(w)
  IN  /\ Others(w)
      /\ ipc_queue[w].has /\ ipc_queue[w].pending # <<>> /\ 1 + p.size <= ipc_free
      /\ ipc_buffer' = Append(ipc_buffer, p) /\ ipc_free' = ipc_free - 1 - p.size
      /\ UNCHANGED <<readerVars, ipc_sent>>
      /\ p.last => /\ ipc_queue'[w].pending = Tail(ipc_queue[w].pending)
                   /\ ipc_queue'[w].written = 0
      /\ ~p.last => /\ ipc_queue'[w].pending = ipc_queue[w].pending
                    /\ ipc_queue'[w].written = ipc_queue[w].written + p.size
                    /\ ipc_queue'[w].sequence = p.sequence

Reading == ReadOnePacket

ChannelMove ==
  \/ Idle \/ Reading
  \/ \E w \in Writer : Sending(w) \/ Dropping(w) \/ Writing(w)

(* Where the message in progress stands. *)
LEMMA WrittenBelow ==
  ASSUME WriterType, Pieces, NEW w \in Writer, ipc_queue[w].pending # <<>>
  PROVE  ipc_queue[w].written < Head(ipc_queue[w].pending).size
<1>1. ipc_queue[w] \in Queue
  BY DEF WriterType
<1>2. Head(ipc_queue[w].pending) \in Message /\ ipc_queue[w].written \in Nat
  BY <1>1 DEF Queue
<1>3. Head(ipc_queue[w].pending).size \in Nat \ {0}
  BY <1>2 DEF Message
<1> QED
  BY <1>2, <1>3 DEF Pieces

LEMMA TurnsFrom ==
  ASSUME Turns, NEW w \in Writer, TurnOf(w)', Alone(w)
  PROVE  Turns'
BY DEF Turns, TurnOf, Alone

LEMMA OthersFrom ==
  ASSUME NEW w \in Writer, Alone(w)
  PROVE  Others(w)
BY DEF Alone, Others, SameMail

LEMMA SendMoves ==
  ASSUME WriterType, SharedType, Turns, NEW w \in Writer, SendWithCompletion(w) \/ SendToAll(w)
  PROVE  Sending(w)
<1>1. /\ ipc_run[w].at \in {"build", "wait"} /\ Len(ipc_sent) < Len(Sends)
      /\ ipc_sent' = Append(ipc_sent, NewIpcMessage(w))
      /\ UNCHANGED <<sharedVars, readerVars, ipc_run>>
  BY DEF SendWithCompletion, SendToAll, SendStarts
<1>2. NewIpcMessage(w) \in Message /\ NewIpcMessage(w).n = Len(ipc_sent) + 1 /\ NewIpcMessage(w).from = w
  BY <1>1, NewMessageType DEF SharedType
<1>3. Still /\ Others(w)
  BY <1>1, SendTurn, OthersFrom DEF Still, sharedVars, readerVars
<1>4. CASE UNCHANGED ipc_queue
  BY <1>1, <1>2, <1>3, <1>4 DEF Sending
<1>5. CASE GetOutboundQueue(w).state # "none" /\ AddMessageToQueue(w, NewIpcMessage(w))
  <2>1. /\ ipc_queue'[w].pending = Append(ipc_queue[w].pending, NewIpcMessage(w))
        /\ ipc_queue'[w].written = ipc_queue[w].written /\ ipc_queue'[w].sequence = ipc_queue[w].sequence
    BY <1>1, <1>2, <1>5, SendQueue
  <2> QED
    BY <1>1, <1>2, <1>3, <2>1 DEF Sending
<1> QED
  BY <1>4, <1>5 DEF SendWithCompletion, SendToAll

LEMMA NextIsMove ==
  ASSUME WriterType, SharedType, Turns, Pieces, ChannelNext
  PROVE  WriterType' /\ SharedType' /\ Turns' /\ ChannelMove
<1>1. CASE ReaderStep \/ KillReader
  <2>1. WriterType' /\ SharedType' /\ Turns' /\ UNCHANGED <<ipc_queue, ipc_run, ipc_mutex, ipc_sent>>
    BY <1>1, ReaderTurn
  <2>2. CASE ReadOnePacket
    BY <2>1, <2>2 DEF ChannelMove, Reading
  <2>3. CASE ~ReadOnePacket
    <3>1. UNCHANGED <<ipc_buffer, ipc_free, ipc_delivered>>
      BY <1>1, <2>3 DEF ReaderStep, DataAvailable, ReadNothing, EndReadTransaction, KillReader, sharedVars
    <3>2. ipc_reader'.data = ipc_reader.data /\ ipc_reader'.last = ipc_reader.last
      <4>1. \/ UNCHANGED ipc_reader
            \/ \E place : ipc_reader' = [ipc_reader EXCEPT !.at = place]
        BY <1>1, <2>3 DEF ReaderStep, DataAvailable, ReadNothing, EndReadTransaction, KillReader
      <4> QED
        BY <4>1 DEF SharedType
    <3> QED
      BY <2>1, <3>1, <3>2 DEF ChannelMove, Idle, Still, SameMail
  <2> QED
    BY <2>2, <2>3
<1>2. ASSUME NEW w \in Writer,
             \/ SendWithCompletion(w) \/ SendToAll(w)
             \/ RunStep(w) \/ RemoveOutboundQueue(w) \/ EndWriter(w)
      PROVE  WriterType' /\ SharedType' /\ Turns' /\ ChannelMove
  <2>1. CASE SendWithCompletion(w) \/ SendToAll(w)
    BY <2>1, SendTurn, SendMoves, TurnsFrom DEF ChannelMove
  <2>2. CASE RemoveOutboundQueue(w) \/ EndWriter(w)
    <3>1. WriterType' /\ SharedType' /\ TurnOf(w)' /\ Alone(w) /\ ipc_queue'[w] = NoQueue
      BY <2>2, RemoveTurn
    <3>2. Still /\ UNCHANGED ipc_sent
      BY <2>2 DEF RemoveOutboundQueue, EndWriter, BuildStarts, readerVars, Still
    <3> QED
      BY <3>1, <3>2, TurnsFrom, OthersFrom DEF ChannelMove, Dropping
  <2>3. CASE Build(w)
    <3>1. WriterType' /\ SharedType' /\ TurnOf(w)' /\ Alone(w)
      BY <2>3, BuildTurn
    <3>2. Still /\ UNCHANGED <<ipc_sent, ipc_queue>>
      BY <2>3 DEF Build, BuildStarts, readerVars, Still
    <3> QED
      BY <3>1, <3>2, TurnsFrom DEF ChannelMove, Idle, SameMail
  <2>4. CASE WaitReturns(w) \/ WaitComplete(w)
    <3>1. WriterType' /\ SharedType' /\ TurnOf(w)' /\ Alone(w) /\ SameMail(w)
      BY <2>4, WaitTurn DEF SameMail
    <3>2. Still /\ UNCHANGED ipc_sent
      BY <2>4 DEF WaitReturns, WaitComplete, readerVars, sharedVars, Still
    <3> QED
      BY <3>1, <3>2, TurnsFrom, OthersFrom DEF ChannelMove, Idle, Others
  <2>5. CASE WriteOnePacket(w)
    <3>1. /\ ipc_run[w].at = "write" /\ ipc_queue[w].pending # <<>> /\ 1 + NextPacket(w).size <= ipc_free
          /\ ipc_buffer' = Append(ipc_buffer, NextPacket(w)) /\ ipc_free' = ipc_free - 1 - NextPacket(w).size
          /\ UNCHANGED <<readerVars, ipc_sent>>
      BY <2>5 DEF WriteOnePacket, Fits
    <3>2. ipc_queue[w].written < Head(ipc_queue[w].pending).size
      BY <3>1, WrittenBelow
    <3>3. ipc_queue[w].has
      BY <3>1 DEF Turns, TurnOf, Turn
    <3>4. /\ WriterType' /\ SharedType' /\ TurnOf(w)' /\ Alone(w)
          /\ NextPacket(w).last =>
              /\ ipc_queue'[w].pending = Tail(ipc_queue[w].pending)
              /\ ipc_queue'[w].written = 0
          /\ ~NextPacket(w).last =>
              /\ ipc_queue'[w].pending = ipc_queue[w].pending
              /\ ipc_queue'[w].written = ipc_queue[w].written + NextPacket(w).size
              /\ ipc_queue'[w].sequence = NextPacket(w).sequence
      BY <2>5, <3>2, WriteTurn
    <3>5. Others(w) /\ Turns'
      BY <3>4, OthersFrom, TurnsFrom
    <3>6. Writing(w)
      BY <3>1, <3>3, <3>4, <3>5 DEF Writing
    <3> QED
      BY <3>4, <3>5, <3>6 DEF ChannelMove
  <2>6. CASE WriteNothing(w) \/ EndWriteTransaction(w)
    <3>1. WriterType' /\ SharedType' /\ TurnOf(w)' /\ Alone(w)
      BY <2>6, EndTurn
    <3>2. Still /\ UNCHANGED <<ipc_sent, ipc_queue>>
      BY <2>6 DEF WriteNothing, EndWriteTransaction, readerVars, sharedVars, Still
    <3> QED
      BY <3>1, <3>2, TurnsFrom DEF ChannelMove, Idle, SameMail
  <2>7. CASE WaitOrRelease(w)
    <3>1. WriterType' /\ SharedType' /\ TurnOf(w)' /\ Alone(w) /\ SameMail(w)
      BY <2>7, ReleaseTurn DEF SameMail
    <3>2. Still /\ UNCHANGED ipc_sent
      BY <2>7 DEF WaitOrRelease, readerVars, Still
    <3> QED
      BY <3>1, <3>2, TurnsFrom, OthersFrom DEF ChannelMove, Idle, Others
  <2> QED
    BY <1>2, <2>1, <2>2, <2>3, <2>4, <2>5, <2>6, <2>7 DEF RunStep
<1> QED
  BY <1>1, <1>2 DEF ChannelNext

-----------------------------------------------------------------------------
(* The invariant, move by move. *)
LEMMA SpaceStep ==
  ASSUME WriterType, SharedType, Pieces, Space, ChannelMove
  PROVE  Space'
<1> USE ChannelAssumption
<1>1. CASE UNCHANGED <<ipc_buffer, ipc_free>>
  BY <1>1 DEF Space
<1>2. PICK s : Totals(s, ipc_buffer) /\ ipc_free = Capacity - s[Len(ipc_buffer)]
  BY DEF Space
<1>3. ipc_buffer \in Seq(Packet)
  BY DEF SharedType
<1>4. s[Len(ipc_buffer)] \in Nat /\ ipc_free \in 0 .. Capacity
  BY <1>2, <1>3 DEF Totals, Space
<1>5. CASE \E w \in Writer : Writing(w)
  <2>1. PICK w \in Writer : Writing(w)
    BY <1>5
  <2> DEFINE p == NextPacket(w)
  <2>2. ipc_buffer' = Append(ipc_buffer, p) /\ ipc_free' = ipc_free - 1 - p.size /\ 1 + p.size <= ipc_free
    BY <2>1 DEF Writing
  <2>3. p \in Packet
    BY <2>1, WrittenBelow, NextPacketIs DEF Writing
  <2>4. p.size \in Nat
    BY <2>3 DEF Packet
  <2> HIDE DEF p
  <2>5. PICK t : Totals(t, Append(ipc_buffer, p)) /\ t[Len(Append(ipc_buffer, p))] = s[Len(ipc_buffer)] + 1 + p.size
    BY <1>2, <1>3, <2>3, TotalsAppend
  <2> DEFINE x == s[Len(ipc_buffer)]
  <2> DEFINE y == t[Len(Append(ipc_buffer, p))]
  <2>6. x \in Nat /\ ipc_free = Capacity - x /\ y = x + 1 + p.size
    BY <1>2, <1>4, <2>5
  <2> HIDE DEF x, y
  <2>7. ipc_free' = Capacity - y
    <3>1. ipc_free' = (Capacity - x) - 1 - p.size
      BY <2>2, <2>6
    <3> QED
      BY <2>4, <2>6, <3>1
  <2>8. ipc_free' \in 0 .. Capacity
    BY <1>4, <2>2, <2>4
  <2> QED
    BY <2>2, <2>5, <2>7, <2>8 DEF Space, y
<1>6. CASE Reading
  <2> DEFINE p == Head(ipc_buffer)
  <2>1. ipc_buffer # <<>> /\ ipc_buffer' = Tail(ipc_buffer) /\ ipc_free' = ipc_free + 1 + p.size
    BY <1>6 DEF Reading, ReadOnePacket
  <2>2. p \in Packet
    BY <1>3, <2>1
  <2>3. p.size \in Nat
    BY <2>2 DEF Packet
  <2>4. /\ \E t : Totals(t, Tail(ipc_buffer)) /\ t[Len(Tail(ipc_buffer))] = s[Len(ipc_buffer)] - (1 + p.size)
        /\ s[Len(ipc_buffer)] >= 1 + p.size
    BY <1>2, <1>3, <2>1, TotalsTail
  <2>5. PICK t : Totals(t, Tail(ipc_buffer)) /\ t[Len(Tail(ipc_buffer))] = s[Len(ipc_buffer)] - (1 + p.size)
    BY <2>4
  <2> DEFINE x == s[Len(ipc_buffer)]
  <2> DEFINE y == t[Len(Tail(ipc_buffer))]
  <2>6. x \in Nat /\ ipc_free = Capacity - x /\ y = x - (1 + p.size) /\ x >= 1 + p.size
    BY <1>2, <1>4, <2>4, <2>5
  <2> HIDE DEF p, x, y
  <2>7. ipc_free' = Capacity - y
    BY <2>1, <2>3, <2>6
  <2>8. ipc_free' \in 0 .. Capacity
    BY <1>4, <2>1, <2>3, <2>6
  <2> QED
    BY <2>1, <2>5, <2>7, <2>8 DEF Space, y
<1> QED
  BY <1>1, <1>5, <1>6 DEF ChannelMove, Idle, Sending, Dropping, Still

(* The packet that is written continues the newest one. *)
LEMMA PiecesWhenWriting ==
  ASSUME WriterType, SharedType, WriterType', Turns, Pieces, NEW w \in Writer, Writing(w)
  PROVE  Pieces'
<1> DEFINE p == NextPacket(w)
<1> DEFINE n == Len(ipc_buffer)
<1>1. /\ ipc_queue[w].has /\ ipc_queue[w].pending # <<>> /\ ipc_buffer' = Append(ipc_buffer, p)
      /\ UNCHANGED ipc_reader
  BY DEF Writing, readerVars
<1>2. /\ p \in Packet /\ Piece(p) /\ p.msg = Head(ipc_queue[w].pending) /\ p.from = ipc_queue[w].written
      /\ p.sequence = IF ipc_queue[w].written > 0 THEN ipc_queue[w].sequence + 1 ELSE 0
      /\ p.msg \in Message
  BY <1>1, WrittenBelow, NextPacketIs
<1>3. n \in Nat /\ Len(ipc_buffer') = n + 1 /\ ipc_buffer'[n + 1] = p /\ \A i \in 1 .. n : ipc_buffer'[i] = ipc_buffer[i]
  BY <1>1, <1>2, AppendProperties DEF SharedType
<1>4. Continues(Newest, p)
  <2>1. p.sequence # 0 => ipc_queue[w].written > 0 /\ p.sequence = ipc_queue[w].sequence + 1
    BY <1>2
  <2> QED
    BY <1>2, <2>1 DEF Pieces, Continues
<1>5. Newest' = p
  <2>1. ipc_buffer' # <<>>
    BY <1>3
  <2> QED
    BY <1>3, <2>1 DEF Newest
<1>6. /\ ~p.last => /\ ipc_queue'[w].pending = ipc_queue[w].pending
                    /\ ipc_queue'[w].written = ipc_queue[w].written + p.size
                    /\ ipc_queue'[w].sequence = p.sequence
      /\ p.last => ipc_queue'[w].written = 0
  BY DEF Writing
<1> HIDE DEF p, n
<1>7. \A i \in 1 .. Len(ipc_buffer') : Piece(ipc_buffer'[i])
  <2> TAKE i \in 1 .. Len(ipc_buffer')
  <2>1. i \in 1 .. n \/ i = n + 1
    BY <1>3
  <2> QED
    BY <2>1, <1>2, <1>3 DEF Pieces, n
<1>8. n = 0 => Newest = ipc_reader.last
  BY DEF Newest, n, SharedType
<1>9. n # 0 => ipc_buffer # <<>> /\ Newest = ipc_buffer[n]
  BY DEF Newest, n, SharedType
<1>10. Continues(ipc_reader'.last, ipc_buffer'[1])
  <2>1. CASE n = 0
    <3>1. ipc_buffer'[1] = p
      BY <2>1, <1>3
    <3> QED
      BY <3>1, <2>1, <1>1, <1>4, <1>8
  <2>2. CASE n # 0
    <3>1. 1 \in 1 .. n
      BY <2>2, <1>3
    <3> QED
      BY <3>1, <2>2, <1>1, <1>3, <1>9 DEF Pieces
  <2> QED
    BY <2>1, <2>2
<1>11. \A i \in 1 .. Len(ipc_buffer') - 1 : Continues(ipc_buffer'[i], ipc_buffer'[i + 1])
  <2> TAKE i \in 1 .. Len(ipc_buffer') - 1
  <2>1. CASE i = n
    BY <2>1, <1>3, <1>4, <1>9
  <2>2. CASE i # n
    <3>1. i \in 1 .. n - 1 /\ i \in 1 .. n /\ i + 1 \in 1 .. n
      BY <2>2, <1>3
    <3>2. Continues(ipc_buffer[i], ipc_buffer[i + 1])
      BY <3>1 DEF Pieces, n
    <3> QED
      BY <3>1, <3>2, <1>3
  <2> QED
    BY <2>1, <2>2
<1>12. ASSUME NEW v \in Writer, ipc_queue'[v].written > 0
       PROVE  /\ ~p.last /\ p.msg = Head(ipc_queue'[v].pending)
              /\ p.sequence = ipc_queue'[v].sequence
              /\ p.from + p.size = ipc_queue'[v].written
              /\ ipc_queue'[v].written < Head(ipc_queue'[v].pending).size
  <2>1. v = w
    <3>1. SUFFICES ASSUME v # w PROVE FALSE
      OBVIOUS
    <3>2. ipc_queue[v].written > 0
      BY <1>12, <3>1 DEF Writing, Others, SameMail
    <3>3. ipc_mutex = v /\ ipc_mutex = w
      BY <1>1, <3>2 DEF Turns, TurnOf
    <3> QED
      BY <3>1, <3>3
  <2>2. ~p.last
    BY <1>6, <1>12, <2>1
  <2>3. /\ p.from \in Nat /\ p.size \in Nat /\ p.msg.size \in Nat
        /\ p.from + p.size <= p.msg.size /\ p.from + p.size # p.msg.size
    BY <1>2, <2>2 DEF Packet, Message, Piece
  <2> QED
    BY <1>2, <1>6, <2>1, <2>2, <2>3
<1> QED
  BY <1>5, <1>7, <1>10, <1>11, <1>12 DEF Pieces

LEMMA PiecesWhenReading ==
  ASSUME WriterType, SharedType, Pieces, Reading, UNCHANGED ipc_queue
  PROVE  Pieces'
<1> DEFINE n == Len(ipc_buffer)
<1>1. ipc_buffer # <<>> /\ ipc_buffer' = Tail(ipc_buffer) /\ ipc_reader'.last = Head(ipc_buffer)
  BY DEF Reading, ReadOnePacket
<1>2. /\ n \in Nat /\ n > 0 /\ Len(ipc_buffer') = n - 1 /\ \A i \in 1 .. n - 1 : ipc_buffer'[i] = ipc_buffer[i + 1]
      /\ Head(ipc_buffer) = ipc_buffer[1] /\ ipc_buffer' \in Seq(Packet)
  BY <1>1, HeadTailProperties DEF SharedType
<1>3. Newest' = Newest
  <2>1. Newest = ipc_buffer[n]
    BY <1>1 DEF Newest
  <2>2. CASE n = 1
    <3>1. ipc_buffer' = <<>>
      BY <1>2, <2>2
    <3> QED
      BY <1>1, <1>2, <2>1, <2>2, <3>1 DEF Newest
  <2>3. CASE n # 1
    <3>1. ipc_buffer' # <<>> /\ n - 1 \in 1 .. n - 1 /\ (n - 1) + 1 = n
      BY <1>2, <2>3
    <3> QED
      BY <1>2, <2>1, <3>1 DEF Newest
  <2> QED
    BY <2>2, <2>3
<1> HIDE DEF n
<1>4. \A i \in 1 .. n : Piece(ipc_buffer[i])
  BY DEF Pieces, n
<1>5. \A i \in 1 .. n - 1 : Continues(ipc_buffer[i], ipc_buffer[i + 1])
  BY DEF Pieces, n
<1>6. \A i \in 1 .. Len(ipc_buffer') : Piece(ipc_buffer'[i])
  <2> TAKE i \in 1 .. Len(ipc_buffer')
  <2>1. i + 1 \in 1 .. n /\ i \in 1 .. n - 1
    BY <1>2
  <2> QED
    BY <2>1, <1>2, <1>4
<1>7. ipc_buffer' # <<>> => Continues(ipc_reader'.last, ipc_buffer'[1])
  <2> HAVE ipc_buffer' # <<>>
  <2>1. 1 \in 1 .. n - 1
    BY <1>2
  <2>2. Continues(ipc_buffer[1], ipc_buffer[1 + 1]) /\ ipc_buffer'[1] = ipc_buffer[1 + 1]
    BY <1>2, <1>5, <2>1
  <2> QED
    BY <1>1, <1>2, <2>2
<1>8. \A i \in 1 .. Len(ipc_buffer') - 1 : Continues(ipc_buffer'[i], ipc_buffer'[i + 1])
  <2> TAKE i \in 1 .. Len(ipc_buffer') - 1
  <2>1. i \in 1 .. n - 1 /\ i + 1 \in 1 .. n - 1
    BY <1>2
  <2>2. Continues(ipc_buffer[i + 1], ipc_buffer[(i + 1) + 1])
    BY <1>5, <2>1
  <2> QED
    BY <1>2, <2>1, <2>2
<1> QED
  BY <1>3, <1>6, <1>7, <1>8 DEF Pieces

LEMMA PiecesStep ==
  ASSUME WriterType, SharedType, WriterType', Turns, Pieces, ChannelMove, Reading => UNCHANGED ipc_queue
  PROVE  Pieces'
<1>1. CASE Reading
  BY <1>1, PiecesWhenReading
<1>2. CASE \E w \in Writer : Writing(w)
  BY <1>2, PiecesWhenWriting
<1>3. CASE Idle \/ \E w \in Writer : Sending(w) \/ Dropping(w)
  <2>1. Still
    BY <1>3 DEF Idle, Sending, Dropping
  <2>2. ipc_buffer' = ipc_buffer /\ ipc_reader'.last = ipc_reader.last /\ Newest' = Newest
    BY <2>1 DEF Still, Newest
  <2>3. ASSUME NEW v \in Writer, ipc_queue'[v].written > 0
        PROVE  /\ ipc_queue[v].written > 0 /\ ipc_queue'[v].written = ipc_queue[v].written
               /\ ipc_queue'[v].sequence = ipc_queue[v].sequence
               /\ Head(ipc_queue'[v].pending) = Head(ipc_queue[v].pending)
    <3>1. CASE SameMail(v)
      BY <2>3, <3>1 DEF SameMail
    <3>2. CASE Sending(v)
      <4>1. PICK m \in Message :
              /\ ipc_queue'[v].pending \in {ipc_queue[v].pending, Append(ipc_queue[v].pending, m)}
              /\ ipc_queue'[v].written = ipc_queue[v].written /\ ipc_queue'[v].sequence = ipc_queue[v].sequence
        BY <3>2 DEF Sending
      <4>2. ipc_queue[v].pending # <<>>
        BY <2>3, <4>1 DEF Turns, TurnOf
      <4>3. ipc_queue[v].pending \in Seq(Message)
        BY DEF WriterType, Queue
      <4>4. Head(Append(ipc_queue[v].pending, m)) = Head(ipc_queue[v].pending)
        BY <4>2, <4>3
      <4> QED
        BY <2>3, <4>1, <4>4
    <3>3. CASE Dropping(v)
      BY <2>3, <3>3 DEF Dropping, NoQueue
    <3> QED
      BY <1>3, <3>1, <3>2, <3>3 DEF Idle, Sending, Dropping, Others
  <2> QED
    BY <2>2, <2>3 DEF Pieces
<1> QED
  BY <1>1, <1>2, <1>3 DEF ChannelMove

(* What ReadOnePacket has put together when it has read the next packet. *)
LEMMA GatheredData ==
  ASSUME SharedType, Pieces, Gathered, NEW p, ipc_buffer # <<>>, p = Head(ipc_buffer),
         NEW data, data = IF p.sequence = 0 THEN <<p>> ELSE Append(ipc_reader.data, p)
  PROVE  Chain(data) /\ data[Len(data)] = p /\ data[1].msg = p.msg
<1>1. p \in Packet /\ p = ipc_buffer[1] /\ 1 \in 1 .. Len(ipc_buffer)
  BY HeadTailProperties DEF SharedType
<1>2. Piece(p) /\ Continues(ipc_reader.last, p)
  BY <1>1 DEF Pieces
<1>3. CASE p.sequence = 0
  <2>1. data = <<p>> /\ p.from = 0
    BY <1>2, <1>3 DEF Piece
  <2>2. Len(data) = 1 /\ data[1] = p /\ data # <<>>
    BY <2>1
  <2> QED
    BY <2>1, <2>2 DEF Chain
<1>4. CASE p.sequence # 0
  <2> DEFINE d == ipc_reader.data
  <2> DEFINE n == Len(d)
  <2>1. data = Append(d, p) /\ d \in Seq(Packet)
    BY <1>4 DEF SharedType
  <2>2. ~ipc_reader.last.last /\ ipc_reader.last.msg = p.msg /\ p.from = ipc_reader.last.from + ipc_reader.last.size
    BY <1>2, <1>4 DEF Continues
  <2>3. Chain(d) /\ d[n] = ipc_reader.last
    BY <2>2 DEF Gathered
  <2>4. n \in Nat /\ n > 0
    BY <2>1, <2>3 DEF Chain
  <2>5. Len(data) = n + 1 /\ data[n + 1] = p /\ \A i \in 1 .. n : data[i] = d[i]
    BY <1>1, <2>1, AppendProperties
  <2>6. d[n].msg = d[1].msg /\ data[1] = d[1] /\ data[n] = d[n]
    BY <2>3, <2>4, <2>5 DEF Chain
  <2> HIDE DEF d, n
  <2>7. data # <<>> /\ data[1].from = 0 /\ data[1].msg = p.msg
    <3>1. data # <<>>
      BY <1>1, <2>1
    <3>2. data[1].from = 0
      BY <2>3, <2>6 DEF Chain
    <3>3. data[1].msg = p.msg
      BY <2>2, <2>3, <2>6
    <3> QED
      BY <3>1, <3>2, <3>3
  <2>8. \A i \in 1 .. Len(data) : data[i].msg = data[1].msg
    <3> TAKE i \in 1 .. Len(data)
    <3>1. i \in 1 .. n \/ i = n + 1
      BY <2>4, <2>5
    <3> QED
      BY <3>1, <2>3, <2>5, <2>6, <2>7 DEF Chain, n
  <2>9. \A i \in 1 .. Len(data) - 1 : data[i + 1].from = data[i].from + data[i].size
    <3> TAKE i \in 1 .. Len(data) - 1
    <3>1. CASE i = n
      BY <3>1, <2>2, <2>3, <2>5, <2>6
    <3>2. CASE i # n
      <4>1. i \in 1 .. n - 1 /\ i \in 1 .. n /\ i + 1 \in 1 .. n
        BY <3>2, <2>4, <2>5
      <4> QED
        BY <4>1, <2>3, <2>5 DEF Chain, n
    <3> QED
      BY <3>1, <3>2
  <2> QED
    BY <2>5, <2>7, <2>8, <2>9 DEF Chain
<1> QED
  BY <1>3, <1>4

LEMMA GatheredStep ==
  ASSUME SharedType, Pieces, Gathered, Dispatched, ChannelMove
  PROVE  Gathered' /\ Dispatched'
<1>1. CASE Reading
  <2>1. PICK p : p = Head(ipc_buffer)
    OBVIOUS
  <2>2. PICK data : data = IF p.sequence = 0 THEN <<p>> ELSE Append(ipc_reader.data, p)
    OBVIOUS
  <2>3. /\ ipc_buffer # <<>>
        /\ ipc_reader' = [at |-> "set", data |-> IF p.last THEN <<>> ELSE data, last |-> p]
        /\ ipc_delivered' = IF p.last
                            THEN [ipc_delivered EXCEPT ![p.msg.from] = Append(@, data)]
                            ELSE ipc_delivered
    BY <1>1, <2>1, <2>2 DEF Reading, ReadOnePacket
  <2>4. p \in Packet /\ Piece(p)
    <3>1. p = ipc_buffer[1] /\ 1 \in 1 .. Len(ipc_buffer) /\ p \in Packet
      BY <2>1, <2>3, HeadTailProperties DEF SharedType
    <3> QED
      BY <3>1 DEF Pieces
  <2>5. Chain(data) /\ data[Len(data)] = p /\ data[1].msg = p.msg
    BY <2>1, <2>2, <2>3, GatheredData
  <2>6. Gathered'
    <3>1. ~p.last => ipc_reader'.data = data /\ ipc_reader'.last = p
      BY <2>3
    <3>2. ipc_reader'.last = p
      BY <2>3
    <3> QED
      BY <3>1, <3>2, <2>5 DEF Gathered
  <2>7. Dispatched'
    <3>1. CASE ~p.last
      BY <3>1, <2>3 DEF Dispatched
    <3>2. CASE p.last
      <4> DEFINE x == p.msg.from
      <4>1. x \in Writer /\ p.from + p.size = p.msg.size
        BY <3>2, <2>4 DEF Packet, Message, Piece
      <4>2. ipc_delivered[x] \in Seq(Seq(Packet))
        BY <4>1 DEF SharedType
      <4>3. data \in Seq(Packet)
        BY <2>2, <2>4 DEF SharedType
      <4>4. /\ ipc_delivered'[x] = Append(ipc_delivered[x], data)
            /\ \A v \in Writer \ {x} : ipc_delivered'[v] = ipc_delivered[v]
        BY <2>3, <3>2, <4>1 DEF SharedType
      <4>5. ASSUME NEW v \in Writer, NEW i \in 1 .. Len(ipc_delivered'[v])
            PROVE  \/ i \in 1 .. Len(ipc_delivered[v]) /\ ipc_delivered'[v][i] = ipc_delivered[v][i]
                   \/ v = x /\ ipc_delivered'[v][i] = data
        <5>1. CASE v # x
          BY <5>1, <4>4
        <5>2. CASE v = x
          <6>1. /\ Len(Append(ipc_delivered[x], data)) = Len(ipc_delivered[x]) + 1
                /\ Append(ipc_delivered[x], data)[Len(ipc_delivered[x]) + 1] = data
                /\ \A j \in 1 .. Len(ipc_delivered[x]) : Append(ipc_delivered[x], data)[j] = ipc_delivered[x][j]
                /\ Len(ipc_delivered[x]) \in Nat
            BY <4>2, <4>3, AppendProperties
          <6> QED
            BY <5>2, <4>4, <6>1
        <5> QED
          BY <5>1, <5>2
      <4> HIDE DEF x
      <4>6. data[1].msg.from = x
        BY <2>5 DEF x
      <4> DEFINE Good(v, d) ==
            /\ Chain(d) /\ d[1].msg.from = v
            /\ d[Len(d)].from + d[Len(d)].size = d[1].msg.size
      <4>7. Good(x, data)
        BY <2>5, <4>1, <4>6
      <4>8. \A v \in Writer : \A i \in 1 .. Len(ipc_delivered[v]) : Good(v, ipc_delivered[v][i])
        BY DEF Dispatched
      <4> HIDE DEF Good
      <4>9. \A v \in Writer : \A i \in 1 .. Len(ipc_delivered'[v]) : Good(v, ipc_delivered'[v][i])
        BY <4>5, <4>7, <4>8
      <4> QED
        BY <4>9 DEF Dispatched, Good
    <3> QED
      BY <3>1, <3>2
  <2> QED
    BY <2>6, <2>7
<1>2. CASE UNCHANGED ipc_delivered /\ ipc_reader'.data = ipc_reader.data /\ ipc_reader'.last = ipc_reader.last
  BY <1>2 DEF Gathered, Dispatched
<1> QED
  BY <1>1, <1>2 DEF ChannelMove, Idle, Sending, Dropping, Writing, Still, readerVars

-----------------------------------------------------------------------------
(* The order of a writer's messages. *)
LEMMA OrderGrows ==
  ASSUME NEW w, NEW d, NEW b, NEW p, NEW k \in Nat, OrderOf(w, d, b, p, k)
  PROVE  OrderOf(w, d, b, p, k + 1)
<1>1. \A x \in 1 .. k : x \in 1 .. k + 1
  OBVIOUS
<1> QED
  BY <1>1 DEF OrderOf

LEMMA OrderSend ==
  ASSUME NEW w, NEW d, NEW b, NEW p \in Seq(Message), NEW k \in Nat, OrderOf(w, d, b, p, k),
         NEW m \in Message, m.n = k + 1, m.from = w
  PROVE  OrderOf(w, d, b, Append(p, m), k + 1)
<1> DEFINE q == Append(p, m)
<1> DEFINE n == Len(p)
<1> DEFINE mine == {i \in 1 .. Len(b) : b[i].msg.from = w}
<1>1. n \in Nat /\ Len(q) = n + 1 /\ q[n + 1] = m /\ \A i \in 1 .. n : q[i] = p[i]
  BY AppendProperties
<1> HIDE DEF q, n
<1>2. \A i \in 1 .. Len(q) : (i \in 1 .. n /\ q[i] = p[i]) \/ (i = n + 1 /\ q[i] = m)
  <2> TAKE i \in 1 .. Len(q)
  <2>1. i \in 1 .. n \/ i = n + 1
    BY <1>1
  <2> QED
    BY <1>1, <2>1
<1>3. \A x \in 1 .. k : x \in 1 .. k + 1 /\ x < m.n /\ x <= m.n
  OBVIOUS
<1>4. m.n \in 1 .. k + 1
  OBVIOUS
<1>5. /\ \A i \in 1 .. Len(d) : d[i][1].msg.n \in 1 .. k
      /\ \A i \in mine : b[i].msg.n \in 1 .. k
      /\ \A i \in 1 .. n : p[i].n \in 1 .. k /\ p[i].from = w
      /\ \A i, j \in 1 .. Len(d) : i < j => d[i][1].msg.n < d[j][1].msg.n
      /\ \A i \in 1 .. Len(d), j \in mine : d[i][1].msg.n < b[j].msg.n
      /\ \A i \in 1 .. Len(d), j \in 1 .. n : d[i][1].msg.n < p[j].n
      /\ \A i, j \in mine : i < j =>
           b[i].msg.n <= b[j].msg.n /\ (b[i].last => b[i].msg.n < b[j].msg.n)
      /\ \A i \in mine, j \in 1 .. n :
           b[i].msg.n <= p[j].n /\ (b[i].last => b[i].msg.n < p[j].n)
      /\ \A i, j \in 1 .. n : i < j => p[i].n < p[j].n
  BY DEF OrderOf, n
<1> HIDE DEF mine
<1>6. /\ \A i \in 1 .. Len(d) : d[i][1].msg.n \in 1 .. k + 1
      /\ \A i \in mine : b[i].msg.n \in 1 .. k + 1
  BY <1>3, <1>5
<1>7. \A i \in 1 .. Len(q) : q[i].n \in 1 .. k + 1 /\ q[i].from = w
  BY <1>2, <1>3, <1>4, <1>5
<1>8. \A i \in 1 .. Len(d), j \in 1 .. Len(q) : d[i][1].msg.n < q[j].n
  BY <1>2, <1>3, <1>5
<1>9. \A i \in mine, j \in 1 .. Len(q) : b[i].msg.n <= q[j].n /\ (b[i].last => b[i].msg.n < q[j].n)
  BY <1>2, <1>3, <1>5
<1>10. \A i, j \in 1 .. Len(q) : i < j => q[i].n < q[j].n
  <2> TAKE i, j \in 1 .. Len(q)
  <2> HAVE i < j
  <2>1. i \in 1 .. n
    BY <1>1
  <2>2. CASE j \in 1 .. n
    BY <2>1, <2>2, <1>1, <1>5
  <2>3. CASE j = n + 1
    BY <2>1, <2>3, <1>1, <1>3, <1>5
  <2> QED
    BY <2>2, <2>3, <1>1
<1> QED
  BY <1>5, <1>6, <1>7, <1>8, <1>9, <1>10 DEF OrderOf, mine, q

LEMMA OrderDrop ==
  ASSUME NEW w, NEW d, NEW b, NEW p, NEW k \in Nat, OrderOf(w, d, b, p, k)
  PROVE  OrderOf(w, d, b, <<>>, k)
<1>1. 1 .. Len(<<>>) = {}
  OBVIOUS
<1> QED
  BY <1>1 DEF OrderOf

(* Another writer's packet in the buffer. *)
LEMMA OrderOther ==
  ASSUME NEW w, NEW d, NEW b \in Seq(Packet), NEW p, NEW k \in Nat, OrderOf(w, d, b, p, k),
         NEW x \in Packet, x.msg.from # w
  PROVE  OrderOf(w, d, Append(b, x), p, k)
<1> DEFINE c == Append(b, x)
<1>1. /\ Len(b) \in Nat /\ Len(c) = Len(b) + 1 /\ c[Len(b) + 1] = x
      /\ \A i \in 1 .. Len(b) : c[i] = b[i]
  BY AppendProperties
<1> HIDE DEF c
<1>2. {i \in 1 .. Len(c) : c[i].msg.from = w} = {i \in 1 .. Len(b) : b[i].msg.from = w}
  BY <1>1
<1>3. \A i \in {j \in 1 .. Len(b) : b[j].msg.from = w} : c[i] = b[i]
  BY <1>1
<1> QED
  BY <1>2, <1>3 DEF OrderOf, c

(* The writer's own packet, of its first pending message. *)
LEMMA OrderWrite ==
  ASSUME NEW w, NEW d, NEW b \in Seq(Packet), NEW p \in Seq(Message), NEW k \in Nat, OrderOf(w, d, b, p, k),
         p # <<>>, NEW x \in Packet, x.msg = Head(p)
  PROVE  OrderOf(w, d, Append(b, x), IF x.last THEN Tail(p) ELSE p, k)
<1> DEFINE c == Append(b, x)
<1> DEFINE n == Len(b)
<1> DEFINE mine == {i \in 1 .. n : b[i].msg.from = w}
<1> DEFINE both == {i \in 1 .. Len(c) : c[i].msg.from = w}
<1>1. n \in Nat /\ Len(c) = n + 1 /\ c[n + 1] = x /\ \A i \in 1 .. n : c[i] = b[i]
  BY AppendProperties
<1>2. Len(p) \in Nat /\ 1 \in 1 .. Len(p) /\ x.msg = p[1] /\ p[1] \in Message /\ p[1].n \in Nat
  <2>1. Len(p) \in Nat /\ 1 \in 1 .. Len(p) /\ Head(p) = p[1] /\ p[1] \in Message
    BY HeadTailProperties
  <2> QED
    BY <2>1 DEF Message
<1> HIDE DEF c, n
<1>3. \A i \in both : (i \in mine /\ c[i] = b[i]) \/ (i = n + 1 /\ c[i] = x)
  <2> TAKE i \in both
  <2>1. i \in 1 .. n + 1 /\ c[i].msg.from = w
    BY <1>1
  <2>2. CASE i \in 1 .. n
    <3>1. c[i] = b[i]
      BY <1>1, <2>2
    <3>2. b[i].msg.from = w
      BY <2>1, <3>1
    <3> QED
      BY <2>2, <3>1, <3>2
  <2>3. CASE i = n + 1
    BY <1>1, <2>3
  <2> QED
    BY <1>1, <2>1, <2>2, <2>3
<1>4. /\ \A i \in 1 .. Len(d) : d[i][1].msg.n \in 1 .. k
      /\ \A i \in mine : b[i].msg.n \in 1 .. k
      /\ \A i \in 1 .. Len(p) : p[i].n \in 1 .. k /\ p[i].from = w
      /\ \A i, j \in 1 .. Len(d) : i < j => d[i][1].msg.n < d[j][1].msg.n
      /\ \A i \in 1 .. Len(d), j \in mine : d[i][1].msg.n < b[j].msg.n
      /\ \A i \in 1 .. Len(d), j \in 1 .. Len(p) : d[i][1].msg.n < p[j].n
      /\ \A i, j \in mine : i < j =>
           b[i].msg.n <= b[j].msg.n /\ (b[i].last => b[i].msg.n < b[j].msg.n)
      /\ \A i \in mine, j \in 1 .. Len(p) :
           b[i].msg.n <= p[j].n /\ (b[i].last => b[i].msg.n < p[j].n)
      /\ \A i, j \in 1 .. Len(p) : i < j => p[i].n < p[j].n
  BY DEF OrderOf, n
<1>5. mine \subseteq 1 .. n /\ both \subseteq 1 .. n + 1
  BY <1>1
<1> HIDE DEF mine
<1>6. \A i \in both : c[i].msg.n \in 1 .. k
  BY <1>2, <1>3, <1>4
<1>7. \A i \in 1 .. Len(d), j \in both : d[i][1].msg.n < c[j].msg.n
  BY <1>2, <1>3, <1>4
<1>8. \A i, j \in both : i < j => c[i].msg.n <= c[j].msg.n /\ (c[i].last => c[i].msg.n < c[j].msg.n)
  <2> TAKE i, j \in both
  <2> HAVE i < j
  <2>1. i \in mine /\ c[i] = b[i]
    BY <1>1, <1>3, <1>5
  <2>2. CASE j \in mine /\ c[j] = b[j]
    BY <2>1, <2>2, <1>4
  <2>3. CASE c[j] = x
    BY <2>1, <2>3, <1>2, <1>4
  <2> QED
    BY <2>2, <2>3, <1>3
<1> HIDE DEF both
<1>9. CASE x.last
  <2> DEFINE q == Tail(p)
  <2>1. \A i \in 1 .. Len(q) : i + 1 \in 1 .. Len(p) /\ q[i] = p[i + 1] /\ 1 < i + 1
    BY HeadTailProperties
  <2>2. \A i, j \in 1 .. Len(q) : i < j => i + 1 < j + 1
    BY HeadTailProperties
  <2> HIDE DEF q
  <2>3. \A i \in 1 .. Len(q) : q[i].n \in 1 .. k /\ q[i].from = w /\ p[1].n < q[i].n
    BY <1>2, <1>4, <2>1
  <2>4. \A i \in 1 .. Len(d), j \in 1 .. Len(q) : d[i][1].msg.n < q[j].n
    BY <1>4, <2>1
  <2>5. \A i \in both, j \in 1 .. Len(q) : c[i].msg.n <= q[j].n /\ (c[i].last => c[i].msg.n < q[j].n)
    <3> TAKE i \in both, j \in 1 .. Len(q)
    <3>1. CASE i \in mine /\ c[i] = b[i]
      BY <3>1, <1>4, <2>1
    <3>2. CASE c[i] = x
      BY <3>2, <1>2, <1>4, <2>3
    <3> QED
      BY <3>1, <3>2, <1>3
  <2>6. \A i, j \in 1 .. Len(q) : i < j => q[i].n < q[j].n
    BY <1>4, <2>1, <2>2
  <2>7. OrderOf(w, d, c, q, k)
    BY <1>4, <1>6, <1>7, <1>8, <2>3, <2>4, <2>5, <2>6 DEF OrderOf, both
  <2> QED
    BY <1>9, <2>7 DEF c, q
<1>10. CASE ~x.last
  <2>1. \A j \in 1 .. Len(p) : p[1].n <= p[j].n
    <3> TAKE j \in 1 .. Len(p)
    <3>1. j = 1 \/ 1 < j
      OBVIOUS
    <3> QED
      BY <3>1, <1>2, <1>4
  <2>2. \A i \in both, j \in 1 .. Len(p) : c[i].msg.n <= p[j].n /\ (c[i].last => c[i].msg.n < p[j].n)
    <3> TAKE i \in both, j \in 1 .. Len(p)
    <3>1. CASE i \in mine /\ c[i] = b[i]
      BY <3>1, <1>4
    <3>2. CASE c[i] = x
      BY <3>2, <1>2, <1>10, <2>1
    <3> QED
      BY <3>1, <3>2, <1>3
  <2>3. OrderOf(w, d, c, p, k)
    BY <1>4, <1>6, <1>7, <1>8, <2>2 DEF OrderOf, both
  <2> QED
    BY <1>10, <2>3 DEF c
<1> QED
  BY <1>9, <1>10

(* The reader takes the first packet. *)
LEMMA OrderTake ==
  ASSUME NEW w, NEW d, NEW b \in Seq(Packet), NEW p, NEW k \in Nat, OrderOf(w, d, b, p, k), b # <<>>
  PROVE  OrderOf(w, d, Tail(b), p, k)
<1> DEFINE c == Tail(b)
<1> DEFINE n == Len(b)
<1> DEFINE mine == {i \in 1 .. n : b[i].msg.from = w}
<1>1. n \in Nat /\ n > 0 /\ Len(c) = n - 1 /\ \A i \in 1 .. n - 1 : c[i] = b[i + 1]
  BY HeadTailProperties
<1> HIDE DEF c, n
<1>2. \A i \in 1 .. Len(c) : c[i].msg.from = w => i + 1 \in mine /\ c[i] = b[i + 1]
  BY <1>1
<1>3. \A i, j \in 1 .. Len(c) : i < j => i + 1 < j + 1
  BY <1>1
<1>4. /\ \A i \in mine : b[i].msg.n \in 1 .. k
      /\ \A i \in 1 .. Len(d), j \in mine : d[i][1].msg.n < b[j].msg.n
      /\ \A i, j \in mine : i < j =>
           b[i].msg.n <= b[j].msg.n /\ (b[i].last => b[i].msg.n < b[j].msg.n)
      /\ \A i \in mine, j \in 1 .. Len(p) :
           b[i].msg.n <= p[j].n /\ (b[i].last => b[i].msg.n < p[j].n)
  BY DEF OrderOf, n
<1> HIDE DEF mine
<1>5. /\ \A i \in 1 .. Len(d) : d[i][1].msg.n \in 1 .. k
      /\ \A i \in 1 .. Len(p) : p[i].n \in 1 .. k /\ p[i].from = w
      /\ \A i, j \in 1 .. Len(d) : i < j => d[i][1].msg.n < d[j][1].msg.n
      /\ \A i \in 1 .. Len(d), j \in 1 .. Len(p) : d[i][1].msg.n < p[j].n
      /\ \A i, j \in 1 .. Len(p) : i < j => p[i].n < p[j].n
  BY DEF OrderOf
<1> DEFINE rest == {i \in 1 .. Len(c) : c[i].msg.from = w}
<1>6. \A i \in rest : i \in 1 .. Len(c) /\ i + 1 \in mine /\ c[i] = b[i + 1]
  BY <1>2
<1> HIDE DEF rest
<1>7. \A i \in rest : c[i].msg.n \in 1 .. k
  BY <1>4, <1>6
<1>8. \A i \in 1 .. Len(d), j \in rest : d[i][1].msg.n < c[j].msg.n
  BY <1>4, <1>6
<1>9. \A i, j \in rest : i < j => c[i].msg.n <= c[j].msg.n /\ (c[i].last => c[i].msg.n < c[j].msg.n)
  BY <1>3, <1>4, <1>6
<1>10. \A i \in rest, j \in 1 .. Len(p) : c[i].msg.n <= p[j].n /\ (c[i].last => c[i].msg.n < p[j].n)
  BY <1>4, <1>6
<1> QED
  BY <1>5, <1>7, <1>8, <1>9, <1>10 DEF OrderOf, rest, c

(* The reader takes a last packet of w and dispatches the message e. *)
LEMMA OrderDeliver ==
  ASSUME NEW w, NEW d \in Seq(Seq(Packet)), NEW b \in Seq(Packet), NEW p, NEW k \in Nat,
         OrderOf(w, d, b, p, k), b # <<>>, Head(b).last, Head(b).msg.from = w,
         NEW e \in Seq(Packet), e[1].msg = Head(b).msg
  PROVE  OrderOf(w, Append(d, e), Tail(b), p, k)
<1> DEFINE c == Tail(b)
<1> DEFINE g == Append(d, e)
<1> DEFINE n == Len(d)
<1> DEFINE rest == {i \in 1 .. Len(c) : c[i].msg.from = w}
<1> DEFINE mine == {i \in 1 .. Len(b) : b[i].msg.from = w}
<1>1. n \in Nat /\ Len(g) = n + 1 /\ g[n + 1] = e /\ \A i \in 1 .. n : g[i] = d[i]
  BY AppendProperties
<1>2. /\ Len(b) \in Nat /\ Len(b) > 0 /\ Len(c) = Len(b) - 1 /\ Head(b) = b[1]
      /\ \A i \in 1 .. Len(b) - 1 : c[i] = b[i + 1]
  BY HeadTailProperties
<1>3. 1 \in mine /\ b[1].last /\ e[1].msg = b[1].msg
  BY <1>2
<1>4. OrderOf(w, d, c, p, k)
  BY OrderTake
<1> HIDE DEF c, g, n
<1>5. \A i \in rest : i + 1 \in mine /\ 1 < i + 1 /\ c[i] = b[i + 1]
  BY <1>2
<1>6. /\ \A i \in mine : b[i].msg.n \in 1 .. k
      /\ \A i \in 1 .. n, j \in mine : d[i][1].msg.n < b[j].msg.n
      /\ \A i, j \in mine : i < j =>
           b[i].msg.n <= b[j].msg.n /\ (b[i].last => b[i].msg.n < b[j].msg.n)
      /\ \A i \in mine, j \in 1 .. Len(p) :
           b[i].msg.n <= p[j].n /\ (b[i].last => b[i].msg.n < p[j].n)
  BY DEF OrderOf, n
<1> HIDE DEF mine
<1>7. /\ \A i \in 1 .. n : d[i][1].msg.n \in 1 .. k
      /\ \A i \in rest : c[i].msg.n \in 1 .. k
      /\ \A i \in 1 .. Len(p) : p[i].n \in 1 .. k /\ p[i].from = w
      /\ \A i, j \in 1 .. n : i < j => d[i][1].msg.n < d[j][1].msg.n
      /\ \A i \in 1 .. n, j \in rest : d[i][1].msg.n < c[j].msg.n
      /\ \A i \in 1 .. n, j \in 1 .. Len(p) : d[i][1].msg.n < p[j].n
      /\ \A i, j \in rest : i < j =>
           c[i].msg.n <= c[j].msg.n /\ (c[i].last => c[i].msg.n < c[j].msg.n)
      /\ \A i \in rest, j \in 1 .. Len(p) :
           c[i].msg.n <= p[j].n /\ (c[i].last => c[i].msg.n < p[j].n)
      /\ \A i, j \in 1 .. Len(p) : i < j => p[i].n < p[j].n
  BY <1>4 DEF OrderOf, n
<1> HIDE DEF rest
<1> DEFINE x == e[1].msg.n
<1>8. /\ x \in 1 .. k /\ \A i \in 1 .. n : d[i][1].msg.n < x
      /\ \A j \in rest : x < c[j].msg.n
      /\ \A j \in 1 .. Len(p) : x < p[j].n
  BY <1>3, <1>5, <1>6
<1>9. \A i \in 1 .. Len(g) : (i \in 1 .. n /\ g[i][1].msg.n = d[i][1].msg.n) \/ (i = n + 1 /\ g[i][1].msg.n = x)
  <2> TAKE i \in 1 .. Len(g)
  <2>1. CASE i \in 1 .. n
    BY <1>1, <2>1
  <2>2. CASE i = n + 1
    BY <1>1, <2>2
  <2> QED
    BY <1>1, <2>1, <2>2
<1> HIDE DEF x
<1>10. \A i \in 1 .. Len(g) : g[i][1].msg.n \in 1 .. k
  BY <1>7, <1>8, <1>9
<1>11. \A i, j \in 1 .. Len(g) : i < j => g[i][1].msg.n < g[j][1].msg.n
  <2> TAKE i, j \in 1 .. Len(g)
  <2> HAVE i < j
  <2>1. i \in 1 .. n
    BY <1>1
  <2>2. CASE j \in 1 .. n
    BY <2>1, <2>2, <1>1, <1>7
  <2>3. CASE j = n + 1
    <3>1. g[j][1].msg.n = x /\ g[i][1].msg.n = d[i][1].msg.n
      <4>1. g[j] = e /\ g[i] = d[i]
        BY <2>1, <2>3, <1>1
      <4> QED
        BY <4>1 DEF x
    <3> QED
      BY <2>1, <3>1, <1>8
  <2> QED
    BY <2>2, <2>3, <1>1
<1>12. \A i \in 1 .. Len(g), j \in rest : g[i][1].msg.n < c[j].msg.n
  BY <1>7, <1>8, <1>9
<1>13. \A i \in 1 .. Len(g), j \in 1 .. Len(p) : g[i][1].msg.n < p[j].n
  BY <1>7, <1>8, <1>9
<1> QED
  BY <1>7, <1>10, <1>11, <1>12, <1>13 DEF OrderOf, rest, g, c

LEMMA OrderedStep ==
  ASSUME WriterType, SharedType, Turns, Pieces, Gathered, Ordered, ChannelMove,
         Reading => UNCHANGED <<ipc_queue, ipc_sent>>
  PROVE  Ordered'
<1>1. ASSUME NEW v \in Writer
      PROVE  /\ OrderOf(v, ipc_delivered[v], ipc_buffer, ipc_queue[v].pending, Len(ipc_sent))
             /\ ipc_queue[v].pending \in Seq(Message) /\ ipc_delivered[v] \in Seq(Seq(Packet))
  BY DEF Ordered, WriterType, SharedType, Queue
<1>2. ipc_buffer \in Seq(Packet) /\ ipc_sent \in Seq(Message) /\ Len(ipc_sent) \in Nat
  BY DEF SharedType
<1>3. CASE Idle
  BY <1>3 DEF Idle, Still, SameMail, Ordered
<1>4. CASE \E w \in Writer : Sending(w)
  <2>1. PICK w \in Writer : Sending(w)
    BY <1>4
  <2>2. PICK m \in Message :
          /\ m.n = Len(ipc_sent) + 1 /\ m.from = w /\ ipc_sent' = Append(ipc_sent, m)
          /\ ipc_queue'[w].pending \in {ipc_queue[w].pending, Append(ipc_queue[w].pending, m)}
    BY <2>1 DEF Sending
  <2>3. UNCHANGED <<ipc_buffer, ipc_delivered>> /\ Others(w)
    BY <2>1 DEF Sending, Still
  <2>4. Len(ipc_sent') = Len(ipc_sent) + 1
    BY <1>2, <2>2
  <2>5. ASSUME NEW v \in Writer
        PROVE  OrderOf(v, ipc_delivered[v], ipc_buffer, ipc_queue'[v].pending, Len(ipc_sent) + 1)
    <3>1. OrderOf(v, ipc_delivered[v], ipc_buffer, ipc_queue[v].pending, Len(ipc_sent) + 1)
      BY <1>1, <1>2, OrderGrows
    <3>2. v = w => OrderOf(v, ipc_delivered[v], ipc_buffer, Append(ipc_queue[v].pending, m), Len(ipc_sent) + 1)
      BY <1>1, <1>2, <2>2, OrderSend
    <3>3. v # w => ipc_queue'[v].pending = ipc_queue[v].pending
      BY <2>3 DEF Others, SameMail
    <3> QED
      BY <2>2, <3>1, <3>2, <3>3
  <2> QED
    BY <2>3, <2>4, <2>5 DEF Ordered
<1>5. CASE \E w \in Writer : Dropping(w)
  <2>1. PICK w \in Writer : Dropping(w)
    BY <1>5
  <2>2. UNCHANGED <<ipc_buffer, ipc_delivered, ipc_sent>> /\ Others(w) /\ ipc_queue'[w].pending = <<>>
    BY <2>1 DEF Dropping, Still, NoQueue
  <2>3. ASSUME NEW v \in Writer
        PROVE  OrderOf(v, ipc_delivered[v], ipc_buffer, ipc_queue'[v].pending, Len(ipc_sent))
    <3>1. OrderOf(v, ipc_delivered[v], ipc_buffer, <<>>, Len(ipc_sent))
      BY <1>1, <1>2, OrderDrop
    <3>2. v # w => ipc_queue'[v].pending = ipc_queue[v].pending
      BY <2>2 DEF Others, SameMail
    <3> QED
      BY <1>1, <2>2, <3>1, <3>2
  <2> QED
    BY <2>2, <2>3 DEF Ordered
<1>6. CASE \E w \in Writer : Writing(w)
  <2>1. PICK w \in Writer : Writing(w)
    BY <1>6
  <2>2. PICK x : x = NextPacket(w)
    OBVIOUS
  <2>3. /\ UNCHANGED <<ipc_delivered, ipc_sent>> /\ Others(w) /\ ipc_buffer' = Append(ipc_buffer, x)
        /\ ipc_queue[w].pending # <<>>
        /\ ipc_queue'[w].pending = IF x.last THEN Tail(ipc_queue[w].pending) ELSE ipc_queue[w].pending
    BY <2>1, <2>2 DEF Writing, readerVars
  <2>4. x \in Packet /\ x.msg = Head(ipc_queue[w].pending)
    BY <2>2, <2>3, WrittenBelow, NextPacketIs
  <2>5. x.msg.from = w
    <3>1. Head(ipc_queue[w].pending) = ipc_queue[w].pending[1] /\ 1 \in 1 .. Len(ipc_queue[w].pending)
      BY <1>1, <2>3, HeadTailProperties
    <3> QED
      BY <1>1, <2>4, <3>1 DEF OrderOf
  <2>6. ASSUME NEW v \in Writer
        PROVE  OrderOf(v, ipc_delivered[v], Append(ipc_buffer, x), ipc_queue'[v].pending, Len(ipc_sent))
    <3>1. CASE v = w
      <4>1. OrderOf(w, ipc_delivered[w], Append(ipc_buffer, x),
                    IF x.last THEN Tail(ipc_queue[w].pending) ELSE ipc_queue[w].pending, Len(ipc_sent))
        BY <1>1, <1>2, <2>3, <2>4, OrderWrite
      <4> QED
        BY <2>3, <3>1, <4>1
    <3>2. CASE v # w
      <4>1. OrderOf(v, ipc_delivered[v], Append(ipc_buffer, x), ipc_queue[v].pending, Len(ipc_sent))
        BY <1>1, <1>2, <2>4, <2>5, <3>2, OrderOther
      <4> QED
        BY <2>3, <3>2, <4>1 DEF Others, SameMail
    <3> QED
      BY <3>1, <3>2
  <2> QED
    BY <2>3, <2>6 DEF Ordered
<1>7. CASE Reading
  <2>1. PICK p : p = Head(ipc_buffer)
    OBVIOUS
  <2>2. PICK data : data = IF p.sequence = 0 THEN <<p>> ELSE Append(ipc_reader.data, p)
    OBVIOUS
  <2>3. /\ ipc_buffer # <<>> /\ ipc_buffer' = Tail(ipc_buffer)
        /\ ipc_delivered' = IF p.last
                            THEN [ipc_delivered EXCEPT ![p.msg.from] = Append(@, data)]
                            ELSE ipc_delivered
    BY <1>7, <2>1, <2>2 DEF Reading, ReadOnePacket
  <2>4. p \in Packet
    BY <1>2, <2>1, <2>3
  <2>5. data[1].msg = p.msg /\ data \in Seq(Packet)
    <3>1. data[1].msg = p.msg
      BY <2>1, <2>2, <2>3, GatheredData
    <3>2. data \in Seq(Packet)
      BY <2>2, <2>4 DEF SharedType
    <3> QED
      BY <3>1, <3>2
  <2>6. ASSUME NEW v \in Writer
        PROVE  OrderOf(v, ipc_delivered'[v], Tail(ipc_buffer), ipc_queue[v].pending, Len(ipc_sent))
    <3>1. CASE p.last /\ p.msg.from = v
      <4>1. OrderOf(v, Append(ipc_delivered[v], data), Tail(ipc_buffer), ipc_queue[v].pending, Len(ipc_sent))
        BY <1>1, <1>2, <2>1, <2>3, <2>5, <3>1, OrderDeliver
      <4>2. ipc_delivered'[v] = Append(ipc_delivered[v], data)
        BY <2>3, <3>1 DEF SharedType
      <4> QED
        BY <4>1, <4>2
    <3>2. CASE ~(p.last /\ p.msg.from = v)
      <4>1. ipc_delivered'[v] = ipc_delivered[v]
        BY <2>3, <3>2 DEF SharedType
      <4>2. OrderOf(v, ipc_delivered[v], Tail(ipc_buffer), ipc_queue[v].pending, Len(ipc_sent))
        BY <1>1, <1>2, <2>3, OrderTake
      <4> QED
        BY <4>1, <4>2
    <3> QED
      BY <3>1, <3>2
  <2>7. UNCHANGED <<ipc_queue, ipc_sent>>
    BY <1>7
  <2> QED
    BY <2>3, <2>6, <2>7 DEF Ordered
<1> QED
  BY <1>3, <1>4, <1>5, <1>6, <1>7 DEF ChannelMove

-----------------------------------------------------------------------------
(* A writer that found no space finds an awake reader or a full buffer. *)
LEMMA FullIsNotEmpty ==
  ASSUME WriterType, SharedType, Space, Pieces, NEW w \in Writer, ~Fits(w),
         ipc_queue[w].pending # <<>>, ipc_run[w].count = 0
  PROVE  ipc_buffer # <<>>
<1>1. 1 + NextPacket(w).size <= Capacity /\ NextPacket(w) \in Packet
  BY WrittenBelow, NextPacketIs
<1>2. ~(1 + NextPacket(w).size <= ipc_free)
  BY DEF Fits
<1>3. PICK s : Totals(s, ipc_buffer) /\ ipc_free = Capacity - s[Len(ipc_buffer)]
  BY DEF Space
<1>4. ipc_buffer = <<>> => ipc_free = Capacity
  BY <1>3, ChannelAssumption DEF Totals
<1> QED
  BY <1>1, <1>2, <1>4

(* Other writers keep their hope when w's step takes nothing away. *)
LEMMA HopeFrom ==
  ASSUME NEW w \in Writer, Alone(w), Hope, UNCHANGED ipc_alive,
         Awake => Awake', ipc_buffer # <<>> => ipc_buffer' # <<>>, ipc_alive => HopeOf(w)'
  PROVE  Hope'
<1>1. ASSUME NEW v \in Writer \ {w}, ipc_alive
      PROVE  HopeOf(v)'
  <2>1. HopeOf(v)
    BY <1>1 DEF Hope
  <2>2. ipc_queue'[v] = ipc_queue[v] /\ ipc_run'[v] = ipc_run[v]
    BY DEF Alone
  <2> QED
    BY <2>1, <2>2 DEF HopeOf
<1> QED
  BY <1>1 DEF Hope

LEMMA HopeWriter ==
  ASSUME WriterType, SharedType, Turns, Space, Pieces, Hope, NEW w \in Writer,
         \/ SendWithCompletion(w) \/ SendToAll(w)
         \/ RunStep(w) \/ RemoveOutboundQueue(w) \/ EndWriter(w)
  PROVE  Hope'
<1>1. ipc_queue[w] \in Queue /\ ipc_run[w] \in Running /\ TurnOf(w) /\ (ipc_alive => HopeOf(w))
  BY DEF WriterType, Turns, Hope
<1>2. CASE SendWithCompletion(w) \/ SendToAll(w)
  <2>1. Alone(w) /\ TurnOf(w)'
    BY <1>2, SendTurn
  <2>2. UNCHANGED <<sharedVars, readerVars, ipc_run>> /\ ipc_run[w].at \in {"build", "wait"}
    BY <1>2 DEF SendWithCompletion, SendToAll, SendStarts
  <2>3. ipc_queue'[w].waits = "space" => ipc_queue[w].waits = "space"
    BY <1>1, <2>1, <2>2 DEF TurnOf, Turn, sharedVars
  <2>4. Awake' = Awake /\ UNCHANGED <<ipc_alive, ipc_buffer>>
    BY <2>2 DEF Awake, sharedVars, readerVars
  <2>5. ipc_alive => HopeOf(w)'
    BY <1>1, <2>2, <2>3, <2>4 DEF HopeOf
  <2> QED
    BY <2>1, <2>4, <2>5, HopeFrom
<1>3. CASE RemoveOutboundQueue(w) \/ EndWriter(w)
  <2>1. Alone(w) /\ ipc_queue'[w] = NoQueue
    BY <1>3, RemoveTurn
  <2>2. Awake' = Awake /\ UNCHANGED <<ipc_alive, ipc_buffer>>
    <3>1. UNCHANGED <<ipc_space, ipc_data, ipc_reader, ipc_alive, ipc_buffer>>
      BY <1>3 DEF RemoveOutboundQueue, EndWriter, BuildStarts, readerVars
    <3> QED
      BY <3>1 DEF Awake
  <2>3. HopeOf(w)'
    BY <2>1 DEF HopeOf, NoQueue
  <2> QED
    BY <2>1, <2>2, <2>3, HopeFrom
<1>4. CASE Build(w)
  <2>1. Alone(w)
    BY <1>4, BuildTurn
  <2>2. Awake' = Awake /\ UNCHANGED <<ipc_alive, ipc_buffer, ipc_queue>>
    BY <1>4 DEF Build, BuildStarts, Awake, readerVars
  <2>3. ipc_run'[w].at = "wait"
    BY <1>1, <1>4 DEF Build, WriterType, Running
  <2>4. ipc_alive => HopeOf(w)'
    BY <1>1, <2>2, <2>3 DEF HopeOf
  <2> QED
    BY <2>1, <2>2, <2>4, HopeFrom
<1>5. CASE WaitReturns(w) \/ (WaitComplete(w) /\ Signalled(w) # "space")
  <2>1. Alone(w)
    BY <1>5, WaitTurn
  <2>2. Awake' = Awake /\ UNCHANGED <<ipc_alive, ipc_buffer>>
    BY <1>5 DEF WaitReturns, WaitComplete, Awake, readerVars, sharedVars
  <2>3. ipc_run'[w].at \in {"build", "write"} /\ ipc_queue'[w].waits \in {"nothing", ipc_queue[w].waits}
    BY <1>1, <1>5 DEF WaitReturns, WaitComplete, WriterType, Running, Queue
  <2>4. ipc_alive => HopeOf(w)'
    BY <1>1, <2>2, <2>3 DEF HopeOf
  <2> QED
    BY <2>1, <2>2, <2>4, HopeFrom
<1>6. CASE WaitComplete(w) /\ Signalled(w) = "space"
  <2>1. Alone(w) /\ TurnOf(w)' /\ Turns'
    BY <1>6, WaitTurn, TurnsFrom
  <2>2. ipc_run'[w].at = "write" /\ UNCHANGED ipc_alive
    BY <1>1, <1>6 DEF WaitComplete, WriterType, Running, readerVars
  <2>3. ipc_mutex' = w
    BY <2>1, <2>2 DEF TurnOf, Turn
  <2>4. ASSUME NEW v \in Writer
        PROVE  HopeOf(v)'
    <3>1. CASE v = w
      <4>1. ipc_queue'[w].waits = "nothing"
        BY <2>1, <2>2 DEF TurnOf, Turn
      <4> QED
        BY <3>1, <4>1, <2>2 DEF HopeOf
    <3>2. CASE v # w
      <4>1. ~ipc_queue'[v].has
        BY <2>1, <2>3, <3>2 DEF Turns, TurnOf
      <4>2. ipc_queue'[v].waits # "space" /\ ipc_run'[v].at \notin Turn
        BY <2>1, <4>1 DEF Turns, TurnOf
      <4> QED
        BY <4>2 DEF HopeOf, Turn
    <3> QED
      BY <3>1, <3>2
  <2> QED
    BY <2>4 DEF Hope
<1>7. CASE WriteOnePacket(w)
  <2>1. ipc_queue[w].pending # <<>> /\ ipc_buffer' = Append(ipc_buffer, NextPacket(w))
    BY <1>7 DEF WriteOnePacket, Fits
  <2>2. Alone(w) /\ TurnOf(w)'
    BY <1>7, <2>1, WrittenBelow, WriteTurn
  <2>3. NextPacket(w) \in Packet
    BY <2>1, WrittenBelow, NextPacketIs
  <2>4. ipc_buffer' # <<>>
    BY <2>1, <2>3 DEF SharedType
  <2>5. Awake' = Awake /\ UNCHANGED ipc_alive
    BY <1>7 DEF WriteOnePacket, Awake, readerVars
  <2>6. ipc_run'[w].at \in {"signal", "signal_stop"}
    BY <1>1, <1>7 DEF WriteOnePacket, WriterType, Running
  <2>7. HopeOf(w)'
    BY <2>2, <2>4, <2>6 DEF HopeOf, TurnOf, Turn
  <2> QED
    BY <2>2, <2>4, <2>5, <2>7, HopeFrom
<1>8. CASE WriteNothing(w)
  <2>1. Alone(w) /\ TurnOf(w)'
    BY <1>8, EndTurn
  <2>2. Awake' = Awake /\ UNCHANGED <<ipc_alive, ipc_buffer, ipc_queue>>
    BY <1>8 DEF WriteNothing, Awake, readerVars, sharedVars
  <2>3. ipc_run'[w].at = "signal_stop" /\ ipc_run'[w].count = ipc_run[w].count
    BY <1>1, <1>8 DEF WriteNothing, WriterType, Running
  <2>4. ipc_run[w].count = 0 /\ ipc_queue[w].pending # <<>> => ipc_buffer # <<>>
    BY <1>8, FullIsNotEmpty DEF WriteNothing
  <2>5. HopeOf(w)'
    BY <2>1, <2>2, <2>3, <2>4 DEF HopeOf, TurnOf, Turn
  <2> QED
    BY <2>1, <2>2, <2>5, HopeFrom
<1>9. CASE EndWriteTransaction(w)
  <2>1. Alone(w) /\ TurnOf(w)'
    BY <1>9, EndTurn
  <2>2. /\ UNCHANGED <<ipc_space, ipc_reader, ipc_alive, ipc_buffer, ipc_queue>>
        /\ ipc_run[w].at \in {"signal", "signal_stop"}
        /\ ipc_data' = (ipc_data \/ (ipc_buffer # <<>> /\ (ipc_run[w].at = "signal" \/ ipc_queue[w].pending # <<>>)))
    BY <1>9 DEF EndWriteTransaction, readerVars
  <2>3. /\ ipc_run'[w].count = ipc_run[w].count
        /\ ipc_run'[w].at = IF ipc_run[w].at = "signal" THEN "write" ELSE "stop"
    BY <1>1, <1>9 DEF EndWriteTransaction, WriterType, Running
  <2>4. Awake => Awake'
    BY <2>2 DEF Awake
  <2>5. ipc_queue[w].pending # <<>> /\ ipc_buffer # <<>> => Awake'
    BY <2>2 DEF Awake
  <2>6. ipc_alive => HopeOf(w)'
    BY <1>1, <2>1, <2>2, <2>3, <2>4, <2>5 DEF HopeOf, TurnOf, Turn
  <2> QED
    BY <2>1, <2>2, <2>4, <2>6, HopeFrom
<1>10. CASE WaitOrRelease(w)
  <2>1. Alone(w)
    BY <1>10, ReleaseTurn
  <2>2. Awake' = Awake /\ UNCHANGED <<ipc_alive, ipc_buffer>>
    BY <1>10 DEF WaitOrRelease, Awake, readerVars
  <2>3. /\ ipc_run[w].at = "stop" /\ ipc_run'[w].at = "build"
        /\ ipc_queue'[w].waits = "space" => ipc_run[w].count = 0 /\ ipc_queue[w].pending # <<>>
    BY <1>1, <1>10 DEF WaitOrRelease, WriterType, Running, Queue
  <2>4. ipc_alive => HopeOf(w)'
    BY <1>1, <2>2, <2>3 DEF HopeOf
  <2> QED
    BY <2>1, <2>2, <2>4, HopeFrom
<1> QED
  BY <1>2, <1>3, <1>4, <1>5, <1>6, <1>7, <1>8, <1>9, <1>10 DEF RunStep

LEMMA HopeReader ==
  ASSUME WriterType, SharedType, Hope, UNCHANGED <<ipc_queue, ipc_run>>, ReaderStep \/ KillReader
  PROVE  Hope'
<1>1. CASE KillReader
  BY <1>1 DEF KillReader, Hope
<1>2. CASE ReaderStep
  <2>1. Awake'
    <3>1. CASE DataAvailable
      BY <3>1 DEF DataAvailable, Awake, SharedType
    <3>2. CASE ReadOnePacket
      BY <3>2 DEF ReadOnePacket, Awake
    <3>3. CASE ReadNothing
      BY <3>3 DEF ReadNothing, Awake, SharedType
    <3>4. CASE EndReadTransaction
      BY <3>4 DEF EndReadTransaction, Awake
    <3> QED
      BY <1>2, <3>1, <3>2, <3>3, <3>4 DEF ReaderStep
  <2> QED
    BY <2>1 DEF Hope, HopeOf
<1> QED
  BY <1>1, <1>2

-----------------------------------------------------------------------------
LEMMA ChannelInvInit == ASSUME ChannelInit PROVE ChannelInv
<1>1. /\ ipc_buffer = <<>> /\ ipc_free = Capacity /\ ipc_mutex = NoWriter
      /\ ipc_data = FALSE /\ ipc_space = FALSE /\ ipc_alive = TRUE /\ ipc_sent = <<>>
      /\ ipc_reader = [at |-> "wait", data |-> <<>>, last |-> NoPacket]
      /\ ipc_delivered = [w \in Writer |-> <<>>]
      /\ ipc_run = [w \in Writer |-> [at |-> "build", watch |-> {}, count |-> 0]]
      /\ ipc_queue = [w \in Writer |-> NoQueue]
  BY DEF ChannelInit
<1>2. SharedType
  <2>1. <<>> \in Seq(Packet) /\ <<>> \in Seq(Message) /\ <<>> \in Seq(Seq(Packet))
    BY EmptySeq
  <2>2. ipc_reader \in [at : {"wait", "read", "set", "set_last"}, data : Seq(Packet), last : Packet \cup {NoPacket}]
    BY <1>1, <2>1
  <2>3. ipc_delivered \in [Writer -> Seq(Seq(Packet))]
    BY <1>1, <2>1
  <2>4. ipc_free \in Int
    BY <1>1, ChannelAssumption
  <2> QED
    BY <1>1, <2>1, <2>2, <2>3, <2>4 DEF SharedType
<1>3. WriterType
  BY <1>1, NoQueueType DEF WriterType, Running
<1>4. Turns
  BY <1>1, WriterAssumption DEF Turns, TurnOf, Turn, NoQueue
<1>5. Space
  <2> DEFINE s == [i \in 0 .. 0 |-> 0]
  <2>1. Totals(s, <<>>) /\ s[Len(<<>>)] = 0
    BY DEF Totals
  <2> HIDE DEF s
  <2> QED
    BY <1>1, <2>1, ChannelAssumption DEF Space
<1>6. Hope
  BY <1>1 DEF Hope, HopeOf, NoQueue
<1>7. Pieces
  BY <1>1 DEF Pieces, NoQueue
<1>8. Gathered
  BY <1>1 DEF Gathered, NoPacket
<1>9. Dispatched
  BY <1>1 DEF Dispatched
<1>10. Ordered
  BY <1>1 DEF Ordered, OrderOf, NoQueue
<1> QED
  BY <1>2, <1>3, <1>4, <1>5, <1>6, <1>7, <1>8, <1>9, <1>10 DEF ChannelInv

LEMMA ChannelInvNext == ASSUME ChannelInv, ChannelNext PROVE ChannelInv'
<1>1. WriterType' /\ SharedType' /\ Turns' /\ ChannelMove
  BY NextIsMove DEF ChannelInv
<1>2. Reading => UNCHANGED <<ipc_queue, ipc_sent>>
  BY DEF Reading, ReadOnePacket
<1>3. Space'
  BY <1>1, SpaceStep DEF ChannelInv
<1>4. Pieces'
  BY <1>1, <1>2, PiecesStep DEF ChannelInv
<1>5. Gathered' /\ Dispatched'
  BY <1>1, GatheredStep DEF ChannelInv
<1>6. Ordered'
  BY <1>1, <1>2, OrderedStep DEF ChannelInv
<1>7. Hope'
  <2>1. CASE ReaderStep \/ KillReader
    BY <2>1, ReaderTurn, HopeReader DEF ChannelInv
  <2>2. CASE \E w \in Writer :
               \/ SendWithCompletion(w) \/ SendToAll(w)
               \/ RunStep(w) \/ RemoveOutboundQueue(w) \/ EndWriter(w)
    BY <2>2, HopeWriter DEF ChannelInv
  <2> QED
    BY <2>1, <2>2 DEF ChannelNext
<1> QED
  BY <1>1, <1>3, <1>4, <1>5, <1>6, <1>7 DEF ChannelInv

LEMMA ChannelInvStutter == ASSUME ChannelInv, UNCHANGED channelVars PROVE ChannelInv'
<1>1. UNCHANGED <<ipc_buffer, ipc_free, ipc_mutex, ipc_data, ipc_space, ipc_reader, ipc_delivered,
                  ipc_alive, ipc_run, ipc_sent, ipc_queue>>
  BY DEF channelVars, sharedVars, readerVars, runVars
<1>2. SharedType' /\ WriterType' /\ Turns' /\ Space'
  BY <1>1 DEF ChannelInv, SharedType, WriterType, Turns, TurnOf, Space
<1>3. Hope' /\ Pieces' /\ Gathered' /\ Dispatched' /\ Ordered'
  BY <1>1 DEF ChannelInv, Hope, HopeOf, Awake, Pieces, Newest, Gathered, Dispatched, Ordered
<1> QED
  BY <1>2, <1>3 DEF ChannelInv

(* ChannelInv holds in every state the processes can reach, whoever is     *)
(* killed and when: the mutex follows the place of its owner in Run        *)
(* (common/ipc_message_queue_win32.cc, OutboundQueue), the free space is   *)
(* what the packets leave, and the packets are pieces that fit together.   *)
THEOREM ChannelInvAlways == ChannelSpec => []ChannelInv
<1>1. ChannelInit => ChannelInv
  BY ChannelInvInit
<1>2. ChannelInv /\ [ChannelNext]_channelVars => ChannelInv'
  BY ChannelInvNext, ChannelInvStutter
<1> QED
  BY <1>1, <1>2, PTL DEF ChannelSpec

-----------------------------------------------------------------------------
LEMMA InvIsWhole == ASSUME ChannelInv PROVE MessagesArriveWhole
<1> USE DEF ChannelInv
<1>1. ChannelTypeOK
  <2>1. PICK s : Totals(s, ipc_buffer) /\ ipc_free = Capacity - s[Len(ipc_buffer)]
    BY DEF Space
  <2>2. ipc_free = Capacity - Used(ipc_buffer)
    BY <2>1, UsedIs DEF SharedType
  <2>3. ipc_free \in 0 .. Capacity /\ ipc_mutex \in Writer \cup {NoWriter}
    BY DEF Space, WriterType
  <2>4. {ipc_data, ipc_space, ipc_alive} \subseteq BOOLEAN
    BY DEF SharedType
  <2>5. ASSUME NEW w \in Writer
        PROVE  /\ ipc_queue[w].waits \in {"nothing", "mutex", "space"}
               /\ ipc_queue[w].has <=> ipc_mutex = w
               /\ ipc_queue[w].state # "none" /\ ipc_queue[w].pending # <<>> /\ ipc_run[w].at \in {"build", "wait"} =>
                    ipc_queue[w].waits = IF ipc_queue[w].has THEN "space" ELSE "mutex"
    <3>1. TurnOf(w) /\ ipc_queue[w] \in Queue
      BY DEF Turns, WriterType
    <3> QED
      BY <3>1 DEF TurnOf, Queue
  <2> QED
    BY <2>2, <2>3, <2>4, <2>5 DEF ChannelTypeOK
<1>2. WholeMessages
  <2>1. ASSUME NEW w \in Writer, NEW i \in 1 .. Len(ipc_delivered[w])
        PROVE  Whole(ipc_delivered[w][i]) /\ ipc_delivered[w][i][1].msg.from = w
    <3> DEFINE d == ipc_delivered[w][i]
    <3>1. Chain(d) /\ d[1].msg.from = w /\ d[Len(d)].from + d[Len(d)].size = d[1].msg.size
      BY DEF Dispatched
    <3>2. d \in Seq(Packet)
      BY DEF SharedType
    <3> HIDE DEF d
    <3>3. Len(d) \in Nat
      BY <3>2
    <3>4. \A j \in 1 .. Len(d) : d[j].from = IF j = 1 THEN 0 ELSE d[j - 1].from + d[j - 1].size
      <4> TAKE j \in 1 .. Len(d)
      <4>1. CASE j = 1
        BY <3>1, <4>1 DEF Chain
      <4>2. CASE j # 1
        <5>1. j - 1 \in 1 .. Len(d) - 1 /\ (j - 1) + 1 = j
          BY <3>3, <4>2
        <5>2. d[(j - 1) + 1].from = d[j - 1].from + d[j - 1].size
          BY <3>1, <5>1 DEF Chain
        <5> QED
          BY <4>2, <5>1, <5>2
      <4> QED
        BY <4>1, <4>2
    <3>5. Last(d) = d[Len(d)]
      BY DEF Last
    <3>6. Whole(d)
      BY <3>1, <3>4, <3>5 DEF Whole, Chain
    <3> QED
      BY <3>1, <3>6 DEF d
  <2>2. ASSUME NEW w \in Writer, NEW i \in 1 .. Len(ipc_delivered[w]), NEW j \in 1 .. Len(ipc_delivered[w]), i < j
        PROVE  ipc_delivered[w][i][1].msg.n < ipc_delivered[w][j][1].msg.n
    <3>1. OrderOf(w, ipc_delivered[w], ipc_buffer, ipc_queue[w].pending, Len(ipc_sent))
      BY DEF Ordered
    <3> QED
      BY <2>2, <3>1 DEF OrderOf
  <2> QED
    BY <2>1, <2>2 DEF WholeMessages
<1>3. PacketsFollow
  <2> DEFINE all == <<ipc_reader.last>> \o ipc_buffer
  <2> DEFINE n == Len(ipc_buffer)
  <2>1. /\ n \in Nat /\ Len(all) = n + 1 /\ all[1] = ipc_reader.last
        /\ \A i \in 2 .. n + 1 : all[i] = ipc_buffer[i - 1]
    <3> DEFINE one == <<ipc_reader.last>>
    <3> DEFINE S == Packet \cup {NoPacket}
    <3>1. one \in Seq(S) /\ Len(one) = 1 /\ one[1] = ipc_reader.last
      BY DEF SharedType
    <3>2. ipc_buffer \in Seq(S) /\ n \in Nat
      BY DEF SharedType
    <3> HIDE DEF one, S
    <3>3. /\ Len(one \o ipc_buffer) = Len(one) + Len(ipc_buffer)
          /\ \A i \in 1 .. Len(one) + Len(ipc_buffer) :
               (one \o ipc_buffer)[i] = IF i <= Len(one) THEN one[i] ELSE ipc_buffer[i - Len(one)]
      BY <3>1, <3>2, ConcatProperties
    <3> QED
      BY <3>1, <3>2, <3>3 DEF one
  <2> HIDE DEF all, n
  <2>2. ASSUME NEW i \in 1 .. n
        PROVE  PacketFollows(all[i], all[i + 1])
    <3>1. CASE i = 1
      <4>1. ipc_buffer # <<>> /\ all[i] = ipc_reader.last /\ all[i + 1] = ipc_buffer[1]
        BY <2>1, <3>1 DEF n
      <4> QED
        BY <4>1 DEF Pieces, Continues, PacketFollows
    <3>2. CASE i # 1
      <4>1. i - 1 \in 1 .. n - 1 /\ (i - 1) + 1 = i /\ i \in 2 .. n + 1 /\ i + 1 \in 2 .. n + 1 /\ (i + 1) - 1 = i
        BY <2>1, <3>2
      <4>2. Continues(ipc_buffer[i - 1], ipc_buffer[(i - 1) + 1])
        BY <4>1 DEF Pieces, n
      <4> QED
        BY <2>1, <4>1, <4>2 DEF Continues, PacketFollows
    <3> QED
      BY <3>1, <3>2
  <2>3. Len(all) - 1 = n
    BY <2>1
  <2> QED
    BY <2>2, <2>3 DEF PacketsFollow, all
<1> QED
  BY <1>1, <1>2, <1>3 DEF MessagesArriveWhole

(* Packets of any number of writers, any of which may be killed between    *)
(* two packets of a message, are put together by the reader                *)
(* (InboundQueue::ReadOnePacket) into whole messages only, in each         *)
(* writer's order, and its asserts on sequence numbers hold.               *)
THEOREM MessagesAlwaysArriveWhole == ChannelSpec => []MessagesArriveWhole
BY ChannelInvAlways, InvIsWhole, PTL

LEMMA InvIsSignalled == ASSUME ChannelInv PROVE SpaceIsSignalled
BY DEF ChannelInv, Hope, HopeOf, Awake, SpaceIsSignalled

(* A writer that waits for space with the mutex in hand is never forgotten *)
(* by a living reader: WaitOrRelease waits only after a transaction that   *)
(* found the buffer too full, and either side's events cover the other's   *)
(* steps in between.                                                       *)
THEOREM SpaceAlwaysSignalled == ChannelSpec => []SpaceIsSignalled
BY ChannelInvAlways, InvIsSignalled, PTL

-----------------------------------------------------------------------------
(* The callbacks.  What Wanted keeps of a list: some of its messages, each *)
(* position at most once.                                                  *)
KeptOf(s, msgs, i) ==
  /\ s \in Seq(Message)
  /\ \E at \in [1 .. Len(s) -> 1 .. i] :
       /\ \A k, l \in 1 .. Len(s) : at[k] = at[l] => k = l
       /\ \A k \in 1 .. Len(s) : s[k] = msgs[at[k]]

LEMMA KeptMore ==
  ASSUME NEW msgs \in Seq(Message), NEW i \in Nat, i < Len(msgs), NEW s, KeptOf(s, msgs, i)
  PROVE  KeptOf(s, msgs, i + 1) /\ KeptOf(Append(s, msgs[i + 1]), msgs, i + 1)
<1> DEFINE n == Len(s)
           m == msgs[i + 1]
           t == Append(s, m)
<1>1. s \in Seq(Message) /\ n \in Nat /\ i + 1 \in 1 .. Len(msgs) /\ m \in Message
  BY DEF KeptOf
<1>2. PICK at \in [1 .. n -> 1 .. i] :
        /\ \A k, l \in 1 .. n : at[k] = at[l] => k = l
        /\ \A k \in 1 .. n : s[k] = msgs[at[k]]
  BY DEF KeptOf
<1>3. at \in [1 .. n -> 1 .. i + 1] /\ \A k \in 1 .. n : at[k] \in 1 .. i
  BY <1>2
<1>4. KeptOf(s, msgs, i + 1)
  BY <1>1, <1>2, <1>3 DEF KeptOf
<1>5. t \in Seq(Message) /\ Len(t) = n + 1 /\ t[n + 1] = m /\ \A k \in 1 .. n : t[k] = s[k]
  BY <1>1, AppendProperties
<1> DEFINE up == [k \in 1 .. n + 1 |-> IF k <= n THEN at[k] ELSE i + 1]
<1>6. /\ up \in [1 .. n + 1 -> 1 .. i + 1] /\ up[n + 1] = i + 1
      /\ \A k \in 1 .. n : up[k] = at[k]
  BY <1>1, <1>3
<1>7. \A k, l \in 1 .. n + 1 : up[k] = up[l] => k = l
  <2> TAKE k, l \in 1 .. n + 1
  <2>1. (k \in 1 .. n \/ k = n + 1) /\ (l \in 1 .. n \/ l = n + 1)
    BY <1>1
  <2> HIDE DEF up
  <2>2. CASE k \in 1 .. n /\ l \in 1 .. n
    BY <1>2, <1>6, <2>2
  <2>3. CASE k = n + 1 /\ l \in 1 .. n
    <3>1. up[k] = i + 1 /\ up[l] \in 1 .. i
      BY <1>3, <1>6, <2>3
    <3> QED
      BY <3>1
  <2>4. CASE l = n + 1 /\ k \in 1 .. n
    <3>1. up[l] = i + 1 /\ up[k] \in 1 .. i
      BY <1>3, <1>6, <2>4
    <3> QED
      BY <3>1
  <2> QED
    BY <2>1, <2>2, <2>3, <2>4
<1> HIDE DEF up, t
<1>8. \A k \in 1 .. n + 1 : t[k] = msgs[up[k]]
  <2> TAKE k \in 1 .. n + 1
  <2>1. CASE k = n + 1
    BY <1>5, <1>6, <2>1
  <2>2. CASE k # n + 1
    <3>1. k \in 1 .. n
      BY <1>1, <2>2
    <3> QED
      BY <1>2, <1>5, <1>6, <3>1
  <2> QED
    BY <2>1, <2>2
<1>9. KeptOf(t, msgs, i + 1)
  BY <1>5, <1>6, <1>7, <1>8 DEF KeptOf
<1> QED
  BY <1>4, <1>9 DEF t

KeptStep(before, msgs, i) == IF msgs[i].callback THEN Append(before, msgs[i]) ELSE before

KeptUpTo(f, msgs, n) == f = [i \in 0 .. n |-> IF i = 0 THEN <<>> ELSE KeptStep(f[i - 1], msgs, i)]

LEMMA KeptExtends ==
  ASSUME NEW msgs, NEW n \in Nat, NEW f, KeptUpTo(f, msgs, n)
  PROVE  \E g : KeptUpTo(g, msgs, n + 1)
<1> DEFINE g == [i \in 0 .. n + 1 |-> IF i <= n THEN f[i] ELSE KeptStep(f[n], msgs, n + 1)]
<1>1. \A i \in 0 .. n : f[i] = IF i = 0 THEN <<>> ELSE KeptStep(f[i - 1], msgs, i)
  BY DEF KeptUpTo
<1>2. (\A i \in 0 .. n : g[i] = f[i]) /\ g[n + 1] = KeptStep(f[n], msgs, n + 1)
  OBVIOUS
<1>3. ASSUME NEW i \in 0 .. n + 1
      PROVE  g[i] = IF i = 0 THEN <<>> ELSE KeptStep(g[i - 1], msgs, i)
  <2> HIDE DEF g
  <2>1. CASE i = n + 1
    <3>1. i # 0 /\ i - 1 = n /\ n \in 0 .. n
      BY <2>1
    <3> QED
      BY <1>2, <2>1, <3>1
  <2>2. CASE i # n + 1
    <3>1. i \in 0 .. n /\ (i # 0 => i - 1 \in 0 .. n)
      BY <2>2
    <3> QED
      BY <1>1, <1>2, <3>1
  <2> QED
    BY <2>1, <2>2
<1> DEFINE h == [i \in 0 .. n + 1 |-> IF i = 0 THEN <<>> ELSE KeptStep(g[i - 1], msgs, i)]
<1>4. g = h
  <2>1. DOMAIN g = 0 .. n + 1 /\ DOMAIN h = 0 .. n + 1
    OBVIOUS
  <2>2. \A i \in 0 .. n + 1 : g[i] = h[i]
    BY <1>3
  <2>3. g = [i \in 0 .. n + 1 |-> g[i]]
    OBVIOUS
  <2> QED
    BY <2>2, <2>3
<1>5. KeptUpTo(g, msgs, n + 1)
  BY <1>4 DEF KeptUpTo
<1> QED
  BY <1>5

LEMMA KeptExists ==
  ASSUME NEW msgs, NEW n \in Nat
  PROVE  \E f : KeptUpTo(f, msgs, n)
<1> DEFINE Wrong == {i \in Nat : ~ \E f : KeptUpTo(f, msgs, i)}
<1>1. SUFFICES ASSUME Wrong # {} PROVE FALSE
  OBVIOUS
<1> DEFINE R == OpToRel(<, Nat)
<1>2. PICK k \in Wrong : \A j \in Wrong : <<j, k>> \notin R
  BY <1>1, NatLessThanWellFounded, WFMin
<1>3. k \in Nat /\ ~ \E f : KeptUpTo(f, msgs, k)
  OBVIOUS
<1>4. k # 0
  <2> DEFINE f == [i \in 0 .. 0 |-> <<>>]
  <2>1. KeptUpTo(f, msgs, 0)
    <3>1. f = [i \in 0 .. 0 |-> IF i = 0 THEN <<>> ELSE KeptStep(f[i - 1], msgs, i)]
      OBVIOUS
    <3> QED
      BY <3>1 DEF KeptUpTo
  <2> QED
    BY <1>3, <2>1
<1>5. k - 1 \in Nat /\ (k - 1) + 1 = k
  BY <1>3, <1>4
<1>6. \E f : KeptUpTo(f, msgs, k - 1)
  <2>1. <<k - 1, k>> \in R
    BY <1>3, <1>5 DEF OpToRel
  <2>2. k - 1 \notin Wrong
    BY <1>2, <2>1
  <2> QED
    BY <1>5, <2>2
<1>7. \E f : KeptUpTo(f, msgs, (k - 1) + 1)
  BY <1>5, <1>6, KeptExtends
<1> QED
  BY <1>3, <1>5, <1>7

LEMMA WantedIs ==
  ASSUME NEW msgs \in Seq(Message)
  PROVE  KeptOf(Wanted(msgs), msgs, Len(msgs))
<1> DEFINE n == Len(msgs)
           u == CHOOSE f : KeptUpTo(f, msgs, n)
<1>1. n \in Nat
  OBVIOUS
<1>2. KeptUpTo(u, msgs, n)
  BY <1>1, KeptExists
<1>3. Wanted(msgs) = u[n]
  BY DEF Wanted, KeptUpTo, KeptStep
<1> HIDE DEF u
<1>4. \A i \in 0 .. n : u[i] = IF i = 0 THEN <<>> ELSE KeptStep(u[i - 1], msgs, i)
  BY <1>2 DEF KeptUpTo
<1> HIDE DEF n
<1>5. \A i \in 0 .. n : KeptOf(u[i], msgs, i)
  <2> DEFINE Wrong == {i \in 0 .. n : ~KeptOf(u[i], msgs, i)}
  <2>1. SUFFICES ASSUME Wrong # {} PROVE FALSE
    OBVIOUS
  <2> DEFINE R == OpToRel(<, Nat)
  <2>2. Wrong \subseteq Nat
    BY <1>1
  <2>3. PICK k \in Wrong : \A j \in Wrong : <<j, k>> \notin R
    BY <2>1, <2>2, NatLessThanWellFounded, WFMin
  <2>4. k \in 0 .. n /\ ~KeptOf(u[k], msgs, k)
    OBVIOUS
  <2>5. k # 0
    <3>1. SUFFICES ASSUME k = 0 PROVE FALSE
      OBVIOUS
    <3>2. u[0] = <<>>
      BY <1>1, <1>4
    <3>3. <<>> \in Seq(Message) /\ Len(<<>>) = 0 /\ 1 .. 0 = {}
      BY EmptySeq
    <3>4. [x \in 1 .. 0 |-> x] \in [1 .. 0 -> 1 .. 0]
      OBVIOUS
    <3>5. KeptOf(<<>>, msgs, 0)
      BY <3>3, <3>4 DEF KeptOf
    <3> QED
      BY <2>4, <3>1, <3>2, <3>5
  <2>6. k - 1 \in 0 .. n /\ k - 1 \in Nat /\ (k - 1) + 1 = k /\ k - 1 < n
    BY <1>1, <2>4, <2>5
  <2>7. KeptOf(u[k - 1], msgs, k - 1)
    <3>1. <<k - 1, k>> \in R
      BY <2>4, <2>6 DEF OpToRel
    <3>2. k - 1 \notin Wrong
      BY <2>3, <3>1
    <3> QED
      BY <2>6, <3>2
  <2>8. KeptOf(u[k - 1], msgs, k) /\ KeptOf(Append(u[k - 1], msgs[k]), msgs, k)
    <3>1. \A i \in Nat : i < Len(msgs) => \A s : KeptOf(s, msgs, i) =>
            KeptOf(s, msgs, i + 1) /\ KeptOf(Append(s, msgs[i + 1]), msgs, i + 1)
      BY KeptMore
    <3>2. k - 1 < Len(msgs)
      BY <2>6 DEF n
    <3>3. KeptOf(u[k - 1], msgs, (k - 1) + 1) /\ KeptOf(Append(u[k - 1], msgs[(k - 1) + 1]), msgs, (k - 1) + 1)
      BY <2>6, <2>7, <3>1, <3>2
    <3> QED
      BY <2>6, <3>3
  <2>9. u[k] = KeptStep(u[k - 1], msgs, k)
    BY <1>4, <2>4, <2>5
  <2> QED
    BY <2>4, <2>8, <2>9 DEF KeptStep
<1> QED
  BY <1>1, <1>3, <1>5 DEF n

Report == [msg : Message, ok : BOOLEAN]

(* Lists of messages of writer w, k of all were sent so far. *)
KnownTo(w, s, k) == s \in Seq(Message) /\ \A i \in 1 .. Len(s) : s[i].from = w /\ s[i].n \in 1 .. k
Distinct(s) == \A i, j \in 1 .. Len(s) : i # j => s[i].n # s[j].n
Apart(s, t) == \A i \in 1 .. Len(s), j \in 1 .. Len(t) : s[i].n # t[j].n
In(s, C) == \A i \in 1 .. Len(s) : s[i] \in C
Out(s, C) == \A i \in 1 .. Len(s) : s[i] \notin C

(* The same of the reports made. *)
Reported(w, r, k) == r \in Seq(Report) /\ \A i \in 1 .. Len(r) : r[i].msg.from = w /\ r[i].msg.n \in 1 .. k
ReportedOnce(r) == \A i, j \in 1 .. Len(r) : i # j => r[i].msg.n # r[j].msg.n
NotIn(r, s) == \A i \in 1 .. Len(r), j \in 1 .. Len(s) : r[i].msg.n # s[j].n
Truth(r, C) == \A i \in 1 .. Len(r) : r[i].ok <=> r[i].msg \in C

(* A writer's messages are pending (p), done (d), failed (f) or reported   *)
(* (r), and only one of these; C are the ones that are complete.           *)
Ledger(w, p, d, f, r, C, k) ==
  /\ KnownTo(w, p, k) /\ KnownTo(w, d, k) /\ KnownTo(w, f, k) /\ Reported(w, r, k)
  /\ Distinct(p) /\ Distinct(d) /\ Distinct(f) /\ ReportedOnce(r)
  /\ Apart(p, d) /\ Apart(p, f) /\ Apart(d, f)
  /\ NotIn(r, p) /\ NotIn(r, d) /\ NotIn(r, f)
  /\ In(d, C) /\ Out(p, C) /\ Out(f, C) /\ Truth(r, C)

(* The calls for a list: one for each message that has a callback. *)
CallsFor(o, s, ok) ==
  /\ o \in Seq(Report)
  /\ \E at \in [1 .. Len(o) -> 1 .. Len(s)] :
       /\ \A i, j \in 1 .. Len(o) : at[i] = at[j] => i = j
       /\ \A i \in 1 .. Len(o) : o[i].msg = s[at[i]] /\ o[i].ok = ok

LEMMA CallsAre ==
  ASSUME NEW s \in Seq(Message), NEW ok \in BOOLEAN
  PROVE  CallsFor(Callbacks(Wanted(s), ok), s, ok)
<1> DEFINE t == Wanted(s)
           o == Callbacks(t, ok)
<1>1. t \in Seq(Message)
  BY WantedIs DEF KeptOf
<1>2. PICK at \in [1 .. Len(t) -> 1 .. Len(s)] :
        /\ \A k, l \in 1 .. Len(t) : at[k] = at[l] => k = l
        /\ \A k \in 1 .. Len(t) : t[k] = s[at[k]]
  BY WantedIs DEF KeptOf
<1> HIDE DEF t
<1>3. o = [i \in 1 .. Len(t) |-> [msg |-> t[i], ok |-> ok]] /\ Len(t) \in Nat
  BY <1>1 DEF Callbacks
<1>4. \A i \in 1 .. Len(t) : [msg |-> t[i], ok |-> ok] \in Report
  BY <1>1 DEF Report
<1>5. o \in Seq(Report) /\ Len(o) = Len(t)
  BY <1>3, <1>4, IsASeq
<1>6. \A i \in 1 .. Len(o) : o[i].msg = t[i] /\ o[i].ok = ok
  BY <1>3, <1>5
<1> HIDE DEF o
<1> QED
  BY <1>2, <1>5, <1>6 DEF CallsFor, o, t

Good(w, r, k, C) == Reported(w, r, k) /\ ReportedOnce(r) /\ Truth(r, C)

(* What the reports of o, or of r after o, are about. *)
About(o, s) == \A i \in 1 .. Len(o) : \E j \in 1 .. Len(s) : o[i].msg = s[j]
Never(r, o) == \A i \in 1 .. Len(r), j \in 1 .. Len(o) : r[i].msg.n # o[j].msg.n
Either(c, r, o) ==
  \A i \in 1 .. Len(c) : (\E j \in 1 .. Len(r) : c[i] = r[j]) \/ (\E j \in 1 .. Len(o) : c[i] = o[j])

(* One list of reports after another. *)
LEMMA ReportsConcat ==
  ASSUME NEW w, NEW k \in Nat, NEW C, NEW r, NEW o,
         Good(w, r, k, C), Good(w, o, k, C), Never(r, o)
  PROVE  Good(w, r \o o, k, C) /\ Either(r \o o, r, o)
<1> USE DEF Good, Never
<1> DEFINE c == r \o o
           m == Len(r)
           n == Len(o)
<1>1. r \in Seq(Report) /\ o \in Seq(Report) /\ m \in Nat /\ n \in Nat
  BY DEF Reported
<1>2. /\ c \in Seq(Report) /\ Len(c) = m + n
      /\ \A i \in 1 .. m : c[i] = r[i]
      /\ \A i \in m + 1 .. m + n : c[i] = o[i - m]
  <2>1. c \in Seq(Report) /\ Len(c) = m + n
    BY <1>1, ConcatProperties
  <2>2. \A i \in 1 .. m + n : c[i] = IF i <= m THEN r[i] ELSE o[i - m]
    BY <1>1, ConcatProperties
  <2> HIDE DEF c, m, n
  <2>3. ASSUME NEW i \in 1 .. m PROVE c[i] = r[i]
    <3>1. i \in 1 .. m + n /\ i <= m
      BY <1>1
    <3> QED
      BY <2>2, <3>1
  <2>4. ASSUME NEW i \in m + 1 .. m + n PROVE c[i] = o[i - m]
    <3>1. i \in 1 .. m + n /\ ~(i <= m)
      BY <1>1
    <3> QED
      BY <2>2, <3>1
  <2> QED
    BY <2>1, <2>3, <2>4
<1> HIDE DEF c
<1>3. \A i \in 1 .. m + n : i \in 1 .. m \/ (i \in m + 1 .. m + n /\ i - m \in 1 .. n)
  BY <1>1
<1>4. \A i \in 1 .. m + n : (i \in 1 .. m /\ c[i] = r[i]) \/ (i \notin 1 .. m /\ i - m \in 1 .. n /\ c[i] = o[i - m])
  BY <1>1, <1>2, <1>3
<1> HIDE DEF m, n
<1>5. Reported(w, c, k)
  <2>1. \A i \in 1 .. m : r[i].msg.from = w /\ r[i].msg.n \in 1 .. k
    BY DEF Reported, m
  <2>2. \A i \in 1 .. n : o[i].msg.from = w /\ o[i].msg.n \in 1 .. k
    BY DEF Reported, n
  <2>3. \A i \in 1 .. m + n : c[i].msg.from = w /\ c[i].msg.n \in 1 .. k
    BY <1>4, <2>1, <2>2
  <2> QED
    BY <1>2, <2>3 DEF Reported
<1>6. Truth(c, C)
  <2>1. \A i \in 1 .. m + n : c[i].ok <=> c[i].msg \in C
    <3> TAKE i \in 1 .. m + n
    <3>1. CASE i \in 1 .. m /\ c[i] = r[i]
      BY <3>1 DEF Truth, m
    <3>2. CASE i - m \in 1 .. n /\ c[i] = o[i - m]
      BY <3>2 DEF Truth, n
    <3> QED
      BY <1>4, <3>1, <3>2
  <2> QED
    BY <1>2, <2>1 DEF Truth
<1>7. ReportedOnce(c)
  <2> SUFFICES ASSUME NEW i \in 1 .. m + n, NEW j \in 1 .. m + n, i # j PROVE c[i].msg.n # c[j].msg.n
    BY <1>2 DEF ReportedOnce
  <2>1. CASE i \in 1 .. m /\ j \in 1 .. m
    BY <1>4, <2>1 DEF ReportedOnce, m
  <2>2. CASE i \notin 1 .. m /\ j \notin 1 .. m
    <3>1. i - m \in 1 .. n /\ j - m \in 1 .. n /\ i - m # j - m
      BY <1>1, <1>4, <2>2
    <3>2. o[i - m].msg.n # o[j - m].msg.n
      BY <3>1 DEF ReportedOnce, n
    <3> QED
      BY <1>4, <2>2, <3>2
  <2>3. CASE i \in 1 .. m /\ j \notin 1 .. m
    <3>1. j - m \in 1 .. n /\ c[i] = r[i] /\ c[j] = o[j - m]
      BY <1>4, <2>3
    <3> QED
      BY <2>3, <3>1 DEF m, n
  <2>4. CASE i \notin 1 .. m /\ j \in 1 .. m
    <3>1. i - m \in 1 .. n /\ c[j] = r[j] /\ c[i] = o[i - m]
      BY <1>4, <2>4
    <3> QED
      BY <2>4, <3>1 DEF m, n
  <2> QED
    BY <2>1, <2>2, <2>3, <2>4
<1>8. \A i \in 1 .. m + n : (\E j \in 1 .. m : c[i] = r[j]) \/ (\E j \in 1 .. n : c[i] = o[j])
  BY <1>4
<1> QED
  BY <1>2, <1>5, <1>6, <1>7, <1>8 DEF Either, c, m, n

LEMMA CallsReport ==
  ASSUME NEW w, NEW k \in Nat, NEW C, NEW s, KnownTo(w, s, k), Distinct(s), NEW ok \in BOOLEAN,
         (ok = TRUE /\ In(s, C)) \/ (ok = FALSE /\ Out(s, C)), NEW o, CallsFor(o, s, ok)
  PROVE  Good(w, o, k, C) /\ About(o, s)
<1>1. PICK at \in [1 .. Len(o) -> 1 .. Len(s)] :
        /\ \A i, j \in 1 .. Len(o) : at[i] = at[j] => i = j
        /\ \A i \in 1 .. Len(o) : o[i].msg = s[at[i]] /\ o[i].ok = ok
  BY DEF CallsFor
<1>2. \A i \in 1 .. Len(o) : at[i] \in 1 .. Len(s)
  BY <1>1
<1>3. Reported(w, o, k)
  BY <1>1, <1>2 DEF CallsFor, Reported, KnownTo
<1>4. ReportedOnce(o)
  BY <1>1, <1>2 DEF ReportedOnce, Distinct
<1>5. Truth(o, C)
  <2> SUFFICES ASSUME NEW i \in 1 .. Len(o) PROVE o[i].ok <=> o[i].msg \in C
    BY DEF Truth
  <2>1. CASE ok = TRUE /\ In(s, C)
    BY <1>1, <1>2, <2>1 DEF In
  <2>2. CASE ok = FALSE /\ Out(s, C)
    BY <1>1, <1>2, <2>2 DEF Out
  <2> QED
    BY <2>1, <2>2
<1> QED
  BY <1>1, <1>2, <1>3, <1>4, <1>5 DEF Good, About

(* Build: what is done and what failed is reported. *)
LEMMA LedgerReports ==
  ASSUME NEW w, NEW k \in Nat, NEW C, NEW p, NEW d, NEW f, NEW r, Ledger(w, p, d, f, r, C, k)
  PROVE  Ledger(w, p, <<>>, <<>>, r \o Outcomes(d, f), C, k)
<1> DEFINE a == Callbacks(Wanted(d), TRUE)
           b == Callbacks(Wanted(f), FALSE)
           o == a \o b
<1>0. /\ KnownTo(w, d, k) /\ KnownTo(w, f, k) /\ Reported(w, r, k)
      /\ Distinct(d) /\ Distinct(f) /\ ReportedOnce(r)
      /\ Apart(d, f) /\ NotIn(r, d) /\ NotIn(r, f) /\ In(d, C) /\ Out(f, C) /\ Truth(r, C)
  BY DEF Ledger
<1>00. KnownTo(w, p, k) /\ Distinct(p) /\ Apart(p, d) /\ Apart(p, f) /\ NotIn(r, p) /\ Out(p, C)
  BY DEF Ledger
<1>1. CallsFor(a, d, TRUE) /\ CallsFor(b, f, FALSE)
  BY <1>0, CallsAre DEF KnownTo
<1>2. Outcomes(d, f) = o
  BY DEF Outcomes
<1> HIDE DEF a, b
<1>3. Good(w, a, k, C) /\ About(a, d)
  BY <1>0, <1>1, CallsReport
<1>4. Good(w, b, k, C) /\ About(b, f)
  BY <1>0, <1>1, CallsReport
<1>5. Never(a, b)
  BY <1>0, <1>3, <1>4 DEF Apart, About, Never
<1>6. Good(w, o, k, C) /\ Either(o, a, b)
  BY <1>3, <1>4, <1>5, ReportsConcat
<1> HIDE DEF o
<1>7. \A i \in 1 .. Len(o) : (\E j \in 1 .. Len(d) : o[i].msg = d[j]) \/ (\E j \in 1 .. Len(f) : o[i].msg = f[j])
  <2> TAKE i \in 1 .. Len(o)
  <2>1. CASE \E l \in 1 .. Len(a) : o[i] = a[l]
    BY <1>3, <2>1 DEF About
  <2>2. CASE \E l \in 1 .. Len(b) : o[i] = b[l]
    BY <1>4, <2>2 DEF About
  <2> QED
    BY <1>6, <2>1, <2>2 DEF Either
<1>8. Never(r, o) /\ Good(w, r, k, C)
  BY <1>0, <1>7 DEF NotIn, Never, Good
<1> DEFINE c == r \o o
<1>9. Good(w, c, k, C) /\ Either(c, r, o)
  BY <1>6, <1>8, ReportsConcat
<1> HIDE DEF c
<1>10. NotIn(c, p)
  <2> SUFFICES ASSUME NEW i \in 1 .. Len(c), NEW j \in 1 .. Len(p) PROVE c[i].msg.n # p[j].n
    BY DEF NotIn
  <2>1. CASE \E l \in 1 .. Len(r) : c[i] = r[l]
    BY <1>00, <2>1 DEF NotIn
  <2>2. CASE \E l \in 1 .. Len(o) : c[i] = o[l]
    <3>1. (\E l \in 1 .. Len(d) : c[i].msg = d[l]) \/ (\E l \in 1 .. Len(f) : c[i].msg = f[l])
      BY <1>7, <2>2
    <3> QED
      BY <1>00, <3>1 DEF Apart
  <2> QED
    BY <1>9, <2>1, <2>2 DEF Either
<1>11. <<>> \in Seq(Message) /\ 1 .. Len(<<>>) = {}
  BY EmptySeq
<1>12. /\ KnownTo(w, <<>>, k) /\ Distinct(<<>>) /\ Apart(p, <<>>) /\ Apart(<<>>, <<>>)
       /\ NotIn(c, <<>>) /\ In(<<>>, C) /\ Out(<<>>, C)
  BY <1>11 DEF KnownTo, Distinct, Apart, NotIn, In, Out
<1>13. Ledger(w, p, <<>>, <<>>, c, C, k)
  BY <1>00, <1>9, <1>10, <1>12 DEF Ledger, Good
<1> QED
  BY <1>2, <1>13 DEF c

(* RemoveOutboundQueue: what is pending fails. *)
LEMMA LedgerFails ==
  ASSUME NEW w, NEW k \in Nat, NEW C, NEW p, NEW d, NEW f, NEW r, Ledger(w, p, d, f, r, C, k)
  PROVE  Ledger(w, <<>>, d, f \o p, r, C, k)
<1> DEFINE c == f \o p
           m == Len(f)
           n == Len(p)
<1> USE DEF Ledger
<1>1. f \in Seq(Message) /\ p \in Seq(Message) /\ m \in Nat /\ n \in Nat
  BY DEF KnownTo
<1>2. c \in Seq(Message) /\ Len(c) = m + n /\ \A i \in 1 .. m + n : c[i] = IF i <= m THEN f[i] ELSE p[i - m]
  BY <1>1, ConcatProperties
<1> HIDE DEF c, m, n
<1>3. \A i \in 1 .. m + n : (i \in 1 .. m /\ c[i] = f[i]) \/ (i \notin 1 .. m /\ i - m \in 1 .. n /\ c[i] = p[i - m])
  <2> TAKE i \in 1 .. m + n
  <2>1. CASE i <= m
    BY <1>1, <1>2, <2>1
  <2>2. CASE ~(i <= m)
    <3>1. i \notin 1 .. m /\ i - m \in 1 .. n
      BY <1>1, <2>2
    <3> QED
      BY <1>2, <2>2, <3>1
  <2> QED
    BY <2>1, <2>2
<1>4. \A i \in 1 .. Len(c) : (\E j \in 1 .. Len(f) : c[i] = f[j]) \/ (\E j \in 1 .. Len(p) : c[i] = p[j])
  BY <1>2, <1>3 DEF m, n
<1>5. KnownTo(w, c, k) /\ Out(c, C)
  BY <1>2, <1>4 DEF KnownTo, Out
<1>6. NotIn(r, c) /\ Apart(d, c)
  <2>1. NotIn(r, f) /\ NotIn(r, p) /\ Apart(d, f) /\ Apart(p, d)
    OBVIOUS
  <2>2. NotIn(r, c)
    BY <1>4, <2>1 DEF NotIn
  <2>3. Apart(d, c)
    BY <1>4, <2>1 DEF Apart
  <2> QED
    BY <2>2, <2>3
<1>7. Distinct(c)
  <2> SUFFICES ASSUME NEW i \in 1 .. m + n, NEW j \in 1 .. m + n, i # j PROVE c[i].n # c[j].n
    BY <1>2 DEF Distinct
  <2>1. CASE i \in 1 .. m /\ j \in 1 .. m
    BY <1>3, <2>1 DEF Distinct, m
  <2>2. CASE i \notin 1 .. m /\ j \notin 1 .. m
    <3>1. i - m \in 1 .. n /\ j - m \in 1 .. n /\ i - m # j - m
      BY <1>1, <1>3, <2>2
    <3>2. p[i - m].n # p[j - m].n
      BY <3>1 DEF Distinct, n
    <3> QED
      BY <1>3, <2>2, <3>2
  <2>3. CASE i \in 1 .. m /\ j \notin 1 .. m
    <3>1. j - m \in 1 .. n /\ c[i] = f[i] /\ c[j] = p[j - m]
      BY <1>3, <2>3
    <3> QED
      BY <2>3, <3>1 DEF Apart, m, n
  <2>4. CASE i \notin 1 .. m /\ j \in 1 .. m
    <3>1. i - m \in 1 .. n /\ c[j] = f[j] /\ c[i] = p[i - m]
      BY <1>3, <2>4
    <3> QED
      BY <2>4, <3>1 DEF Apart, m, n
  <2> QED
    BY <2>1, <2>2, <2>3, <2>4
<1>8. <<>> \in Seq(Message) /\ 1 .. Len(<<>>) = {}
  BY EmptySeq
<1>9. /\ KnownTo(w, <<>>, k) /\ Distinct(<<>>) /\ Apart(<<>>, d) /\ Apart(<<>>, c)
      /\ NotIn(r, <<>>) /\ Out(<<>>, C)
  BY <1>8 DEF KnownTo, Distinct, Apart, NotIn, In, Out
<1>10. Ledger(w, <<>>, d, c, r, C, k)
  BY <1>5, <1>6, <1>7, <1>9
<1> QED
  BY <1>10 DEF c

(* A writer's end: nothing more is reported. *)
LEMMA LedgerEnds ==
  ASSUME NEW w, NEW k \in Nat, NEW C, NEW p, NEW d, NEW f, NEW r, Ledger(w, p, d, f, r, C, k)
  PROVE  Ledger(w, <<>>, <<>>, <<>>, r, C, k)
<1>1. <<>> \in Seq(Message) /\ 1 .. Len(<<>>) = {}
  BY EmptySeq
<1> QED
  BY <1>1 DEF Ledger, KnownTo, Distinct, Apart, NotIn, In, Out

(* The lists do not depend on how many messages were sent since. *)
LEMMA LedgerLater ==
  ASSUME NEW w, NEW k \in Nat, NEW C, NEW p, NEW d, NEW f, NEW r, Ledger(w, p, d, f, r, C, k)
  PROVE  Ledger(w, p, d, f, r, C, k + 1)
<1>1. \A x : x \in 1 .. k => x \in 1 .. k + 1
  OBVIOUS
<1> QED
  BY <1>1 DEF Ledger, KnownTo, Reported

(* A list with a message more. *)
LEMMA ListAppends ==
  ASSUME NEW s \in Seq(Message), NEW m \in Message
  PROVE  /\ Append(s, m) \in Seq(Message) /\ Len(s) \in Nat /\ Len(Append(s, m)) = Len(s) + 1
         /\ \A i \in 1 .. Len(s) : Append(s, m)[i] = s[i]
         /\ Append(s, m)[Len(s) + 1] = m
         /\ \A i \in 1 .. Len(s) + 1 : i \in 1 .. Len(s) \/ i = Len(s) + 1
  BY AppendProperties

NewList(w, k, C, s, m, t) ==
  /\ KnownTo(w, t, k + 1) /\ Distinct(t) /\ Out(t, C)
  /\ \A i \in 1 .. Len(t) : (\E j \in 1 .. Len(s) : t[i] = s[j]) \/ t[i] = m

LEMMA NewIsKnown ==
  ASSUME NEW w, NEW k \in Nat, NEW C, NEW s, KnownTo(w, s, k), Distinct(s), Out(s, C),
         NEW m \in Message, m.n = k + 1, m.from = w, m \notin C
  PROVE  NewList(w, k, C, s, m, Append(s, m))
<1> DEFINE t == Append(s, m)
           n == Len(s)
<1>1. s \in Seq(Message) /\ \A i \in 1 .. n : s[i].from = w /\ s[i].n \in 1 .. k
  BY DEF KnownTo
<1>2. /\ t \in Seq(Message) /\ n \in Nat /\ Len(t) = n + 1
      /\ \A i \in 1 .. n : t[i] = s[i]
      /\ t[n + 1] = m
      /\ \A i \in 1 .. n + 1 : i \in 1 .. n \/ i = n + 1
  BY <1>1, ListAppends
<1> HIDE DEF t, n
<1>3. \A i \in 1 .. n : t[i].n # m.n
  <2> TAKE i \in 1 .. n
  <2>1. t[i].n \in 1 .. k
    BY <1>1, <1>2
  <2> QED
    BY <2>1
<1>4. KnownTo(w, t, k + 1)
  <2> SUFFICES ASSUME NEW i \in 1 .. n + 1 PROVE t[i].from = w /\ t[i].n \in 1 .. k + 1
    BY <1>2 DEF KnownTo
  <2>1. CASE i \in 1 .. n
    <3>1. t[i].from = w /\ t[i].n \in 1 .. k
      BY <1>1, <1>2, <2>1
    <3> QED
      BY <3>1
  <2>2. CASE i = n + 1
    BY <1>2, <2>2
  <2> QED
    BY <1>2, <2>1, <2>2
<1>5. Distinct(t)
  <2> SUFFICES ASSUME NEW i \in 1 .. n + 1, NEW j \in 1 .. n + 1, i # j PROVE t[i].n # t[j].n
    BY <1>2 DEF Distinct
  <2>1. CASE i \in 1 .. n /\ j \in 1 .. n
    BY <1>2, <2>1 DEF Distinct, n
  <2>2. CASE i \in 1 .. n /\ j = n + 1
    BY <1>2, <1>3, <2>2
  <2>3. CASE i = n + 1 /\ j \in 1 .. n
    BY <1>2, <1>3, <2>3
  <2> QED
    BY <1>2, <2>1, <2>2, <2>3
<1>6. Out(t, C)
  <2> SUFFICES ASSUME NEW i \in 1 .. n + 1 PROVE t[i] \notin C
    BY <1>2 DEF Out
  <2>1. CASE i \in 1 .. n
    BY <1>2, <2>1 DEF Out, n
  <2>2. CASE i = n + 1
    BY <1>2, <2>2
  <2> QED
    BY <1>2, <2>1, <2>2
<1>7. \A i \in 1 .. n + 1 : (\E j \in 1 .. n : t[i] = s[j]) \/ t[i] = m
  BY <1>2
<1> QED
  BY <1>2, <1>4, <1>5, <1>6, <1>7 DEF NewList, t, n

(* SendWithCompletion, SendToAll: a new message is pending, or failed. *)
LEMMA LedgerSends ==
  ASSUME NEW w, NEW k \in Nat, NEW C, NEW p, NEW d, NEW f, NEW r, Ledger(w, p, d, f, r, C, k),
         NEW m \in Message, m.n = k + 1, m.from = w, m \notin C
  PROVE  Ledger(w, Append(p, m), d, f, r, C, k + 1) /\ Ledger(w, p, d, Append(f, m), r, C, k + 1)
<1>1. Ledger(w, p, d, f, r, C, k + 1)
  BY LedgerLater
<1>2. KnownTo(w, p, k) /\ KnownTo(w, d, k) /\ KnownTo(w, f, k) /\ Reported(w, r, k)
  BY DEF Ledger
<1>3. /\ \A i \in 1 .. Len(p) : p[i].n # m.n
      /\ \A i \in 1 .. Len(d) : d[i].n # m.n
      /\ \A i \in 1 .. Len(f) : f[i].n # m.n
      /\ \A i \in 1 .. Len(r) : r[i].msg.n # m.n
  <2>1. \A x \in 1 .. k : x # m.n
    OBVIOUS
  <2> QED
    BY <1>2, <2>1 DEF KnownTo, Reported
<1>4. Ledger(w, Append(p, m), d, f, r, C, k + 1)
  <2> DEFINE t == Append(p, m)
  <2>0. Distinct(p) /\ Out(p, C)
    BY DEF Ledger
  <2>1. NewList(w, k, C, p, m, t)
    BY <1>2, <2>0, NewIsKnown
  <2> HIDE DEF t
  <2>2. Apart(t, d) /\ Apart(t, f) /\ NotIn(r, t)
    BY <1>3, <2>1 DEF Ledger, Apart, NotIn, NewList
  <2>3. Ledger(w, t, d, f, r, C, k + 1)
    BY <1>1, <2>1, <2>2 DEF Ledger, NewList
  <2> QED
    BY <2>3 DEF t
<1>5. Ledger(w, p, d, Append(f, m), r, C, k + 1)
  <2> DEFINE t == Append(f, m)
  <2>0. Distinct(f) /\ Out(f, C)
    BY DEF Ledger
  <2>1. NewList(w, k, C, f, m, t)
    BY <1>2, <2>0, NewIsKnown
  <2> HIDE DEF t
  <2>2. Apart(p, t) /\ Apart(d, t) /\ NotIn(r, t)
    BY <1>3, <2>1 DEF Ledger, Apart, NotIn, NewList
  <2>3. Ledger(w, p, d, t, r, C, k + 1)
    BY <1>1, <2>1, <2>2 DEF Ledger, NewList
  <2> QED
    BY <2>3 DEF t
<1> QED
  BY <1>4, <1>5

(* WriteOnePacket: the first pending message is complete. *)
LEMMA LedgerCompletes ==
  ASSUME NEW w, NEW k \in Nat, NEW C, NEW p, NEW d, NEW f, NEW r, Ledger(w, p, d, f, r, C, k), p # <<>>
  PROVE  Ledger(w, Tail(p), Append(d, Head(p)), f, r, C \cup {Head(p)}, k)
<1> DEFINE h == Head(p)
           q == Tail(p)
           e == Append(d, h)
           n == Len(d)
<1> USE DEF Ledger
<1>1. p \in Seq(Message) /\ d \in Seq(Message) /\ \A i \in 1 .. Len(p) : p[i].from = w /\ p[i].n \in 1 .. k
  BY DEF KnownTo
<1>2. /\ h = p[1] /\ q \in Seq(Message) /\ Len(q) = Len(p) - 1 /\ Len(p) \in Nat /\ Len(p) > 0
      /\ \A i \in 1 .. Len(q) : q[i] = p[i + 1]
  BY <1>1, HeadTailProperties
<1>3. h \in Message /\ 1 \in 1 .. Len(p)
  BY <1>1, <1>2
<1>4. /\ e \in Seq(Message) /\ n \in Nat /\ Len(e) = n + 1
      /\ \A i \in 1 .. n : e[i] = d[i]
      /\ e[n + 1] = h
      /\ \A i \in 1 .. n + 1 : i \in 1 .. n \/ i = n + 1
  BY <1>1, <1>3, ListAppends
<1>5. \A i \in 1 .. Len(q) : i + 1 \in 1 .. Len(p) /\ i + 1 # 1 /\ q[i] = p[i + 1]
  BY <1>2
<1> HIDE DEF h, q, e
<1>6. \A i \in 1 .. Len(q) : q[i].n # h.n /\ \E j \in 1 .. Len(p) : q[i] = p[j]
  BY <1>2, <1>3, <1>5 DEF Distinct
<1>7. KnownTo(w, q, k) /\ Distinct(q) /\ Out(q, C \cup {h}) /\ Apart(q, f) /\ NotIn(r, q)
  <2>1. KnownTo(w, q, k)
    BY <1>1, <1>2, <1>5 DEF KnownTo
  <2>2. Distinct(q)
    <3> SUFFICES ASSUME NEW i \in 1 .. Len(q), NEW j \in 1 .. Len(q), i # j PROVE q[i].n # q[j].n
      BY DEF Distinct
    <3>1. i + 1 # j + 1 /\ i + 1 \in 1 .. Len(p) /\ j + 1 \in 1 .. Len(p)
      BY <1>5
    <3> QED
      BY <1>5, <3>1 DEF Distinct
  <2>3. Out(q, C \cup {h})
    BY <1>6 DEF Out
  <2>4. Apart(q, f) /\ NotIn(r, q)
    BY <1>6 DEF Apart, NotIn
  <2> QED
    BY <2>1, <2>2, <2>3, <2>4
<1>8. h.from = w /\ h.n \in 1 .. k
  BY <1>1, <1>2, <1>3
<1>9. /\ \A i \in 1 .. n : d[i].n # h.n
      /\ \A i \in 1 .. Len(f) : f[i].n # h.n
      /\ \A i \in 1 .. Len(r) : r[i].msg.n # h.n
  BY <1>2, <1>3 DEF Apart, NotIn
<1> HIDE DEF n
<1>10. \A i \in 1 .. n + 1 : (i \in 1 .. n /\ e[i] = d[i]) \/ (i = n + 1 /\ e[i] = h)
  BY <1>4
<1>11. KnownTo(w, e, k)
  BY <1>4, <1>8, <1>10 DEF KnownTo, n
<1>12. Distinct(e)
  <2> SUFFICES ASSUME NEW i \in 1 .. n + 1, NEW j \in 1 .. n + 1, i # j PROVE e[i].n # e[j].n
    BY <1>4 DEF Distinct
  <2>1. CASE i \in 1 .. n /\ j \in 1 .. n
    BY <1>4, <2>1 DEF Distinct, n
  <2>2. CASE i \in 1 .. n /\ j = n + 1
    BY <1>4, <1>9, <2>2
  <2>3. CASE i = n + 1 /\ j \in 1 .. n
    BY <1>4, <1>9, <2>3
  <2> QED
    BY <1>4, <2>1, <2>2, <2>3
<1>13. In(e, C \cup {h})
  BY <1>4, <1>10 DEF In, n
<1>14. \A i \in 1 .. n + 1 : (\E j \in 1 .. n : e[i] = d[j]) \/ e[i] = h
  BY <1>10
<1>15. Apart(q, e) /\ Apart(e, f) /\ NotIn(r, e)
  <2>1. Apart(q, e)
    BY <1>4, <1>6, <1>14 DEF Apart, n
  <2>2. Apart(e, f)
    BY <1>4, <1>9, <1>14 DEF Apart, n
  <2>3. NotIn(r, e)
    BY <1>4, <1>9, <1>14 DEF NotIn, n
  <2> QED
    BY <2>1, <2>2, <2>3
<1>16. Out(f, C \cup {h})
  BY <1>9 DEF Out
<1>17. Truth(r, C \cup {h})
  BY <1>9 DEF Truth
<1>18. Ledger(w, q, e, f, r, C \cup {h}, k)
  BY <1>7, <1>11, <1>12, <1>13, <1>15, <1>16, <1>17
<1> QED
  BY <1>18 DEF q, e, h

(* The messages of w whose last packet was written. *)
Complete(m, d, b) ==
  \/ \E i \in 1 .. Len(d) : d[i][1].msg = m
  \/ \E i \in 1 .. Len(b) : b[i].last /\ b[i].msg = m

OwnDone(w) == {m \in Message : m.from = w /\ Complete(m, ipc_delivered[w], ipc_buffer)}

Book(w) ==
  Ledger(w, ipc_queue[w].pending, ipc_outcome[w].done, ipc_outcome[w].failed, ipc_reports[w],
         OwnDone(w), Len(ipc_sent))

Books ==
  /\ ipc_outcome \in [Writer -> [done : Seq(Message), failed : Seq(Message)]]
  /\ ipc_reports \in [Writer -> Seq(Report)]
  /\ \A w \in Writer : Book(w)

ReportInv == ChannelInv /\ Books

(* A message that is just sent is not complete. *)
LEMMA NewIsNotDone ==
  ASSUME ChannelInv, NEW w \in Writer, NEW m \in Message, m.n = Len(ipc_sent) + 1
  PROVE  m \notin OwnDone(w)
<1> SUFFICES ASSUME m.from = w, Complete(m, ipc_delivered[w], ipc_buffer) PROVE FALSE
  BY DEF OwnDone
<1>1. OrderOf(w, ipc_delivered[w], ipc_buffer, ipc_queue[w].pending, Len(ipc_sent)) /\ Len(ipc_sent) \in Nat
  BY DEF ChannelInv, Ordered, SharedType
<1>2. \A i \in 1 .. Len(ipc_delivered[w]) : ipc_delivered[w][i][1].msg.n \in 1 .. Len(ipc_sent)
  BY <1>1 DEF OrderOf
<1>3. \A i \in 1 .. Len(ipc_buffer) : ipc_buffer[i].msg.from = w => ipc_buffer[i].msg.n \in 1 .. Len(ipc_sent)
  BY <1>1 DEF OrderOf
<1>4. m.n \in 1 .. Len(ipc_sent)
  BY <1>2, <1>3 DEF Complete
<1> QED
  BY <1>1, <1>4

LEMMA DoneSame ==
  ASSUME ipc_delivered' = ipc_delivered, ipc_buffer' = ipc_buffer, NEW v \in Writer
  PROVE  OwnDone(v)' = OwnDone(v)
  BY DEF OwnDone

LEMMA DoneWhenWriting ==
  ASSUME SharedType, NEW w \in Writer, NEW p \in Packet, p.msg.from = w,
         ipc_buffer' = Append(ipc_buffer, p), ipc_delivered' = ipc_delivered
  PROVE  /\ \A v \in Writer \ {w} : OwnDone(v)' = OwnDone(v)
         /\ OwnDone(w)' = IF p.last THEN OwnDone(w) \cup {p.msg} ELSE OwnDone(w)
<1> DEFINE n == Len(ipc_buffer)
<1>1. /\ n \in Nat /\ Len(ipc_buffer') = n + 1 /\ ipc_buffer'[n + 1] = p
      /\ \A i \in 1 .. n : ipc_buffer'[i] = ipc_buffer[i]
  BY AppendProperties DEF SharedType
<1>2. p.msg \in Message
  BY DEF Packet
<1>3. \A i \in 1 .. n + 1 : i \in 1 .. n \/ i = n + 1
  BY <1>1
<1>4. \A i \in 1 .. n : i \in 1 .. n + 1
  BY <1>1
<1>5. n + 1 \in 1 .. n + 1
  BY <1>1
<1> HIDE DEF n
<1>6. ASSUME NEW m, NEW d
      PROVE  Complete(m, d, ipc_buffer') <=> Complete(m, d, ipc_buffer) \/ (p.last /\ m = p.msg)
  <2>1. ASSUME Complete(m, d, ipc_buffer') PROVE Complete(m, d, ipc_buffer) \/ (p.last /\ m = p.msg)
    <3>1. CASE \E i \in 1 .. Len(d) : d[i][1].msg = m
      BY <3>1 DEF Complete
    <3>2. CASE \E i \in 1 .. n + 1 : ipc_buffer'[i].last /\ ipc_buffer'[i].msg = m
      <4>1. PICK i \in 1 .. n + 1 : ipc_buffer'[i].last /\ ipc_buffer'[i].msg = m
        BY <3>2
      <4>2. CASE i = n + 1
        BY <1>1, <4>1, <4>2
      <4>3. CASE i \in 1 .. n
        BY <1>1, <4>1, <4>3 DEF Complete, n
      <4> QED
        BY <1>3, <4>2, <4>3
    <3> QED
      BY <1>1, <2>1, <3>1, <3>2 DEF Complete
  <2>2. ASSUME Complete(m, d, ipc_buffer) PROVE Complete(m, d, ipc_buffer')
    <3>1. CASE \E i \in 1 .. Len(d) : d[i][1].msg = m
      BY <3>1 DEF Complete
    <3>2. CASE \E i \in 1 .. n : ipc_buffer[i].last /\ ipc_buffer[i].msg = m
      BY <1>1, <1>4, <3>2 DEF Complete
    <3> QED
      BY <2>2, <3>1, <3>2 DEF Complete, n
  <2>3. ASSUME p.last, m = p.msg PROVE Complete(m, d, ipc_buffer')
    BY <1>1, <1>5, <2>3 DEF Complete
  <2> QED
    BY <2>1, <2>2, <2>3
<1>7. \A v \in Writer : OwnDone(v)' = {m \in Message : m.from = v /\ Complete(m, ipc_delivered[v], ipc_buffer')}
  BY DEF OwnDone
<1>8. \A v \in Writer \ {w} : OwnDone(v)' = OwnDone(v)
  BY <1>6, <1>7 DEF OwnDone
<1>9. OwnDone(w)' = IF p.last THEN OwnDone(w) \cup {p.msg} ELSE OwnDone(w)
  <2>1. CASE p.last
    BY <1>2, <1>6, <1>7, <2>1 DEF OwnDone
  <2>2. CASE ~p.last
    BY <1>6, <1>7, <2>2 DEF OwnDone
  <2> QED
    BY <2>1, <2>2
<1> QED
  BY <1>8, <1>9

LEMMA DoneWhenReading ==
  ASSUME ChannelInv, ReadOnePacket, NEW v \in Writer
  PROVE  OwnDone(v)' = OwnDone(v)
<1> DEFINE n == Len(ipc_buffer)
<1>1. PICK p : p = Head(ipc_buffer)
  OBVIOUS
<1>2. PICK data : data = IF p.sequence = 0 THEN <<p>> ELSE Append(ipc_reader.data, p)
  OBVIOUS
<1>3. /\ ipc_buffer # <<>> /\ ipc_buffer' = Tail(ipc_buffer)
      /\ ipc_delivered' = IF p.last THEN [ipc_delivered EXCEPT ![p.msg.from] = Append(@, data)] ELSE ipc_delivered
  BY <1>1, <1>2 DEF ReadOnePacket
<1>4. /\ SharedType /\ Pieces /\ Gathered /\ Dispatched
      /\ ipc_buffer \in Seq(Packet) /\ ipc_delivered \in [Writer -> Seq(Seq(Packet))]
  BY DEF ChannelInv, SharedType
<1>5. Chain(data) /\ data[1].msg = p.msg
  BY <1>1, <1>2, <1>3, <1>4, GatheredData
<1>6. /\ p \in Packet /\ p = ipc_buffer[1] /\ n \in Nat /\ n > 0 /\ Len(ipc_buffer') = n - 1
      /\ \A i \in 1 .. n - 1 : ipc_buffer'[i] = ipc_buffer[i + 1]
  BY <1>1, <1>3, <1>4, HeadTailProperties
<1>7. p.msg \in Message /\ p.msg.from \in Writer
  BY <1>6 DEF Packet, Message
<1>8. data \in Seq(Packet)
  <2>1. ipc_reader.data \in Seq(Packet)
    BY <1>4 DEF SharedType
  <2> QED
    BY <1>2, <1>6, <2>1
<1> HIDE DEF n
<1>9. ASSUME NEW m \in Message, m.from = v
      PROVE  Complete(m, ipc_delivered'[v], ipc_buffer') <=> Complete(m, ipc_delivered[v], ipc_buffer)
  <2>1. ASSUME \E i \in 1 .. Len(ipc_buffer') : ipc_buffer'[i].last /\ ipc_buffer'[i].msg = m
        PROVE  \E i \in 1 .. n : ipc_buffer[i].last /\ ipc_buffer[i].msg = m
    <3>1. PICK i \in 1 .. n - 1 : ipc_buffer'[i].last /\ ipc_buffer'[i].msg = m
      BY <1>6, <2>1
    <3>2. i + 1 \in 1 .. n
      BY <1>6
    <3> QED
      BY <1>6, <3>1, <3>2
  <2>2. ASSUME NEW i \in 1 .. n, ipc_buffer[i].last, ipc_buffer[i].msg = m
        PROVE  i = 1 \/ \E j \in 1 .. Len(ipc_buffer') : ipc_buffer'[j].last /\ ipc_buffer'[j].msg = m
    <3>1. CASE i # 1
      <4>1. i - 1 \in 1 .. n - 1 /\ (i - 1) + 1 = i
        BY <1>6, <3>1
      <4>2. ipc_buffer'[i - 1] = ipc_buffer[i]
        BY <1>6, <4>1
      <4> QED
        BY <1>6, <2>2, <4>1, <4>2
    <3> QED
      BY <3>1
  <2>3. CASE p.last /\ p.msg.from = v
    <3> DEFINE d == ipc_delivered[v]
    <3>1. ipc_delivered'[v] = Append(d, data) /\ d \in Seq(Seq(Packet))
      BY <1>3, <1>4, <2>3
    <3>2. /\ Len(d) \in Nat /\ Len(ipc_delivered'[v]) = Len(d) + 1 /\ ipc_delivered'[v][Len(d) + 1] = data
          /\ \A i \in 1 .. Len(d) : ipc_delivered'[v][i] = d[i]
      BY <1>8, <3>1, AppendProperties
    <3>3. /\ \A i \in 1 .. Len(d) + 1 : i \in 1 .. Len(d) \/ i = Len(d) + 1
          /\ \A i \in 1 .. Len(d) : i \in 1 .. Len(d) + 1
          /\ Len(d) + 1 \in 1 .. Len(d) + 1
      BY <3>2
    <3> HIDE DEF d
    <3>4. (\E i \in 1 .. Len(ipc_delivered'[v]) : ipc_delivered'[v][i][1].msg = m) <=>
            (\E i \in 1 .. Len(d) : d[i][1].msg = m) \/ m = p.msg
      <4>1. ASSUME NEW i \in 1 .. Len(d) + 1, ipc_delivered'[v][i][1].msg = m
            PROVE  (\E j \in 1 .. Len(d) : d[j][1].msg = m) \/ m = p.msg
        <5>1. CASE i \in 1 .. Len(d)
          BY <3>2, <4>1, <5>1
        <5>2. CASE i = Len(d) + 1
          BY <1>5, <3>2, <4>1, <5>2
        <5> QED
          BY <3>3, <5>1, <5>2
      <4>2. ASSUME NEW i \in 1 .. Len(d), d[i][1].msg = m
            PROVE  \E j \in 1 .. Len(d) + 1 : ipc_delivered'[v][j][1].msg = m
        BY <3>2, <3>3, <4>2
      <4>3. ASSUME m = p.msg
            PROVE  \E j \in 1 .. Len(d) + 1 : ipc_delivered'[v][j][1].msg = m
        BY <1>5, <3>2, <3>3, <4>3
      <4> QED
        BY <3>2, <4>1, <4>2, <4>3
    <3>5. 1 \in 1 .. n /\ ipc_buffer[1].last /\ ipc_buffer[1].msg = p.msg
      BY <1>6, <2>3
    <3>6. ASSUME Complete(m, ipc_delivered'[v], ipc_buffer') PROVE Complete(m, d, ipc_buffer)
      <4>1. CASE \E i \in 1 .. Len(ipc_delivered'[v]) : ipc_delivered'[v][i][1].msg = m
        BY <3>4, <3>5, <4>1 DEF Complete, n
      <4>2. CASE \E i \in 1 .. Len(ipc_buffer') : ipc_buffer'[i].last /\ ipc_buffer'[i].msg = m
        BY <2>1, <4>2 DEF Complete, n
      <4> QED
        BY <3>6, <4>1, <4>2 DEF Complete
    <3>7. ASSUME Complete(m, d, ipc_buffer) PROVE Complete(m, ipc_delivered'[v], ipc_buffer')
      <4>1. CASE \E i \in 1 .. Len(d) : d[i][1].msg = m
        BY <3>4, <4>1 DEF Complete
      <4>2. CASE \E i \in 1 .. n : ipc_buffer[i].last /\ ipc_buffer[i].msg = m
        <5>1. PICK i \in 1 .. n : ipc_buffer[i].last /\ ipc_buffer[i].msg = m
          BY <4>2
        <5>2. CASE i = 1
          <6>1. m = p.msg
            BY <1>6, <5>1, <5>2
          <6> QED
            BY <3>4, <6>1 DEF Complete
        <5> QED
          BY <2>2, <5>1, <5>2 DEF Complete
      <4> QED
        BY <3>7, <4>1, <4>2 DEF Complete, n
    <3> QED
      BY <3>6, <3>7 DEF d
  <2>4. CASE ~(p.last /\ p.msg.from = v)
    <3>1. ipc_delivered'[v] = ipc_delivered[v]
      BY <1>3, <1>4, <2>4
    <3>2. ~(ipc_buffer[1].last /\ ipc_buffer[1].msg = m)
      BY <1>6, <1>9, <2>4
    <3>3. (\E i \in 1 .. n : ipc_buffer[i].last /\ ipc_buffer[i].msg = m) =>
             \E j \in 1 .. Len(ipc_buffer') : ipc_buffer'[j].last /\ ipc_buffer'[j].msg = m
      BY <2>2, <3>2
    <3> QED
      BY <2>1, <3>1, <3>3 DEF Complete, n
  <2> QED
    BY <2>3, <2>4
<1> QED
  BY <1>9 DEF OwnDone

(* A writer whose own lists a step leaves alone. *)
LEMMA BookStays ==
  ASSUME NEW v \in Writer, Book(v), SharedType,
         ipc_queue'[v].pending = ipc_queue[v].pending, ipc_outcome'[v] = ipc_outcome[v],
         ipc_reports'[v] = ipc_reports[v], OwnDone(v)' = OwnDone(v),
         Len(ipc_sent') = Len(ipc_sent) \/ Len(ipc_sent') = Len(ipc_sent) + 1
  PROVE  Book(v)'
<1>1. Len(ipc_sent) \in Nat
  BY DEF SharedType
<1> DEFINE L(k) == Ledger(v, ipc_queue[v].pending, ipc_outcome[v].done, ipc_outcome[v].failed, ipc_reports[v],
                          OwnDone(v), k)
<1>2. L(Len(ipc_sent)) /\ L(Len(ipc_sent) + 1)
  BY <1>1, LedgerLater DEF Book
<1>3. Book(v)' <=> L(Len(ipc_sent'))
  BY DEF Book
<1> HIDE DEF L
<1> QED
  BY <1>2, <1>3

LEMMA BooksRead ==
  ASSUME ReportInv, ReaderStep \/ KillReader
  PROVE  Books'
<1>1. UNCHANGED <<ipc_queue, ipc_outcome, ipc_reports, ipc_sent>>
  BY DEF ReaderStep, KillReader, DataAvailable, ReadOnePacket, ReadNothing, EndReadTransaction
<1>2. ChannelInv /\ Books /\ SharedType
  BY DEF ReportInv, ChannelInv
<1>3. ASSUME NEW v \in Writer PROVE OwnDone(v)' = OwnDone(v)
  <2>1. CASE ReadOnePacket
    BY <1>2, <2>1, DoneWhenReading
  <2>2. CASE ~ReadOnePacket
    <3>1. ipc_delivered' = ipc_delivered /\ ipc_buffer' = ipc_buffer
      BY <2>2 DEF ReaderStep, KillReader, DataAvailable, ReadNothing, EndReadTransaction, sharedVars
    <3> QED
      BY <3>1, DoneSame
  <2> QED
    BY <2>1, <2>2
<1>4. \A v \in Writer : Book(v)'
  <2> TAKE v \in Writer
  <2>1. Book(v)
    BY <1>2 DEF Books
  <2> QED
    BY <1>1, <1>2, <1>3, <2>1, BookStays
<1> QED
  BY <1>1, <1>2, <1>4 DEF Books

(* The books after a step of writer w that changes only its own. *)
LEMMA BooksFrom ==
  ASSUME ReportInv, NEW w \in Writer, Others(w), Book(w)',
         NEW o \in [done : Seq(Message), failed : Seq(Message)], ipc_outcome' = [ipc_outcome EXCEPT ![w] = o],
         NEW r \in Seq(Report), ipc_reports' = [ipc_reports EXCEPT ![w] = r],
         \A v \in Writer \ {w} : OwnDone(v)' = OwnDone(v),
         Len(ipc_sent') = Len(ipc_sent) \/ Len(ipc_sent') = Len(ipc_sent) + 1
  PROVE  Books'
<1>1. SharedType /\ Books
  BY DEF ReportInv, ChannelInv
<1>2. /\ ipc_outcome' \in [Writer -> [done : Seq(Message), failed : Seq(Message)]]
      /\ \A v \in Writer \ {w} : ipc_outcome'[v] = ipc_outcome[v]
  BY <1>1 DEF Books
<1>3. /\ ipc_reports' \in [Writer -> Seq(Report)]
      /\ \A v \in Writer \ {w} : ipc_reports'[v] = ipc_reports[v]
  BY <1>1 DEF Books
<1>4. ASSUME NEW v \in Writer \ {w} PROVE Book(v)'
  <2>1. Book(v) /\ ipc_queue'[v].pending = ipc_queue[v].pending
    BY <1>1 DEF Books, Others, SameMail
  <2> QED
    BY <1>1, <1>2, <1>3, <2>1, BookStays
<1>5. \A v \in Writer : Book(v)'
  BY <1>4
<1> QED
  BY <1>2, <1>3, <1>5 DEF Books

LEMMA BookIs ==
  ASSUME ReportInv, NEW w \in Writer
  PROVE  /\ Book(w) /\ ipc_outcome[w] \in [done : Seq(Message), failed : Seq(Message)]
         /\ ipc_reports[w] \in Seq(Report) /\ Len(ipc_sent) \in Nat
         /\ ipc_outcome = [ipc_outcome EXCEPT ![w] = ipc_outcome[w]]
         /\ ipc_reports = [ipc_reports EXCEPT ![w] = ipc_reports[w]]
         /\ DOMAIN ipc_outcome = Writer /\ DOMAIN ipc_reports = Writer
  BY DEF ReportInv, ChannelInv, SharedType, Books

(* Steps that leave all lists alone. *)
LEMMA BooksIdle ==
  ASSUME ReportInv, NEW w \in Writer, Others(w), SameMail(w), UNCHANGED <<ipc_outcome, ipc_reports, ipc_sent>>,
         ipc_delivered' = ipc_delivered, ipc_buffer' = ipc_buffer
  PROVE  Books'
<1>1. Books /\ SharedType
  BY DEF ReportInv, ChannelInv
<1>2. \A v \in Writer : Book(v)'
  <2> TAKE v \in Writer
  <2>1. Book(v) /\ ipc_queue'[v].pending = ipc_queue[v].pending
    BY <1>1 DEF Books, Others, SameMail
  <2>2. OwnDone(v)' = OwnDone(v)
    BY DoneSame
  <2> QED
    BY <1>1, <2>1, <2>2, BookStays
<1> QED
  BY <1>1, <1>2 DEF Books

LEMMA BooksSend ==
  ASSUME ReportInv, NEW w \in Writer, SendWithCompletion(w) \/ SendToAll(w)
  PROVE  Books'
<1> DEFINE m == NewIpcMessage(w)
           k == Len(ipc_sent)
           p == ipc_queue[w].pending
           d == ipc_outcome[w].done
           f == ipc_outcome[w].failed
           r == ipc_reports[w]
<1>1. /\ ipc_run[w].at \in {"build", "wait"} /\ Len(ipc_sent) < Len(Sends)
      /\ ipc_sent' = Append(ipc_sent, m)
      /\ UNCHANGED <<sharedVars, readerVars, ipc_run, ipc_reports>>
  BY DEF SendWithCompletion, SendToAll, SendStarts
<1>2. WriterType /\ SharedType /\ Turns /\ ChannelInv /\ Books
  BY DEF ReportInv, ChannelInv
<1>3. m \in Message /\ m.n = k + 1 /\ m.from = w
  BY <1>1, <1>2, NewMessageType DEF SharedType
<1>4. m \notin OwnDone(w)
  BY <1>2, <1>3, NewIsNotDone
<1>5. Others(w)
  BY <1>2, SendTurn, OthersFrom
<1>6. /\ \A v \in Writer : OwnDone(v)' = OwnDone(v)
      /\ Len(ipc_sent') = k + 1
  <2>1. ipc_delivered' = ipc_delivered /\ ipc_buffer' = ipc_buffer
    BY <1>1 DEF sharedVars, readerVars
  <2>2. Len(ipc_sent') = k + 1
    BY <1>1, <1>2, <1>3, AppendProperties DEF SharedType
  <2> QED
    BY <2>1, <2>2, DoneSame
<1>7. /\ Book(w) /\ ipc_outcome[w] \in [done : Seq(Message), failed : Seq(Message)] /\ r \in Seq(Report) /\ k \in Nat
      /\ ipc_outcome = [ipc_outcome EXCEPT ![w] = ipc_outcome[w]]
      /\ ipc_reports' = [ipc_reports EXCEPT ![w] = r] /\ ipc_reports'[w] = r
  BY <1>1, BookIs
<1> HIDE DEF m
<1>8. Ledger(w, p, d, f, r, OwnDone(w), k)
  BY <1>7 DEF Book
<1>9. /\ Ledger(w, Append(p, m), d, f, r, OwnDone(w), k + 1) /\ Ledger(w, p, d, Append(f, m), r, OwnDone(w), k + 1)
      /\ Ledger(w, p, d, f, r, OwnDone(w), k + 1)
  BY <1>3, <1>4, <1>7, <1>8, LedgerSends, LedgerLater
<1>10. CASE UNCHANGED <<ipc_queue, ipc_outcome>>
  <2>1. Book(w)'
    BY <1>6, <1>7, <1>9, <1>10 DEF Book
  <2> QED
    BY <1>5, <1>6, <1>7, <1>10, <2>1, BooksFrom
<1>11. CASE GetOutboundQueue(w).state # "none" /\ AddMessageToQueue(w, m) /\ UNCHANGED ipc_outcome
  <2>1. ipc_queue'[w].pending = Append(p, m)
    BY <1>1, <1>2, <1>3, <1>11, SendQueue
  <2>2. Book(w)'
    BY <1>6, <1>7, <1>9, <1>11, <2>1 DEF Book
  <2> QED
    BY <1>5, <1>6, <1>7, <1>11, <2>2, BooksFrom
<1>12. CASE ipc_outcome' = [ipc_outcome EXCEPT ![w].failed = Append(@, m)] /\ UNCHANGED ipc_queue
  <2> DEFINE o == [ipc_outcome[w] EXCEPT !.failed = Append(@, m)]
  <2>1. Append(f, m) \in Seq(Message)
    BY <1>3, <1>7
  <2>2. o \in [done : Seq(Message), failed : Seq(Message)] /\ o.done = d /\ o.failed = Append(f, m)
    BY <1>7, <2>1
  <2>3. ipc_outcome' = [ipc_outcome EXCEPT ![w] = o] /\ DOMAIN ipc_outcome = Writer
    BY <1>12, BookIs
  <2> HIDE DEF o
  <2>4. ipc_outcome'[w] = o
    BY <2>3
  <2>5. Book(w)'
    BY <1>6, <1>7, <1>9, <1>12, <2>2, <2>4 DEF Book
  <2> QED
    BY <1>5, <1>6, <1>7, <2>2, <2>3, <2>5, BooksFrom
<1> QED
  BY <1>10, <1>11, <1>12 DEF SendWithCompletion, SendToAll, m

LEMMA BooksBuild ==
  ASSUME ReportInv, NEW w \in Writer, Build(w) \/ RemoveOutboundQueue(w)
  PROVE  Books'
<1> DEFINE p == ipc_queue[w].pending
           d == ipc_outcome[w].done
           f == ipc_outcome[w].failed
           r == ipc_reports[w]
           k == Len(ipc_sent)
           none == [done |-> <<>>, failed |-> <<>>]
<1>1. WriterType /\ SharedType /\ Turns /\ ChannelInv /\ Books
  BY DEF ReportInv, ChannelInv
<1>2. /\ Book(w) /\ r \in Seq(Report) /\ k \in Nat /\ DOMAIN ipc_outcome = Writer /\ DOMAIN ipc_reports = Writer
  BY BookIs
<1>3. Ledger(w, p, d, f, r, OwnDone(w), k)
  BY <1>2 DEF Book
<1>4. Others(w)
  BY <1>1, BuildTurn, RemoveTurn, OthersFrom
<1>5. \A v \in Writer : OwnDone(v)' = OwnDone(v)
  <2>1. ipc_delivered' = ipc_delivered /\ ipc_buffer' = ipc_buffer
    BY DEF Build, RemoveOutboundQueue, BuildStarts, readerVars
  <2> QED
    BY <2>1, DoneSame
<1>6. ipc_sent' = ipc_sent /\ ipc_outcome' = [ipc_outcome EXCEPT ![w] = none]
  BY DEF Build, RemoveOutboundQueue, BuildStarts
<1>7. none \in [done : Seq(Message), failed : Seq(Message)] /\ none.done = <<>> /\ none.failed = <<>>
  BY EmptySeq
<1>8. ipc_outcome'[w] = none
  BY <1>2, <1>6
<1> HIDE DEF none
<1>9. CASE Build(w)
  <2> DEFINE c == r \o Outcomes(d, f)
  <2>1. ipc_reports' = [ipc_reports EXCEPT ![w] = c] /\ UNCHANGED ipc_queue
    BY <1>9 DEF Build, BuildStarts
  <2>2. Ledger(w, p, <<>>, <<>>, c, OwnDone(w), k)
    BY <1>2, <1>3, LedgerReports
  <2> HIDE DEF c
  <2>3. c \in Seq(Report)
    BY <2>2 DEF Ledger, Reported
  <2>4. ipc_reports'[w] = c
    BY <1>2, <2>1
  <2>5. Book(w)'
    BY <1>5, <1>6, <1>7, <1>8, <2>1, <2>2, <2>4 DEF Book
  <2> QED
    BY <1>4, <1>5, <1>6, <1>7, <2>1, <2>3, <2>5, BooksFrom
<1>10. CASE RemoveOutboundQueue(w)
  <2> DEFINE c == r \o Outcomes(d, f \o p)
  <2>1. ipc_reports' = [ipc_reports EXCEPT ![w] = c]
    BY <1>10 DEF RemoveOutboundQueue, BuildStarts
  <2>2. ipc_queue'[w] = NoQueue
    BY <1>1, <1>10, RemoveTurn
  <2>3. ipc_queue'[w].pending = <<>>
    BY <2>2 DEF NoQueue
  <2>4. Ledger(w, <<>>, d, f \o p, r, OwnDone(w), k)
    BY <1>2, <1>3, LedgerFails
  <2>5. Ledger(w, <<>>, <<>>, <<>>, c, OwnDone(w), k)
    BY <1>2, <2>4, LedgerReports
  <2> HIDE DEF c
  <2>6. c \in Seq(Report)
    BY <2>5 DEF Ledger, Reported
  <2>7. ipc_reports'[w] = c
    BY <1>2, <2>1
  <2>8. Book(w)'
    BY <1>5, <1>6, <1>7, <1>8, <2>3, <2>5, <2>7 DEF Book
  <2> QED
    BY <1>4, <1>5, <1>6, <1>7, <2>1, <2>6, <2>8, BooksFrom
<1> QED
  BY <1>9, <1>10

LEMMA BooksEnd ==
  ASSUME ReportInv, NEW w \in Writer, EndWriter(w)
  PROVE  Books'
<1> DEFINE none == [done |-> <<>>, failed |-> <<>>]
<1>1. WriterType /\ SharedType /\ Turns /\ ChannelInv /\ Books
  BY DEF ReportInv, ChannelInv
<1>2. /\ Book(w) /\ ipc_reports[w] \in Seq(Report) /\ Len(ipc_sent) \in Nat
      /\ DOMAIN ipc_outcome = Writer /\ ipc_reports = [ipc_reports EXCEPT ![w] = ipc_reports[w]]
  BY BookIs
<1>3. Ledger(w, <<>>, <<>>, <<>>, ipc_reports[w], OwnDone(w), Len(ipc_sent))
  BY <1>2, LedgerEnds DEF Book
<1>4. Others(w) /\ ipc_queue'[w] = NoQueue
  BY <1>1, RemoveTurn, OthersFrom
<1>5. ipc_queue'[w].pending = <<>>
  BY <1>4 DEF NoQueue
<1>6. \A v \in Writer : OwnDone(v)' = OwnDone(v)
  <2>1. ipc_delivered' = ipc_delivered /\ ipc_buffer' = ipc_buffer
    BY DEF EndWriter, readerVars
  <2> QED
    BY <2>1, DoneSame
<1>7. ipc_sent' = ipc_sent /\ ipc_reports' = ipc_reports /\ ipc_outcome' = [ipc_outcome EXCEPT ![w] = none]
  BY DEF EndWriter
<1>8. none \in [done : Seq(Message), failed : Seq(Message)] /\ none.done = <<>> /\ none.failed = <<>>
  BY EmptySeq
<1> HIDE DEF none
<1>9. ipc_outcome'[w] = none
  BY <1>2, <1>7
<1>10. Book(w)'
  BY <1>3, <1>5, <1>6, <1>7, <1>8, <1>9 DEF Book
<1> QED
  BY <1>2, <1>4, <1>6, <1>7, <1>8, <1>10, BooksFrom

LEMMA BooksWrite ==
  ASSUME ReportInv, NEW w \in Writer, WriteOnePacket(w)
  PROVE  Books'
<1> DEFINE p == ipc_queue[w].pending
           d == ipc_outcome[w].done
           f == ipc_outcome[w].failed
           r == ipc_reports[w]
           k == Len(ipc_sent)
           packet == NextPacket(w)
<1>1. WriterType /\ SharedType /\ Turns /\ Pieces /\ ChannelInv /\ Books
  BY DEF ReportInv, ChannelInv
<1>2. /\ ipc_queue[w].pending # <<>> /\ ipc_buffer' = Append(ipc_buffer, packet)
      /\ ipc_delivered' = ipc_delivered /\ ipc_sent' = ipc_sent /\ ipc_reports' = ipc_reports
  BY DEF WriteOnePacket, Fits, readerVars
<1>3. ipc_queue[w].written < Head(p).size
  BY <1>1, <1>2, WrittenBelow
<1>4. packet \in Packet /\ packet.msg = Head(p)
  BY <1>1, <1>2, <1>3, NextPacketIs
<1>5. /\ Alone(w)
      /\ packet.last => ipc_queue'[w].pending = Tail(p)
      /\ ~packet.last => ipc_queue'[w].pending = p
  BY <1>1, <1>3, WriteTurn
<1>6. Others(w)
  BY <1>5, OthersFrom
<1>7. /\ Book(w) /\ ipc_outcome[w] \in [done : Seq(Message), failed : Seq(Message)] /\ r \in Seq(Report) /\ k \in Nat
      /\ ipc_outcome = [ipc_outcome EXCEPT ![w] = ipc_outcome[w]]
      /\ ipc_reports = [ipc_reports EXCEPT ![w] = r] /\ DOMAIN ipc_outcome = Writer
  BY BookIs
<1>8. Ledger(w, p, d, f, r, OwnDone(w), k)
  BY <1>7 DEF Book
<1>9. Head(p) = p[1] /\ 1 \in 1 .. Len(p)
  BY <1>2, <1>8, HeadTailProperties DEF Ledger, KnownTo
<1>10. packet.msg.from = w
  BY <1>4, <1>8, <1>9 DEF Ledger, KnownTo
<1> HIDE DEF packet
<1>11. /\ \A v \in Writer \ {w} : OwnDone(v)' = OwnDone(v)
       /\ OwnDone(w)' = IF packet.last THEN OwnDone(w) \cup {packet.msg} ELSE OwnDone(w)
  BY <1>1, <1>2, <1>4, <1>10, DoneWhenWriting
<1>12. CASE packet.last
  <2> DEFINE o == [ipc_outcome[w] EXCEPT !.done = Append(@, packet.msg)]
  <2>1. ipc_outcome' = [ipc_outcome EXCEPT ![w] = o]
    BY <1>7, <1>12 DEF WriteOnePacket, packet
  <2>2. Append(d, packet.msg) \in Seq(Message)
    BY <1>4, <1>7 DEF Packet
  <2>3. o \in [done : Seq(Message), failed : Seq(Message)] /\ o.done = Append(d, packet.msg) /\ o.failed = f
    BY <1>7, <2>2
  <2> HIDE DEF o
  <2>4. ipc_outcome'[w] = o
    BY <1>7, <2>1
  <2>5. Ledger(w, Tail(p), Append(d, Head(p)), f, r, OwnDone(w) \cup {Head(p)}, k)
    BY <1>2, <1>7, <1>8, LedgerCompletes
  <2>6. Book(w)'
    <3>1. OwnDone(w)' = OwnDone(w) \cup {Head(p)} /\ ipc_queue'[w].pending = Tail(p)
      BY <1>4, <1>5, <1>11, <1>12
    <3> QED
      BY <1>2, <1>4, <2>3, <2>4, <2>5, <3>1 DEF Book
  <2> QED
    BY <1>2, <1>6, <1>7, <1>11, <2>1, <2>3, <2>6, BooksFrom
<1>13. CASE ~packet.last
  <2>1. ipc_outcome' = ipc_outcome
    BY <1>13 DEF WriteOnePacket, packet
  <2>2. Book(w)'
    BY <1>2, <1>5, <1>8, <1>11, <1>13, <2>1 DEF Book
  <2> QED
    BY <1>2, <1>6, <1>7, <1>11, <2>1, <2>2, BooksFrom
<1> QED
  BY <1>12, <1>13

LEMMA BooksNext == ASSUME ReportInv, ChannelNext PROVE Books'
<1>1. WriterType /\ SharedType /\ Turns
  BY DEF ReportInv, ChannelInv
<1>2. ASSUME NEW w \in Writer,
             \/ SendWithCompletion(w) \/ SendToAll(w)
             \/ RunStep(w) \/ RemoveOutboundQueue(w) \/ EndWriter(w)
      PROVE  Books'
  <2>1. CASE WaitReturns(w) \/ WaitComplete(w)
    <3>1. Others(w) /\ SameMail(w)
      BY <1>1, <2>1, WaitTurn, OthersFrom DEF SameMail
    <3>2. UNCHANGED <<ipc_outcome, ipc_reports, ipc_sent, ipc_delivered, ipc_buffer>>
      BY <2>1 DEF WaitReturns, WaitComplete, readerVars, sharedVars
    <3> QED
      BY <3>1, <3>2, BooksIdle
  <2>2. CASE WriteNothing(w) \/ EndWriteTransaction(w)
    <3>1. Others(w) /\ SameMail(w)
      BY <2>2 DEF WriteNothing, EndWriteTransaction, Others, SameMail
    <3>2. UNCHANGED <<ipc_outcome, ipc_reports, ipc_sent, ipc_delivered, ipc_buffer>>
      BY <2>2 DEF WriteNothing, EndWriteTransaction, readerVars, sharedVars
    <3> QED
      BY <3>1, <3>2, BooksIdle
  <2>3. CASE WaitOrRelease(w)
    <3>1. Others(w) /\ SameMail(w)
      BY <1>1, <2>3, ReleaseTurn, OthersFrom DEF SameMail
    <3>2. UNCHANGED <<ipc_outcome, ipc_reports, ipc_sent, ipc_delivered, ipc_buffer>>
      BY <2>3 DEF WaitOrRelease, readerVars
    <3> QED
      BY <3>1, <3>2, BooksIdle
  <2> QED
    BY <1>2, <2>1, <2>2, <2>3, BooksSend, BooksBuild, BooksEnd, BooksWrite DEF RunStep
<1> QED
  BY <1>2, BooksRead DEF ChannelNext

LEMMA ReportInvNext == ASSUME ReportInv, [ChannelNext]_channelVars PROVE ReportInv'
<1>1. CASE ChannelNext
  BY <1>1, BooksNext, ChannelInvNext DEF ReportInv
<1>2. CASE UNCHANGED channelVars
  <2>1. UNCHANGED <<ipc_queue, ipc_outcome, ipc_reports, ipc_sent, ipc_delivered, ipc_buffer>>
    BY <1>2 DEF channelVars, sharedVars, readerVars
  <2>2. Books'
    <3>1. \A v \in Writer : OwnDone(v)' = OwnDone(v)
      BY <2>1, DoneSame
    <3> QED
      BY <2>1, <3>1 DEF ReportInv, Books, Book
  <2> QED
    BY <1>2, <2>2, ChannelInvStutter DEF ReportInv
<1> QED
  BY <1>1, <1>2

LEMMA ReportInvInit == ASSUME ChannelInit PROVE ReportInv
<1>1. ChannelInv
  BY ChannelInvInit
<1>2. /\ ipc_outcome = [w \in Writer |-> [done |-> <<>>, failed |-> <<>>]]
      /\ ipc_reports = [w \in Writer |-> <<>>] /\ ipc_queue = [w \in Writer |-> NoQueue] /\ ipc_sent = <<>>
  BY DEF ChannelInit
<1>3. <<>> \in Seq(Message) /\ <<>> \in Seq(Report) /\ 1 .. Len(<<>>) = {}
  BY EmptySeq
<1>4. \A w \in Writer : Book(w)
  <2> TAKE w \in Writer
  <2>1. /\ ipc_outcome[w].done = <<>> /\ ipc_outcome[w].failed = <<>> /\ ipc_reports[w] = <<>>
        /\ ipc_queue[w].pending = <<>>
    BY <1>2 DEF NoQueue
  <2>2. \A C, k : Ledger(w, <<>>, <<>>, <<>>, <<>>, C, k)
    BY <1>3 DEF Ledger, KnownTo, Distinct, Apart, In, Out, Reported, ReportedOnce, NotIn, Truth
  <2> QED
    BY <2>1, <2>2 DEF Book
<1>5. Books
  BY <1>2, <1>3, <1>4 DEF Books
<1> QED
  BY <1>1, <1>5 DEF ReportInv

LEMMA InvIsTrue == ASSUME ReportInv PROVE ReportIsTrue
<1> SUFFICES ASSUME NEW w \in Writer
             PROVE  /\ \A i, j \in 1 .. Len(ipc_reports[w]) : i # j => ipc_reports[w][i].msg # ipc_reports[w][j].msg
                    /\ \A i \in 1 .. Len(ipc_reports[w]) :
                         ipc_reports[w][i].ok <=> ipc_reports[w][i].msg \in Completed(w)
  BY DEF ReportIsTrue
<1> DEFINE r == ipc_reports[w]
<1>1. Book(w) /\ r \in Seq(Report)
  BY BookIs
<1>2. Reported(w, r, Len(ipc_sent)) /\ ReportedOnce(r) /\ Truth(r, OwnDone(w))
  BY <1>1 DEF Book, Ledger
<1>3. \A i, j \in 1 .. Len(r) : i # j => r[i].msg # r[j].msg
  BY <1>2 DEF ReportedOnce
<1>4. ASSUME NEW i \in 1 .. Len(r) PROVE r[i].ok <=> r[i].msg \in Completed(w)
  <2>1. r[i].msg.from = w /\ (r[i].ok <=> r[i].msg \in OwnDone(w))
    BY <1>2 DEF Reported, Truth
  <2>2. r[i].msg \in Message
    <3>1. r[i] \in Report
      BY <1>1
    <3> QED
      BY <3>1 DEF Report
  <2>3. \A m : m \in Completed(w) <=> Complete(m, ipc_delivered[w], ipc_buffer)
    BY DEF Completed, Complete
  <2> QED
    BY <2>1, <2>2, <2>3 DEF OwnDone
<1> QED
  BY <1>3, <1>4

(* Every message has one callback at most, and its answer is the truth: a  *)
(* message reported as sent is in the buffer, complete, or was delivered,  *)
(* one reported as failed never is (Run, RemoveOutboundQueue and the lists *)
(* successful_messages_ and failed_messages_ of                            *)
(* common/ipc_message_queue_win32.cc), whoever is killed and when.         *)
THEOREM ReportIsAlwaysTrue == ChannelSpec => []ReportIsTrue
<1>1. ChannelInit => ReportInv
  BY ReportInvInit
<1>2. ReportInv /\ [ChannelNext]_channelVars => ReportInv'
  BY ReportInvNext
<1>3. ReportInv => ReportIsTrue
  BY InvIsTrue
<1> QED
  BY <1>1, <1>2, <1>3, PTL DEF ChannelSpec
=============================================================================
