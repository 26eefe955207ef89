----------------------------- MODULE IpcChannel -----------------------------
(***************************************************************************)
(* The inbound queue of one process and the outbound queues of the others  *)
(* that write to it (common/ipc_message_queue_win32.cc): a circular buffer *)
(* in shared memory, a named mutex for the writers and two manual-reset    *)
(* events.  Any process may be killed between any two steps.               *)
(***************************************************************************)
EXTENDS Naturals, Sequences, SequencesExt, FiniteSets, FiniteSetsExt

CONSTANTS
  Writer,     \* the processes that send
  Capacity,   \* IpcBuffer::kCapacity, in units of one packet header
  Sends       \* the calls of Send made by all writers: size of the message, callback or not

ASSUME ChannelAssumption ==
  /\ Capacity \in Nat \ {0, 1}
  /\ Sends \in Seq([size : Nat \ {0}, callback : BOOLEAN])

VARIABLES
  ipc_buffer,     \* the packets between head and tail
  ipc_free,       \* the space that is left between tail and head
  ipc_mutex,      \* owner of write_mutex_, or NoWriter
  ipc_data,       \* data_available_event_ is set
  ipc_space,      \* space_available_event_ is set
  ipc_reader,     \* the reader's position, message_data_buffer_ and last_packet_header_
  ipc_delivered,  \* history: the messages dispatched, by writer
  ipc_alive,      \* the reading process runs
  ipc_sent,       \* history: the messages sent
  ipc_run,        \* each writer's position in Run and the handles it waits on
  ipc_signal,     \* each writer's send_data_event_ and reset_send_data_event
  ipc_queue,      \* each writer's OutboundQueue
  ipc_outcome,    \* each writer's successful_messages_ and failed_messages_
  ipc_reports     \* history: the callbacks made, by writer

readerVars == <<ipc_reader, ipc_delivered, ipc_alive>>
sharedVars == <<ipc_buffer, ipc_free, ipc_mutex, ipc_data, ipc_space>>
runVars == <<ipc_run, ipc_signal>>
channelVars == <<sharedVars, readerVars, runVars, ipc_sent, ipc_queue, ipc_outcome, ipc_reports>>

NoWriter == "nobody"

ASSUME WriterAssumption == NoWriter \notin Writer

NoQueue == [state |-> "none", pending |-> <<>>, waits |-> "nothing", has |-> FALSE,
            written |-> 0, sequence |-> 0]
NoPacket == [msg |-> <<>>, sequence |-> 0, last |-> TRUE, from |-> 0, size |-> 0]

(* The space that packets take, their headers included. *)
Used(packets) ==
  LET used[i \in 0 .. Len(packets)] ==
        IF i = 0 THEN 0 ELSE used[i - 1] + 1 + packets[i].size
  IN  used[Len(packets)]

ChannelTypeOK ==
  /\ ipc_free = Capacity - Used(ipc_buffer)
  /\ ipc_free \in 0 .. Capacity
  /\ ipc_mutex \in Writer \cup {NoWriter}
  /\ {ipc_data, ipc_space, ipc_alive} \subseteq BOOLEAN
  /\ \A w \in Writer :
       /\ ipc_queue[w].waits \in {"nothing", "mutex", "space"}
       /\ ipc_queue[w].has <=> ipc_mutex = w
       /\ ipc_queue[w].state # "none" /\ ipc_queue[w].pending # <<>> /\ ipc_run[w].at \in {"build", "wait"} =>
            ipc_queue[w].waits = IF ipc_queue[w].has THEN "space" ELSE "mutex"

ChannelInit ==
  /\ ipc_buffer = <<>> /\ ipc_free = Capacity /\ ipc_mutex = NoWriter
  /\ ipc_data = FALSE /\ ipc_space = FALSE
  /\ ipc_reader = [at |-> "wait", data |-> <<>>, last |-> NoPacket]
  /\ ipc_delivered = [w \in Writer |-> <<>>]
  /\ ipc_alive = TRUE
  /\ ipc_sent = <<>>
  /\ ipc_run = [w \in Writer |-> [at |-> "build", watch |-> {}, count |-> 0]]
  /\ ipc_signal = [w \in Writer |-> [set |-> FALSE, reset |-> FALSE]]
  /\ ipc_queue = [w \in Writer |-> NoQueue]
  /\ ipc_outcome = [w \in Writer |-> [done |-> <<>>, failed |-> <<>>]]
  /\ ipc_reports = [w \in Writer |-> <<>>]

-----------------------------------------------------------------------------
(* SendWithCompletion and SendToAll, under thread_sync_mutex_, which the   *)
(* worker thread holds while it writes.                                    *)
MaybeWaitForWriteMutex(q) ==
  IF ~q.has /\ q.waits # "mutex" THEN [q EXCEPT !.waits = "mutex"] ELSE q

(* Open fails when the process is gone. *)
GetOutboundQueue(w) ==
  IF ipc_queue[w].state = "none" /\ ipc_alive
  THEN [NoQueue EXCEPT !.state = "open"]
  ELSE ipc_queue[w]

NewIpcMessage(w) ==
  LET n == Len(ipc_sent) + 1
  IN  [from |-> w, n |-> n, size |-> Sends[n].size, callback |-> Sends[n].callback]

AddMessageToQueue(w, msg) ==
  LET q == GetOutboundQueue(w)
  IN  ipc_queue' = [ipc_queue EXCEPT ![w] =
                      MaybeWaitForWriteMutex([q EXCEPT !.pending = Append(@, msg)])]

SendStarts(w, callback) ==
  /\ ipc_run[w].at \in {"build", "wait"}
  /\ Len(ipc_sent) < Len(Sends) /\ Sends[Len(ipc_sent) + 1].callback = callback
  /\ ipc_sent' = Append(ipc_sent, NewIpcMessage(w))
  /\ UNCHANGED <<sharedVars, readerVars, ipc_run, ipc_reports>>

SendWithCompletion(w) ==
  /\ SendStarts(w, TRUE)
  /\ ipc_signal' = [ipc_signal EXCEPT ![w].set = TRUE]
  /\ \/ /\ GetOutboundQueue(w).state # "none"
        /\ AddMessageToQueue(w, NewIpcMessage(w))
        /\ UNCHANGED ipc_outcome
     \/ /\ GetOutboundQueue(w).state = "none"
        /\ ipc_outcome' = [ipc_outcome EXCEPT ![w].failed = Append(@, NewIpcMessage(w))]
        /\ UNCHANGED ipc_queue

SendToAll(w) ==
  /\ SendStarts(w, FALSE)
  /\ \/ /\ GetOutboundQueue(w).state # "none"
        /\ AddMessageToQueue(w, NewIpcMessage(w))
        /\ ipc_signal' = [ipc_signal EXCEPT ![w].set = TRUE]
     \/ /\ GetOutboundQueue(w).state = "none"
        /\ UNCHANGED <<ipc_queue, ipc_signal>>
  /\ UNCHANGED ipc_outcome

-----------------------------------------------------------------------------
(* Run, the part under thread_sync_mutex_ and the callbacks after it.  An  *)
(* outbound queue whose process is gone, or that waited for more than      *)
(* kTimeoutMs, is removed: its messages fail, and its destructor gives the *)
(* write mutex back.                                                       *)
AddWaitHandles(q) == (IF q.waits = "nothing" THEN {} ELSE {q.waits}) \cup {"process"}

(* The messages that have a callback, in order. *)
Wanted(msgs) ==
  LET kept[i \in 0 .. Len(msgs)] ==
        IF i = 0 THEN <<>>
        ELSE IF msgs[i].callback THEN Append(kept[i - 1], msgs[i]) ELSE kept[i - 1]
  IN  kept[Len(msgs)]

Callbacks(msgs, ok) == [i \in 1 .. Len(msgs) |-> [msg |-> msgs[i], ok |-> ok]]

Outcomes(done, failed) == Callbacks(Wanted(done), TRUE) \o Callbacks(Wanted(failed), FALSE)

(* Variant: the lists are copied, not swapped. *)
BuildStartsCopies(w, failed) ==
  /\ ipc_run[w].at = "build"
  /\ ipc_signal' = [ipc_signal EXCEPT ![w] =
                      [set |-> ~ipc_signal[w].reset /\ ipc_signal[w].set, reset |-> FALSE]]
  /\ ipc_reports' = [ipc_reports EXCEPT ![w] = @ \o Outcomes(ipc_outcome[w].done, failed)]
  /\ UNCHANGED <<ipc_buffer, ipc_free, ipc_data, ipc_space, readerVars, ipc_sent, ipc_outcome>>

BuildStarts(w, failed) ==
  /\ ipc_run[w].at = "build"
  /\ ipc_signal' = [ipc_signal EXCEPT ![w] =
                      [set |-> ~ipc_signal[w].reset /\ ipc_signal[w].set, reset |-> FALSE]]
  /\ ipc_reports' = [ipc_reports EXCEPT ![w] = @ \o Outcomes(ipc_outcome[w].done, failed)]
  /\ ipc_outcome' = [ipc_outcome EXCEPT ![w] = [done |-> <<>>, failed |-> <<>>]]
  /\ UNCHANGED <<ipc_buffer, ipc_free, ipc_data, ipc_space, readerVars, ipc_sent>>

Build(w) ==
  /\ ipc_queue[w].state # "closed"
  /\ BuildStarts(w, ipc_outcome[w].failed)
  /\ ipc_run' = [ipc_run EXCEPT ![w].at = "wait", ![w].watch =
                   IF ipc_queue[w].state = "none" THEN {} ELSE AddWaitHandles(ipc_queue[w])]
  /\ UNCHANGED <<ipc_queue, ipc_mutex>>

(* Variant: a message in progress is forgotten. *)
RemoveOutboundQueueForgets(w) ==
  /\ ipc_queue[w].state # "none"
  /\ BuildStarts(w, ipc_outcome[w].failed \o
       (IF ipc_queue[w].written > 0 THEN Tail(ipc_queue[w].pending) ELSE ipc_queue[w].pending))
  /\ ipc_queue' = [ipc_queue EXCEPT ![w] = NoQueue]
  /\ ipc_mutex' = IF ipc_queue[w].has THEN NoWriter ELSE ipc_mutex
  /\ ipc_run' = [ipc_run EXCEPT ![w].at = "wait", ![w].watch = {}]

RemoveOutboundQueue(w) ==
  /\ ipc_queue[w].state # "none"
  /\ BuildStarts(w, ipc_outcome[w].failed \o ipc_queue[w].pending)
  /\ ipc_queue' = [ipc_queue EXCEPT ![w] = NoQueue]
  /\ ipc_mutex' = IF ipc_queue[w].has THEN NoWriter ELSE ipc_mutex
  /\ ipc_run' = [ipc_run EXCEPT ![w].at = "wait", ![w].watch = {}]

(* WaitForMultipleObjectsEx returns the first signalled handle: the send   *)
(* event, then the mutex or the space event, then the process.             *)
Signalled(w) ==
  CASE ipc_signal[w].set -> "send"
    [] ~ipc_signal[w].set /\ "mutex" \in ipc_run[w].watch /\ ipc_mutex = NoWriter -> "mutex"
    [] ~ipc_signal[w].set /\ "space" \in ipc_run[w].watch /\ ipc_space -> "space"
    [] OTHER -> IF "process" \in ipc_run[w].watch /\ ~ipc_alive THEN "process" ELSE "none"

(* The event is reset only when the handles are rebuilt; WAIT_TIMEOUT      *)
(* rebuilds them as well.                                                  *)
WaitReturns(w) ==
  /\ ipc_run[w].at = "wait"
  /\ Signalled(w) \in {"send", "none"}
  /\ ipc_run' = [ipc_run EXCEPT ![w].at = "build"]
  /\ ipc_signal' = [ipc_signal EXCEPT ![w].reset = Signalled(w) = "send"]
  /\ UNCHANGED <<sharedVars, readerVars, ipc_sent, ipc_queue, ipc_outcome, ipc_reports>>

WaitComplete(w) ==
  /\ ipc_run[w].at = "wait"
  /\ \/ /\ Signalled(w) = "mutex"
        /\ ipc_mutex' = w
        /\ ipc_queue' = [ipc_queue EXCEPT ![w].waits = "nothing", ![w].has = TRUE]
        /\ ipc_run' = [ipc_run EXCEPT ![w].at = "write", ![w].count = 0]
        /\ UNCHANGED ipc_space
     \/ /\ Signalled(w) = "space"
        /\ ipc_space' = FALSE
        /\ ipc_queue' = [ipc_queue EXCEPT ![w].waits = "nothing"]
        /\ ipc_run' = [ipc_run EXCEPT ![w].at = "write", ![w].count = 0]
        /\ UNCHANGED ipc_mutex
     \/ /\ Signalled(w) = "process"
        /\ ipc_queue' = [ipc_queue EXCEPT ![w].state = "closed"]
        /\ ipc_run' = [ipc_run EXCEPT ![w].at = "build"]
        /\ UNCHANGED <<ipc_mutex, ipc_space>>
  /\ UNCHANGED <<ipc_buffer, ipc_free, ipc_data, readerVars, ipc_signal, ipc_sent, ipc_outcome, ipc_reports>>

-----------------------------------------------------------------------------
(* WriteOneMessage and WriteOnePacket: what is left of the first pending   *)
(* message, cut to the capacity if it is the first of this turn.           *)
NextPacket(w) ==
  LET q == ipc_queue[w]
      left == Head(q.pending).size - q.written
  IN  [msg |-> Head(q.pending),
       sequence |-> IF q.written > 0 THEN q.sequence + 1 ELSE 0,
       last |-> 1 + left <= Capacity,
       from |-> q.written,
       size |-> IF 1 + left <= Capacity THEN left ELSE Capacity - 1]

Fits(w) ==
  /\ ipc_queue[w].pending # <<>>
  /\ NextPacket(w).last \/ ipc_run[w].count = 0
  /\ 1 + NextPacket(w).size <= ipc_free

(* The tail is committed; the packet is now visible to the reader. *)
WriteOnePacket(w) ==
  /\ ipc_run[w].at = "write"
  /\ Fits(w)
  /\ LET packet == NextPacket(w)
     IN  /\ ipc_buffer' = Append(ipc_buffer, packet)
         /\ ipc_free' = ipc_free - 1 - packet.size
         /\ \/ /\ packet.last
               /\ ipc_queue' = [ipc_queue EXCEPT ![w].pending = Tail(@), ![w].written = 0, ![w].sequence = 0]
               /\ ipc_outcome' = [ipc_outcome EXCEPT ![w].done = Append(@, packet.msg)]
               /\ ipc_run' = [ipc_run EXCEPT ![w].at = "signal", ![w].count = @ + 1]
            \/ /\ ~packet.last
               /\ ipc_queue' = [ipc_queue EXCEPT ![w].written = @ + packet.size, ![w].sequence = packet.sequence]
               /\ ipc_run' = [ipc_run EXCEPT ![w].at = "signal_stop"]
               /\ UNCHANGED ipc_outcome
  /\ UNCHANGED <<ipc_mutex, ipc_data, ipc_space, readerVars, ipc_signal, ipc_sent, ipc_reports>>

(* Nothing was written; the transaction still signals what is there. *)
WriteNothing(w) ==
  /\ ipc_run[w].at = "write"
  /\ ~Fits(w)
  /\ ipc_run' = [ipc_run EXCEPT ![w].at = "signal_stop"]
  /\ UNCHANGED <<sharedVars, readerVars, ipc_signal, ipc_sent, ipc_queue, ipc_outcome, ipc_reports>>

(* Variant: the event is set only by a transaction that wrote. *)
EndWriteTransactionQuiet(w) ==
  /\ ipc_run[w].at \in {"signal", "signal_stop"}
  /\ ipc_data' = (ipc_data \/ ipc_run[w].at = "signal")
  /\ ipc_run' = [ipc_run EXCEPT ![w].at = IF @ = "signal" THEN "write" ELSE "stop"]
  /\ UNCHANGED <<ipc_buffer, ipc_free, ipc_mutex, ipc_space, readerVars, ipc_signal, ipc_sent, ipc_queue,
                 ipc_outcome, ipc_reports>>

(* ~WriteTransaction sets data_available_event_. *)
EndWriteTransaction(w) ==
  /\ ipc_run[w].at \in {"signal", "signal_stop"}
  /\ ipc_data' = (ipc_data \/ (ipc_buffer # <<>> /\ (ipc_run[w].at = "signal" \/ ipc_queue[w].pending # <<>>)))
  /\ ipc_run' = [ipc_run EXCEPT ![w].at = IF @ = "signal" THEN "write" ELSE "stop"]
  /\ UNCHANGED <<ipc_buffer, ipc_free, ipc_mutex, ipc_space, readerVars, ipc_signal, ipc_sent, ipc_queue,
                 ipc_outcome, ipc_reports>>

(* The end of WritePendingMessages: keep the mutex until one message went  *)
(* out completely, else give it back and queue up for it again.            *)
WaitOrRelease(w) ==
  /\ ipc_run[w].at = "stop"
  /\ LET q == ipc_queue[w]
         keep == ipc_run[w].count = 0 /\ q.pending # <<>>
     IN  /\ ipc_mutex' = IF keep THEN w ELSE NoWriter
         /\ ipc_queue' = [ipc_queue EXCEPT ![w].has = keep, ![w].waits =
                            IF keep THEN "space" ELSE IF q.pending # <<>> THEN "mutex" ELSE "nothing"]
  /\ ipc_run' = [ipc_run EXCEPT ![w].at = "build"]
  /\ UNCHANGED <<ipc_buffer, ipc_free, ipc_data, ipc_space, readerVars, ipc_signal, ipc_sent, ipc_outcome,
                 ipc_reports>>

-----------------------------------------------------------------------------
(* InboundQueue::WaitComplete. *)
DataAvailable ==
  /\ ipc_alive /\ ipc_reader.at = "wait" /\ ipc_data
  /\ ipc_data' = FALSE
  /\ ipc_reader' = [ipc_reader EXCEPT !.at = "read"]
  /\ UNCHANGED <<ipc_buffer, ipc_free, ipc_mutex, ipc_space, ipc_delivered, ipc_alive, runVars, ipc_sent,
                 ipc_queue, ipc_outcome, ipc_reports>>

(* Variant: a packet with sequence number 0 does not clear the buffer. *)
ReadOnePacketAppends ==
  /\ ipc_alive /\ ipc_reader.at = "read" /\ ipc_buffer # <<>>
  /\ LET packet == Head(ipc_buffer)
         data == Append(ipc_reader.data, packet)
     IN  /\ ipc_reader' = [at |-> "set", data |-> IF packet.last THEN <<>> ELSE data, last |-> packet]
         /\ ipc_delivered' = IF packet.last
                             THEN [ipc_delivered EXCEPT ![packet.msg.from] = Append(@, data)]
                             ELSE ipc_delivered
  /\ ipc_buffer' = Tail(ipc_buffer)
  /\ ipc_free' = ipc_free + 1 + Head(ipc_buffer).size
  /\ UNCHANGED <<ipc_mutex, ipc_data, ipc_space, ipc_alive, runVars, ipc_sent, ipc_queue,
                 ipc_outcome, ipc_reports>>

(* ReadOnePacket and, after a last packet, the dispatch of what is in      *)
(* message_data_buffer_.                                                   *)
ReadOnePacket ==
  /\ ipc_alive /\ ipc_reader.at = "read" /\ ipc_buffer # <<>>
  /\ LET packet == Head(ipc_buffer)
         data == IF packet.sequence = 0 THEN <<packet>> ELSE Append(ipc_reader.data, packet)
     IN  /\ ipc_reader' = [at |-> "set", data |-> IF packet.last THEN <<>> ELSE data, last |-> packet]
         /\ ipc_delivered' = IF packet.last
                             THEN [ipc_delivered EXCEPT ![packet.msg.from] = Append(@, data)]
                             ELSE ipc_delivered
  /\ ipc_buffer' = Tail(ipc_buffer)
  /\ ipc_free' = ipc_free + 1 + Head(ipc_buffer).size
  /\ UNCHANGED <<ipc_mutex, ipc_data, ipc_space, ipc_alive, runVars, ipc_sent, ipc_queue,
                 ipc_outcome, ipc_reports>>

ReadNothing ==
  /\ ipc_alive /\ ipc_reader.at = "read" /\ ipc_buffer = <<>>
  /\ ipc_reader' = [ipc_reader EXCEPT !.at = "set_last"]
  /\ UNCHANGED <<sharedVars, ipc_delivered, ipc_alive, runVars, ipc_sent, ipc_queue, ipc_outcome,
                 ipc_reports>>

(* ~ReadTransaction sets space_available_event_. *)
EndReadTransaction ==
  /\ ipc_alive /\ ipc_reader.at \in {"set", "set_last"}
  /\ ipc_space' = TRUE
  /\ ipc_reader' = [ipc_reader EXCEPT !.at = IF @ = "set" THEN "read" ELSE "wait"]
  /\ UNCHANGED <<ipc_buffer, ipc_free, ipc_mutex, ipc_data, ipc_delivered, ipc_alive, runVars, ipc_sent,
                 ipc_queue, ipc_outcome, ipc_reports>>

-----------------------------------------------------------------------------
KillReader ==
  /\ ipc_alive
  /\ ipc_alive' = FALSE
  /\ UNCHANGED <<sharedVars, ipc_reader, ipc_delivered, runVars, ipc_sent, ipc_queue, ipc_outcome,
                 ipc_reports>>

(* A writer is killed, and its mutex abandoned, or its wait fails and it   *)
(* ends its thread: either way nothing more is reported.                   *)
EndWriter(w) ==
  /\ ipc_run[w].at # "dead"
  /\ ipc_run' = [ipc_run EXCEPT ![w] = [at |-> "dead", watch |-> {}, count |-> 0]]
  /\ ipc_queue' = [ipc_queue EXCEPT ![w] = NoQueue]
  /\ ipc_mutex' = IF ipc_mutex = w THEN NoWriter ELSE ipc_mutex
  /\ ipc_signal' = [ipc_signal EXCEPT ![w] = [set |-> FALSE, reset |-> FALSE]]
  /\ ipc_outcome' = [ipc_outcome EXCEPT ![w] = [done |-> <<>>, failed |-> <<>>]]
  /\ UNCHANGED <<ipc_buffer, ipc_free, ipc_data, ipc_space, readerVars, ipc_sent, ipc_reports>>

RunStep(w) ==
  \/ Build(w) \/ WaitReturns(w) \/ WaitComplete(w)
  \/ WriteOnePacket(w) \/ WriteNothing(w) \/ EndWriteTransaction(w) \/ WaitOrRelease(w)

CloseStep(w) == ipc_queue[w].state = "closed" /\ RemoveOutboundQueue(w)

ReaderStep == DataAvailable \/ ReadOnePacket \/ ReadNothing \/ EndReadTransaction

ChannelNext ==
  \/ ReaderStep \/ KillReader
  \/ \E w \in Writer :
       \/ SendWithCompletion(w) \/ SendToAll(w)
       \/ RunStep(w) \/ RemoveOutboundQueue(w) \/ EndWriter(w)

ChannelFairness ==
  /\ WF_channelVars(ReaderStep)
  /\ \A w \in Writer : WF_channelVars(RunStep(w) \/ CloseStep(w))

ChannelSpec == ChannelInit /\ [][ChannelNext]_channelVars /\ ChannelFairness

-----------------------------------------------------------------------------
(* What is dispatched is exactly one message of its sender, whole, and the *)
(* messages of a sender arrive in the order sent, whatever other writers   *)
(* put between or left unfinished in the buffer.                           *)
Whole(data) ==
  /\ \A i \in 1 .. Len(data) :
       /\ data[i].msg = data[1].msg
       /\ data[i].from = IF i = 1 THEN 0 ELSE data[i - 1].from + data[i - 1].size
  /\ Last(data).from + Last(data).size = data[1].msg.size

WholeMessages ==
  \A w \in Writer :
    /\ \A i \in 1 .. Len(ipc_delivered[w]) : Whole(ipc_delivered[w][i]) /\ ipc_delivered[w][i][1].msg.from = w
    /\ \A i, j \in 1 .. Len(ipc_delivered[w]) :
         i < j => ipc_delivered[w][i][1].msg.n < ipc_delivered[w][j][1].msg.n

(* The asserts of ReadOnePacket: a packet that continues a message follows *)
(* its predecessor directly.                                               *)
PacketFollows(p, q) ==
  q.sequence # 0 => ~p.last /\ p.msg = q.msg /\ q.sequence = p.sequence + 1

PacketsFollow ==
  LET all == <<ipc_reader.last>> \o ipc_buffer
  IN  \A i \in 1 .. Len(all) - 1 : PacketFollows(all[i], all[i + 1])

(* The callback of a message comes once; a message reported as failed is   *)
(* never delivered, one reported as sent is in the buffer or delivered.    *)
Completed(w) ==
  {ipc_delivered[w][i][1].msg : i \in 1 .. Len(ipc_delivered[w])}
    \cup {ipc_buffer[i].msg : i \in {k \in 1 .. Len(ipc_buffer) : ipc_buffer[k].last}}

ReportIsTrue ==
  \A w \in Writer :
    LET reports == ipc_reports[w]
    IN  /\ \A i, j \in 1 .. Len(reports) : i # j => reports[i].msg # reports[j].msg
        /\ \A i \in 1 .. Len(reports) : reports[i].ok <=> reports[i].msg \in Completed(w)

(* A writer that waits for space, mutex in hand, will be woken as long as  *)
(* the reader lives: the space event is set, or the reader is at work or   *)
(* about to be called.  Otherwise everyone waits on everyone.              *)
SpaceIsSignalled ==
  \A w \in Writer :
    ipc_queue[w].waits = "space" /\ ipc_queue[w].state = "open" /\ ipc_alive =>
      ipc_space \/ ipc_data \/ ipc_reader.at # "wait"

CallbackDue(n) == n <= Len(ipc_sent) /\ ipc_sent[n].callback

CallbackSettled(n) ==
  /\ n <= Len(ipc_sent)
  /\ LET w == ipc_sent[n].from
     IN  \/ ipc_run[w].at = "dead"
         \/ \E i \in 1 .. Len(ipc_reports[w]) : ipc_reports[w][i].msg.n = n

(* Every message that wants a callback gets it, unless its writer ends. *)
EveryOneReported == \A n \in 1 .. Len(Sends) : CallbackDue(n) ~> CallbackSettled(n)

(* Packets of several writers, any of which may be killed in the middle of *)
(* a message, are put together into whole messages only, in each writer's  *)
(* order.                                                                  *)
MessagesArriveWhole ==
  /\ ChannelTypeOK
  /\ WholeMessages
  /\ PacketsFollow
=============================================================================
