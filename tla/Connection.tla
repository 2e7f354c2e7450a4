----------------------------- MODULE Connection -----------------------------
(***************************************************************************)
(* One inbound connection, from accept to connmgr_destroy_conn: the part   *)
(* of the event loop in main.c that looks after it, the task_io_read and   *)
(* task_io_send tasks the event loop submits for it, the message framing   *)
(* of netio.c, the answers of pong.c, and the client at the other end of   *)
(* the TCP stream.                                                         *)
(*                                                                         *)
(* A byte of the client's stream is <<m, i>>, byte i of its message m; a   *)
(* byte of an answer is <<m, kind, i>>.  The workers run tasks in parallel *)
(* and in any order, but each task holds the connection's mutex from start *)
(* to end, so a task is one step; the event loop takes the same mutex for  *)
(* moments only, so each visit to the connection is a step of its own.     *)
(* Each recv and send is non-blocking: what a whole nl_recvall or          *)
(* nl_sendall loop moves is what the socket's buffers allow.               *)
(***************************************************************************)
EXTENDS Naturals, Sequences, SequencesExt

CONSTANTS
  HeaderSize,   \* HEADER_SIZE: the type and the length of the content
  MessageSize,  \* sizeof(ping_pong_t), header included
  BufSize,      \* IO_BUF_SIZE
  SendRoom,     \* bytes the kernel buffers for a client that does not read
  Lengths,      \* content lengths a client announces, in 16 bits
  NumThreads,   \* NUM_THREADS, the workers of the pool
  MaxMessages,  \* bound: messages the client sends
  MaxTasks,     \* bound: read tasks, and send tasks, not yet run
  MaxFaults     \* bound: failing calls in the event loop

U16Max == 65535   \* UINT16_MAX, the largest length a header can announce

ASSUME ConnectionAssumption ==
  /\ HeaderSize \in Nat \ {0}
  /\ MessageSize \in Nat /\ HeaderSize < MessageSize /\ MessageSize <= BufSize
  /\ BufSize \in Nat
  /\ SendRoom \in Nat
  /\ Lengths \subseteq 0..U16Max
  /\ NumThreads \in Nat \ {0}
  /\ MaxMessages \in Nat /\ MaxTasks \in Nat /\ MaxFaults \in Nat

VARIABLES
  asked,      \* the messages the client has written, a sequence
  wire,       \* its bytes on their way to the server
  fin,        \* the client has closed its end
  rst,        \* the connection was reset
  delivered,  \* the bytes the server has written
  unread,     \* how many of them the client has not read yet
  rcvq,       \* the socket's receive buffer
  \* conn_ctx_t
  state, p_recv_buf, bytes_read, bytes_to_read,
  p_send_buf, bytes_to_send, bytes_sent, ref_count,
  freed,      \* connmgr_destroy_conn was called
  \* main and the pool
  main,       \* where the event loop is, as far as this connection goes
  cur,        \* cur_state and cur_refs
  revents,    \* what poll reported for the connection
  reads,      \* task_io_read tasks submitted and not run
  sends,      \* task_io_send tasks submitted and not run
  g_should_shutdown,
  faults

clientVars == <<asked, wire, fin, rst>>
recvVars == <<rcvq, p_recv_buf, bytes_read, bytes_to_read>>
sendVars == <<p_send_buf, bytes_to_send, bytes_sent, delivered, unread>>
loopVars == <<main, cur, revents, freed, faults>>
vars == <<clientVars, recvVars, sendVars, loopVars, state, ref_count, reads, sends,
          g_should_shutdown>>

States == {"READ_HEADER", "READ_CONTENT", "WRITE_RESPONSE", "PENDING_CLOSE"}

\* A message: the length its header announces and carries, and whether it
\* says "ping".
Messages == [len : Lengths, ping : BOOLEAN]

\* connmgr_create_new_conn, for the connection nl_accept has just accepted.
Init ==
  /\ asked = <<>> /\ wire = <<>> /\ fin = FALSE /\ rst = FALSE
  /\ rcvq = <<>> /\ p_recv_buf = <<>> /\ bytes_read = 0 /\ bytes_to_read = HeaderSize
  /\ p_send_buf = <<>> /\ bytes_to_send = 0 /\ bytes_sent = 0
  /\ delivered = <<>> /\ unread = 0
  /\ main = "check" /\ cur = [state |-> "READ_HEADER", refs |-> 0] /\ revents = {}
  /\ freed = FALSE /\ faults = 0
  /\ state = "READ_HEADER" /\ ref_count = 0 /\ reads = 0 /\ sends = 0
  /\ g_should_shutdown = FALSE
-----------------------------------------------------------------------------
(* The client and the network.                                             *)

Bytes(m, len) == [i \in 1..(HeaderSize + len) |-> <<m, i>>]

ClientSend(msg) ==
  /\ Len(asked) < MaxMessages
  /\ ~fin /\ ~rst
  /\ asked' = Append(asked, msg)
  /\ wire' = wire \o Bytes(Len(asked) + 1, msg.len)
  /\ UNCHANGED <<fin, rst, recvVars, sendVars, loopVars, state, ref_count, reads, sends,
                 g_should_shutdown>>

\* TCP delivers in order and in pieces of any size.
Deliver(n) ==
  /\ n \in 1..Len(wire)
  /\ rcvq' = rcvq \o SubSeq(wire, 1, n)
  /\ wire' = SubSeq(wire, n + 1, Len(wire))
  /\ UNCHANGED <<asked, fin, rst, p_recv_buf, bytes_read, bytes_to_read, sendVars, loopVars,
                 state, ref_count, reads, sends, g_should_shutdown>>

\* The client reads what has arrived, all of it.
ClientRecv ==
  /\ unread > 0
  /\ unread' = 0
  /\ UNCHANGED <<clientVars, recvVars, p_send_buf, bytes_to_send, bytes_sent, delivered,
                 loopVars, state, ref_count, reads, sends, g_should_shutdown>>

ClientClose ==
  /\ ~fin /\ ~rst
  /\ fin' = TRUE
  /\ UNCHANGED <<asked, wire, rst, recvVars, sendVars, loopVars, state, ref_count, reads,
                 sends, g_should_shutdown>>

\* A reset discards what is on its way; whether what has arrived can still be
\* read depends on the system.
ClientReset ==
  /\ ~rst
  /\ rst' = TRUE
  /\ wire' = <<>>
  /\ rcvq' \in {rcvq, <<>>}
  /\ UNCHANGED <<asked, fin, p_recv_buf, bytes_read, bytes_to_read, sendVars, loopVars,
                 state, ref_count, reads, sends, g_should_shutdown>>
-----------------------------------------------------------------------------
(* netio.c: what nl_recvall and nl_sendall return.                         *)

Outcome(n, err) == [n |-> n, err |-> err]

\* nl_recvall for len bytes: it succeeds without a recv for a length of zero;
\* after a reset recv fails once and reports the end of the stream from then on.
RecvAll(len) ==
  IF Len(rcvq) >= len THEN {Outcome(len, "NL_IO_SUCCESS")}
  ELSE IF rst THEN {Outcome(Len(rcvq), "NL_RECV_ERR"), Outcome(Len(rcvq), "NL_IO_EOF")}
  ELSE IF fin /\ wire = <<>> THEN {Outcome(Len(rcvq), "NL_IO_EOF")}
  ELSE {Outcome(Len(rcvq), "NL_IO_EWOULDBLOCK")}

\* nl_sendall for len bytes.
SendAll(len) ==
  IF rst THEN Outcome(0, "NL_SEND_ERR")
  ELSE IF unread + len <= SendRoom THEN Outcome(len, "NL_IO_SUCCESS")
  ELSE Outcome(SendRoom - unread, "NL_IO_EWOULDBLOCK")

\* Mutant of Received: every recv starts at the beginning of the buffer.
ReceivedAtStart(n) == SubSeq(rcvq, 1, n)

\* What recv leaves in p_recv_buf: the bytes go behind the bytes_read first.
Received(n) == SubSeq(p_recv_buf, 1, bytes_read) \o SubSeq(rcvq, 1, n)

\* Mutant of IncomingLen: the length is taken to be that of the whole message.
IncomingLenOfWhole(buf) ==
  LET m == buf[HeaderSize][1] IN {HeaderSize + asked[m].len}

\* Mutant of IncomingLen: ntohs is forgotten.
IncomingLenUnswapped(buf) ==
  LET m == buf[HeaderSize][1] IN {(asked[m].len % 256) * 256 + asked[m].len \div 256}

\* The length field of the header in buf. If buf did not start with a header,
\* it would be any value.
IncomingLen(buf) ==
  LET m == buf[HeaderSize][1]
  IN  IF \A i \in 1..HeaderSize : buf[i] = <<m, i>> THEN {asked[m].len} ELSE Lengths

\* proto_pingpong_create_response. A message of another length than a ping's is
\* answered without looking at it; otherwise the answer carries its client id.
Answer(buf, len) ==
  LET m == buf[1][1]
      ping == buf = Bytes(m, MessageSize - HeaderSize) /\ asked[m].ping
      kind == IF len # MessageSize THEN <<0, "err">>
              ELSE IF ping THEN <<m, "pong">> ELSE <<m, "err">>
  IN  [i \in 1..MessageSize |-> <<kind[1], kind[2], i>>]
-----------------------------------------------------------------------------
(* task_io_read and task_io_send.                                          *)

\* What a task does is defined as long as its context has not been freed (see
\* NoUseAfterFree) and no content was written past the end of p_recv_buf.
Defined == ~freed /\ main # "undefined"

\* Mutant of TaskRead: two references are dropped.
TaskReadDropsTwo ==
  /\ Defined
  /\ reads > 0
  /\ reads' = reads - 1
  /\ ref_count' = ref_count - 2
  /\ UNCHANGED <<sends, clientVars, loopVars, delivered, unread, bytes_sent, g_should_shutdown>>

\* What every read task does around its input: the lock, ref_count--.
TaskRead ==
  /\ Defined
  /\ reads > 0
  /\ reads' = reads - 1
  /\ ref_count' = ref_count - 1
  /\ UNCHANGED <<sends, clientVars, loopVars, delivered, unread, bytes_sent, g_should_shutdown>>

\* Mutant of TaskSend: the reference is kept.
TaskSendKeepsRef ==
  /\ Defined
  /\ sends > 0
  /\ sends' = sends - 1
  /\ UNCHANGED <<ref_count, reads, clientVars, loopVars, rcvq, p_recv_buf, bytes_read,
                 g_should_shutdown>>

TaskSend ==
  /\ Defined
  /\ sends > 0
  /\ sends' = sends - 1
  /\ ref_count' = ref_count - 1
  /\ UNCHANGED <<reads, clientVars, loopVars, rcvq, p_recv_buf, bytes_read, g_should_shutdown>>

\* The state the task was submitted for is gone: nothing is read.
ReadSkips ==
  /\ TaskRead
  /\ state \notin {"READ_HEADER", "READ_CONTENT"} \/ g_should_shutdown
  /\ UNCHANGED <<recvVars, p_send_buf, bytes_to_send, state>>

ReadHeader ==
  /\ TaskRead
  /\ state = "READ_HEADER" /\ ~g_should_shutdown
  /\ \E o \in RecvAll(bytes_to_read) :
       LET complete == o.err = "NL_IO_SUCCESS" /\ bytes_read + o.n = HeaderSize IN
       /\ p_recv_buf' = Received(o.n)
       /\ rcvq' = SubSeq(rcvq, o.n + 1, Len(rcvq))
       /\ bytes_read' = bytes_read + o.n
       /\ IF complete
          THEN bytes_to_read' \in IncomingLen(Received(o.n))
          ELSE bytes_to_read' = bytes_to_read - o.n
       /\ state' = IF complete THEN "READ_CONTENT"
                   ELSE IF o.err = "NL_IO_EOF" THEN "PENDING_CLOSE" ELSE state
  /\ UNCHANGED <<p_send_buf, bytes_to_send>>

ReadContent ==
  /\ TaskRead
  /\ state = "READ_CONTENT" /\ ~g_should_shutdown
  /\ \E o \in RecvAll(bytes_to_read) :
       LET complete == o.err = "NL_IO_SUCCESS" /\ bytes_to_read - o.n = 0 IN
       /\ bytes_read + o.n <= BufSize
       /\ rcvq' = SubSeq(rcvq, o.n + 1, Len(rcvq))
       /\ bytes_to_read' = bytes_to_read - o.n
       /\ IF complete
          THEN /\ p_send_buf' = Answer(Received(o.n), bytes_read + o.n)
               /\ bytes_to_send' = MessageSize
               /\ p_recv_buf' = <<>>
               /\ bytes_read' = 0
          ELSE /\ p_recv_buf' = Received(o.n)
               /\ bytes_read' = bytes_read + o.n
               /\ UNCHANGED <<p_send_buf, bytes_to_send>>
       /\ state' = IF complete THEN "WRITE_RESPONSE"
                   ELSE IF o.err = "NL_IO_EOF" THEN "PENDING_CLOSE" ELSE state

\* Nothing compares the announced length with IO_BUF_SIZE: if more has arrived than
\* p_recv_buf has room for, recv writes past its end. What the program does from
\* there on is undefined, and the model ends.
ReadOverrun ==
  /\ Defined
  /\ reads > 0
  /\ state = "READ_CONTENT" /\ ~g_should_shutdown
  /\ \E o \in RecvAll(bytes_to_read) : bytes_read + o.n > BufSize
  /\ main' = "undefined"
  /\ UNCHANGED <<clientVars, recvVars, sendVars, cur, revents, freed, faults, state,
                 ref_count, reads, sends, g_should_shutdown>>

SendSkips ==
  /\ TaskSend
  /\ state # "WRITE_RESPONSE" \/ g_should_shutdown
  /\ UNCHANGED <<bytes_to_read, sendVars, state>>

\* Mutants of WriteResponse: the state is not checked; the next header is not
\* asked for.
WriteResponseStale ==
  /\ TaskSend
  /\ LET o == SendAll(bytes_to_send)
     IN  /\ delivered' = delivered \o SubSeq(p_send_buf, 1, o.n)
         /\ unread' = unread + o.n
         /\ state' = "READ_HEADER"
         /\ bytes_to_read' = HeaderSize
         /\ bytes_to_send' = 0 /\ bytes_sent' = 0
         /\ p_send_buf' = <<>>

WriteResponseNoRearm ==
  /\ TaskSend
  /\ state = "WRITE_RESPONSE" /\ ~g_should_shutdown
  /\ LET o == SendAll(bytes_to_send)
     IN  /\ delivered' = delivered \o SubSeq(p_send_buf, 1, o.n)
         /\ unread' = unread + o.n
         /\ state' = IF o.n = bytes_to_send THEN "READ_HEADER" ELSE state
         /\ bytes_to_send' = bytes_to_send - o.n
         /\ bytes_sent' = 0
         /\ UNCHANGED <<bytes_to_read, p_send_buf>>

\* Mutant of WriteResponse: what was sent is not subtracted.
WriteResponseWholeAgain ==
  /\ TaskSend
  /\ state = "WRITE_RESPONSE" /\ ~g_should_shutdown
  /\ LET o == SendAll(bytes_to_send)
     IN  /\ delivered' = delivered \o SubSeq(p_send_buf, 1, o.n)
         /\ unread' = unread + o.n
         /\ IF o.err = "NL_IO_SUCCESS"
            THEN /\ state' = "READ_HEADER"
                 /\ bytes_to_read' = HeaderSize
                 /\ bytes_to_send' = 0 /\ bytes_sent' = 0
                 /\ p_send_buf' = <<>>
            ELSE UNCHANGED <<state, bytes_to_read, bytes_to_send, bytes_sent, p_send_buf>>

\* nl_handle_sock_data_out: each call starts at the beginning of p_send_buf.
WriteResponse ==
  /\ TaskSend
  /\ state = "WRITE_RESPONSE" /\ ~g_should_shutdown
  /\ LET o == SendAll(bytes_to_send)
         complete == o.err = "NL_IO_SUCCESS" /\ bytes_to_send - o.n = 0
     IN  /\ delivered' = delivered \o SubSeq(p_send_buf, 1, o.n)
         /\ unread' = unread + o.n
         /\ IF complete
            THEN /\ state' = "READ_HEADER"
                 /\ bytes_to_read' = HeaderSize
                 /\ bytes_to_send' = 0 /\ bytes_sent' = 0
                 /\ p_send_buf' = <<>>
            ELSE /\ bytes_to_send' = bytes_to_send - o.n
                 /\ bytes_sent' = bytes_sent + o.n
                 /\ UNCHANGED <<state, bytes_to_read, p_send_buf>>
-----------------------------------------------------------------------------
(* The event loop.                                                         *)

\* The top of the loop: the shutdown flag, then state and references of the
\* connection under its mutex.
Check ==
  /\ main = "check"
  /\ IF g_should_shutdown
     THEN main' = "stopped" /\ UNCHANGED cur
     ELSE main' = "reap" /\ cur' = [state |-> state, refs |-> ref_count]
  /\ UNCHANGED <<clientVars, recvVars, sendVars, revents, freed, faults, state, ref_count,
                 reads, sends, g_should_shutdown>>

\* Mutant of Reap: the reference count is not looked at.
ReapEager ==
  /\ main = "reap"
  /\ IF cur.state = "PENDING_CLOSE"
     THEN main' = "gone" /\ freed' = TRUE
     ELSE main' = "poll" /\ UNCHANGED freed
  /\ UNCHANGED <<clientVars, recvVars, sendVars, cur, revents, faults, state, ref_count,
                 reads, sends, g_should_shutdown>>

\* After the unlock: connmgr_destroy_conn if the connection is to be closed and
\* was not referenced.
Reap ==
  /\ main = "reap"
  /\ IF cur.state = "PENDING_CLOSE" /\ cur.refs = 0
     THEN main' = "gone" /\ freed' = TRUE
     ELSE main' = "poll" /\ UNCHANGED freed
  /\ UNCHANGED <<clientVars, recvVars, sendVars, cur, revents, faults, state, ref_count,
                 reads, sends, g_should_shutdown>>

\* What poll reports of a TCP socket.
Events ==
  (IF rcvq # <<>> \/ (fin /\ wire = <<>>) \/ rst THEN {"POLLIN"} ELSE {}) \cup
  (IF rst THEN {"POLLHUP"} ELSE {}) \cup
  (IF rst \/ unread < SendRoom THEN {"POLLOUT"} ELSE {})

\* Other descriptors may wake poll up too. If the signal thread has written to
\* the self-pipe, the loop over the connections ends before it gets to this one
\* (the pipe is the second connection).
Poll ==
  /\ main = "poll"
  /\ revents' = Events
  /\ \/ main' = "pollin"
     \/ main' = "check" /\ g_should_shutdown
  /\ UNCHANGED <<clientVars, recvVars, sendVars, cur, freed, faults, state, ref_count,
                 reads, sends, g_should_shutdown>>

PollIn ==
  /\ main = "pollin"
  /\ IF "POLLIN" \in revents
     THEN /\ reads < MaxTasks
          /\ ref_count' = ref_count + 1
          /\ reads' = reads + 1
     ELSE UNCHANGED <<ref_count, reads>>
  /\ main' = "pollhup"
  /\ UNCHANGED <<clientVars, recvVars, sendVars, cur, revents, freed, faults, state, sends,
                 g_should_shutdown>>

PollHup ==
  /\ main = "pollhup"
  /\ state' = IF "POLLHUP" \in revents THEN "PENDING_CLOSE" ELSE state
  /\ main' = "pollout"
  /\ UNCHANGED <<clientVars, recvVars, sendVars, cur, revents, freed, faults, ref_count,
                 reads, sends, g_should_shutdown>>

PollOut ==
  /\ main = "pollout"
  /\ IF "POLLOUT" \in revents
     THEN /\ sends < MaxTasks
          /\ ref_count' = ref_count + 1
          /\ sends' = sends + 1
     ELSE UNCHANGED <<ref_count, sends>>
  /\ main' = "check"
  /\ UNCHANGED <<clientVars, recvVars, sendVars, cur, revents, freed, faults, state, reads,
                 g_should_shutdown>>

\* coin_tpool_wait returns once no task is queued or counted as active. A worker
\* that has popped a task and not counted it yet goes unnoticed (WaitReturnsIdle
\* of ThreadPool), so up to one task per worker may be left.
WaitPool ==
  /\ main = "stopped"
  /\ reads + sends <= NumThreads
  /\ main' = "cleanup"
  /\ UNCHANGED <<clientVars, recvVars, sendVars, cur, revents, freed, faults, state,
                 ref_count, reads, sends, g_should_shutdown>>

Fault ==
  /\ faults < MaxFaults
  /\ faults' = faults + 1

\* poll fails: the loop is left as for a shutdown.
PollFails ==
  /\ main = "poll"
  /\ Fault
  /\ main' = "stopped"
  /\ UNCHANGED <<clientVars, recvVars, sendVars, cur, revents, freed, state, ref_count,
                 reads, sends, g_should_shutdown>>

\* connmgr_update_connections, nl_accept or the look-up of a connection fails:
\* the event loop gives up and cleans up without waiting for the pool.
LoopGivesUp ==
  /\ main \in {"poll", "pollin"}
  /\ Fault
  /\ main' = "cleanup"
  /\ UNCHANGED <<clientVars, recvVars, sendVars, cur, revents, freed, state, ref_count,
                 reads, sends, g_should_shutdown>>

\* coin_tpool_wait fails, and the cleanup goes on all the same.
WaitPoolFails ==
  /\ main = "stopped"
  /\ Fault
  /\ main' = "cleanup"
  /\ UNCHANGED <<clientVars, recvVars, sendVars, cur, revents, freed, state, ref_count,
                 reads, sends, g_should_shutdown>>

\* coin_tpool_submit reports an error (the task may be queued all the same, see
\* SubmitSignalFails of ThreadPool): the event loop gives up as well.
PollInFails ==
  /\ main = "pollin"
  /\ "POLLIN" \in revents
  /\ Fault
  /\ ref_count' = ref_count + 1
  /\ reads < MaxTasks
  /\ reads' \in {reads, reads + 1}
  /\ main' = "cleanup"
  /\ UNCHANGED <<clientVars, recvVars, sendVars, cur, revents, freed, state, sends,
                 g_should_shutdown>>

\* For a send task the event loop goes on, and the reference stays counted.
PollOutFails ==
  /\ main = "pollout"
  /\ "POLLOUT" \in revents
  /\ Fault
  /\ ref_count' = ref_count + 1
  /\ sends < MaxTasks
  /\ sends' \in {sends, sends + 1}
  /\ main' = "check"
  /\ UNCHANGED <<clientVars, recvVars, sendVars, cur, revents, freed, state, reads,
                 g_should_shutdown>>

\* The cleanup_connections label: connmgr_destroy_all_conns looks at no
\* reference count.
DestroyAllConns ==
  /\ main = "cleanup"
  /\ freed' = TRUE
  /\ main' = "gone"
  /\ UNCHANGED <<clientVars, recvVars, sendVars, cur, revents, faults, state, ref_count,
                 reads, sends, g_should_shutdown>>

\* The signal thread.
ShutDown ==
  /\ ~g_should_shutdown
  /\ g_should_shutdown' = TRUE
  /\ UNCHANGED <<clientVars, recvVars, sendVars, loopVars, state, ref_count, reads, sends>>

\* The context is gone, or nothing is defined any more.
Ended ==
  /\ main \in {"gone", "undefined"}
  /\ UNCHANGED vars
-----------------------------------------------------------------------------
Client ==
  \/ \E msg \in Messages : ClientSend(msg)
  \/ ClientRecv
  \/ ClientClose \/ ClientReset

Network == \E n \in 1..Len(wire) : Deliver(n)

ReadTask == ReadSkips \/ ReadHeader \/ ReadContent \/ ReadOverrun
SendTask == SendSkips \/ WriteResponse
Loop == Check \/ Reap \/ Poll \/ PollIn \/ PollHup \/ PollOut \/ WaitPool \/ DestroyAllConns
LoopFault == PollFails \/ LoopGivesUp \/ WaitPoolFails \/ PollInFails \/ PollOutFails

Next == Client \/ Network \/ ReadTask \/ SendTask \/ Loop \/ LoopFault \/ ShutDown
        \/ Ended

Spec == Init /\ [][Next]_vars

\* The network delivers, the pool runs what is submitted (EveryTaskRuns of
\* ThreadPool), the event loop goes round. The client owes nothing.
Fairness ==
  /\ WF_vars(Network)
  /\ WF_vars(ReadTask)
  /\ WF_vars(SendTask)
  /\ WF_vars(Loop)

FairSpec == Spec /\ Fairness
-----------------------------------------------------------------------------
(* Properties.                                                             *)

ReadBytes == Nat \X Nat
AnswerBytes == Nat \X {"pong", "err"} \X Nat

\* Every field keeps its type: the counters never go below zero, those of an answer
\* stay within it, and wire, socket and receive buffer hold bytes of messages,
\* p_send_buf and what is delivered bytes of answers.
TypeOK ==
  /\ asked \in Seq(Messages)
  /\ wire \in Seq(ReadBytes) /\ rcvq \in Seq(ReadBytes) /\ p_recv_buf \in Seq(ReadBytes)
  /\ p_send_buf \in Seq(AnswerBytes) /\ delivered \in Seq(AnswerBytes)
  /\ fin \in BOOLEAN /\ rst \in BOOLEAN /\ freed \in BOOLEAN
  /\ g_should_shutdown \in BOOLEAN
  /\ state \in States
  /\ bytes_read \in Nat /\ bytes_to_read \in Nat
  /\ bytes_to_send \in 0..MessageSize /\ bytes_sent \in 0..MessageSize
  /\ unread \in 0..SendRoom
  /\ ref_count \in Nat /\ reads \in 0..MaxTasks /\ sends \in 0..MaxTasks
  /\ main \in {"check", "reap", "poll", "pollin", "pollhup", "pollout", "stopped",
               "cleanup", "gone", "undefined"}
  /\ cur \in [state : States, refs : Nat]
  /\ revents \subseteq {"POLLIN", "POLLHUP", "POLLOUT"}
  /\ faults \in 0..MaxFaults

\* The message that is next to be answered is longer than p_recv_buf.
NextTooLong ==
  LET m == Len(delivered) \div MessageSize + 1
  IN  m <= Len(asked) /\ HeaderSize + asked[m].len > BufSize

\* read_content writes past p_recv_buf, and more is asked for than IO_BUF_SIZE, only
\* because of the message that is next to be answered, when that is longer than the
\* buffer: however many messages are on their way, in whatever pieces, and whichever
\* tasks run late, messages that fit are never read over the end of the buffer.
OverrunOnlyByLength ==
  main = "undefined" \/ bytes_read + bytes_to_read > BufSize => NextTooLong

\* The answer the protocol prescribes for message m.
Expected(m, msg) ==
  LET kind == IF HeaderSize + msg.len # MessageSize THEN <<0, "err">>
              ELSE <<m, IF msg.ping THEN "pong" ELSE "err">>
  IN  [i \in 1..MessageSize |-> <<kind[1], kind[2], i>>]

\* The bytes of the messages q, and of the answers to them.
StreamOf(q) == FlattenSeq([m \in 1..Len(q) |-> Bytes(m, q[m].len)])
AnswersTo(q) == FlattenSeq([m \in 1..Len(q) |-> Expected(m, q[m])])

\* However the stream is cut into pieces and the tasks are interleaved, what the
\* server writes is the answers to the messages, whole and in order.
AnswersInOrder == IsPrefix(delivered, AnswersTo(asked))

\* A send that is cut short is continued with the wrong bytes (netio.c starts again
\* at the beginning of p_send_buf), but with the right number of them: the client
\* still finds its answers where it expects them, one for each message and every
\* MessageSize bytes, and byte j of such a place is a byte of that answer, never one
\* from behind byte j and never one of another answer.
AnswersAligned ==
  /\ Len(delivered) <= Len(asked) * MessageSize
  /\ \A m \in 1..Len(asked), j \in 1..MessageSize :
       LET at == (m - 1) * MessageSize + j
       IN  at <= Len(delivered) => \E i \in 1..j : delivered[at] = Expected(m, asked[m])[i]

\* The client's bytes that have not been answered: in the connection's buffer, in
\* the socket, on the wire.
Pending == p_recv_buf \o rcvq \o wire

\* While the connection is read, no byte is lost, read twice or attributed to
\* the wrong message: read_header and read_content hold the start of the next
\* unanswered message, and the rest is in the socket or on the wire.
NothingLost ==
  state \in {"READ_HEADER", "READ_CONTENT"} /\ ~rst =>
    LET answered == Len(delivered) \div MessageSize
    IN  /\ bytes_read = Len(p_recv_buf)
        /\ StreamOf(SubSeq(asked, 1, answered)) \o Pending = StreamOf(asked)

\* While nothing arrives poll reports no POLLIN, no read task is submitted, and a
\* connection that is being read stays as it is: it then must owe no answer, and
\* hold no part of a message. The exception is a message without content, which
\* is complete with its header and then waits for a read task all the same.
QuietOwesNothing ==
  state \in {"READ_HEADER", "READ_CONTENT"} /\ ~rst /\ rcvq = <<>> /\ wire = <<>> =>
    \/ /\ Len(delivered) = Len(asked) * MessageSize
       /\ state = "READ_HEADER" /\ bytes_read = 0
    \/ /\ state = "READ_CONTENT"
       /\ asked[Len(delivered) \div MessageSize + 1].len = 0

\* The tasks that still hold the connection's context.
Outstanding == reads + sends

\* ref_count counts the tasks submitted and not run, on every path through the
\* tasks and the event loop. Each failing coin_tpool_submit may leave one
\* reference too many (the connection is then never reaped), never one too few.
RefsCounted == Outstanding <= ref_count /\ ref_count <= Outstanding + faults

\* The comment in connmgr_destroy_all_conns: no task uses a context any more when
\* it is freed, because the pool was waited for or shut down before.
NoUseAfterFree == freed => Outstanding = 0

\* The event loop itself destroys a connection only when no task will use it,
\* although it decides on a copy of ref_count taken before, and whatever call
\* fails: references may leak, but are never short.
ReapSafe == [][main = "reap" /\ freed' => Outstanding = 0]_vars

\* PENDING_CLOSE is final: no late task puts the connection back to work.
ClosedIsFinal ==
  [][state = "PENDING_CLOSE" => state' = "PENDING_CLOSE" /\ UNCHANGED delivered]_vars

\* A message that has been sent is answered, also after a failing submit, unless
\* the client goes away, the server is shut down or leaves its loop, or a message
\* overruns its buffer.
EveryMessageAnswered ==
  \A m \in 1..MaxMessages :
    (Len(asked) >= m) ~>
      \/ Len(delivered) >= m * MessageSize
      \/ fin \/ rst \/ g_should_shutdown
      \/ main \in {"stopped", "cleanup", "gone", "undefined"}

-----------------------------------------------------------------------------
(* The inductive invariant behind the proofs of ConnectionProofs: every    *)
(* task that may still run is counted in ref_count, and the copy the event *)
(* loop decides on is no lower, because only the event loop counts up.     *)
RefInv ==
  /\ reads \in Nat /\ sends \in Nat /\ ref_count \in Nat
  /\ faults \in Nat
  /\ RefsCounted
  /\ main = "reap" => cur.refs \in Nat /\ cur.refs >= Outstanding
  /\ freed => main = "gone"
-----------------------------------------------------------------------------
(* The inductive invariant behind the stream properties: the first n       *)
(* messages are answered, and the buffers hold exactly what comes next.    *)

\* The client's stream is the first n messages and what is pending; a reset may
\* have cut the end off.
Follows(n) ==
  LET s == StreamOf(SubSeq(asked, 1, n)) \o Pending
  IN  IsPrefix(s, StreamOf(asked)) /\ (~rst => s = StreamOf(asked))

\* Nothing is waiting to be sent while a message is read.
NothingToSend == bytes_to_send = 0 /\ bytes_sent = 0 /\ p_send_buf = <<>>

\* READ_HEADER: part of a header is read, and the rest of it is asked for.
AtHeader(n) ==
  /\ NothingToSend
  /\ bytes_read = Len(p_recv_buf)
  /\ bytes_to_read \in Nat \ {0} /\ bytes_read + bytes_to_read = HeaderSize
  /\ Follows(n)

\* READ_CONTENT: the header of message n + 1 is read, and its content is asked for.
AtContent(n) ==
  /\ NothingToSend
  /\ n < Len(asked)
  /\ bytes_read = Len(p_recv_buf) /\ bytes_read >= HeaderSize
  /\ bytes_to_read \in Nat
  /\ bytes_read + bytes_to_read = HeaderSize + asked[n + 1].len
  /\ Follows(n)

\* WRITE_RESPONSE: message n + 1 is read, and part of its answer is to be sent.
AtResponse(n) ==
  /\ n < Len(asked)
  /\ p_recv_buf = <<>> /\ bytes_read = 0 /\ bytes_to_read = 0
  /\ bytes_to_send \in Nat \ {0} /\ bytes_to_send + bytes_sent = MessageSize
  /\ p_send_buf = Expected(n + 1, asked[n + 1])
  /\ Follows(n + 1)

\* PENDING_CLOSE: only the limits of the buffers are left, which a message that is
\* longer than p_recv_buf exceeds.
AtClose(n) ==
  /\ bytes_to_read \in Nat
  /\ bytes_read + bytes_to_read > BufSize =>
       n < Len(asked) /\ HeaderSize + asked[n + 1].len > BufSize
  /\ bytes_to_send \in Nat /\ bytes_to_send + bytes_sent <= MessageSize

Position(n) ==
  /\ Len(delivered) = n * MessageSize + bytes_sent /\ bytes_sent < MessageSize
  /\ state = "READ_HEADER" => AtHeader(n)
  /\ state = "READ_CONTENT" => AtContent(n)
  /\ state = "WRITE_RESPONSE" => AtResponse(n)
  /\ state = "PENDING_CLOSE" => AtClose(n)

StreamTypes ==
  /\ asked \in Seq(Messages) /\ Len(asked) <= MaxMessages
  /\ wire \in Seq(ReadBytes) /\ rcvq \in Seq(ReadBytes) /\ p_recv_buf \in Seq(ReadBytes)
  /\ p_send_buf \in Seq(AnswerBytes) /\ delivered \in Seq(AnswerBytes)
  /\ state \in States
  /\ bytes_read \in Nat /\ bytes_sent \in Nat
  /\ unread \in 0..SendRoom
  /\ rst => wire = <<>>

StreamInv == StreamTypes /\ \E n \in 0..Len(asked) : Position(n)

\* While content is read some of it is missing, so that more bytes must arrive
\* before the next message; only a content of no bytes at all is never missing.
ContentOwed == state = "READ_CONTENT" /\ bytes_to_read = 0 => bytes_read = HeaderSize

\* The socket takes the rest of an answer in one nl_sendall.
RoomForAnswer == state = "WRITE_RESPONSE" => unread + bytes_to_send <= SendRoom

\* What has been written is whole answers, as long as no send was short.
AnswerInv ==
  /\ unread \in Nat /\ unread <= Len(delivered)
  /\ bytes_sent = 0
  /\ \E n \in 0..Len(asked) :
       /\ delivered = AnswersTo(SubSeq(asked, 1, n))
       /\ Len(delivered) = n * MessageSize
=============================================================================
