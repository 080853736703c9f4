--------------------------- MODULE TcpServerProofs ---------------------------
(***************************************************************************)
(* Theorems on TcpServer, for any number of connections, messages and      *)
(* writes.                                                                 *)
(*                                                                         *)
(* Phase says what the server has of its processor, its timer and its io   *)
(* services at each step from init to uinit; Accepting where the           *)
(* connection of the accept handler is.  Life says what can still happen   *)
(* to a connection, and Order what waits for it in the processor.          *)
(***************************************************************************)
EXTENDS TcpServer, SequenceTheorems, TLAPS

(* init succeeded. *)
Begun == main \in {"run", "wait", "join"} \/ unin = "done"

Phase ==
  /\ ~Begun =>
       /\ main \in {"init", "done"} /\ proc \in {"none", "freed"} /\ ~timer
       /\ service = "off" /\ unin = "no" /\ console = "off" /\ accept.at = "idle"
       /\ \A c \in Conn : con[c].sock = "none"
       /\ \A s \in Sender : sent[s] = "no"
  /\ Begun =>
       /\ main = "run" => service = "off" /\ unin = "no"
       /\ main = "wait" => service # "off"
       /\ main \in {"join", "done"} => unin = "done"
       /\ main # "init"
       /\ unin \in {"no", "close", "stop"} => service # "stopped" /\ timer
       /\ unin = "timer" => service = "stopped" /\ timer
       /\ unin \in {"free", "null"} => service = "stopped" /\ ~timer
       /\ unin = "done" => (service = "stopped" <=> ~timer)
       /\ timer => proc = "runs" /\ ptr
       /\ unin = "free" => proc \in {"stopping", "ended"} /\ ptr
       /\ unin = "null" => proc = "freed" /\ ptr
       /\ unin = "done" /\ ~timer => proc = "freed" /\ ~ptr

(* A handler that is at work after ios.stop was found there by it. *)
Stopped ==
  service = "stopped" =>
    \A c \in Conn : con[c].at # "idle" => seen[c].caught

Accepting ==
  /\ service = "off" => accept.at = "idle"
  /\ accept.at \in {"bind", "login", "recv"} <=> accept.conn # None
  /\ sent["accept"] # "no" => accept.at = "recv"
  /\ sent["accept"] = "true" => seen[accept.conn].login

(* A connection is read once it was accepted and the user was asked, or    *)
(* once it was connected; after an error it is not read again.             *)
Life(c) ==
  /\ con[c].writes <= seen[c].wrote
  /\ con[c].sock = "none" =>
       con[c].read = "off" /\ con[c].at = "idle" /\ con[c].writes = 0
  /\ con[c].sock = "none" => accept.conn # c
  /\ con[c].sock = "none" \/ accept.conn = c =>
       seen[c].errors = 0 /\ \A i \in 1..Len(tasks) : tasks[i].conn # c
  /\ accept.conn = c => con[c].read = "off"
  /\ con[c].at \in {"post", "again"} => con[c].why = "read" /\ con[c].read = "data"
  /\ con[c].at \in {"close", "report"} /\ con[c].why = "read" => con[c].read = "error"
  /\ con[c].read # "off" =>
       /\ seen[c].login \/ seen[c].refused
       /\ seen[c].errors = 0
       /\ \A i \in 1..Len(tasks) : tasks[i].conn = c => tasks[i].do = "recv"

(* The message that was read last was not posted yet. *)
Unposted(c) == con[c].read = "data" /\ con[c].at # "again"

(* The messages wait in the order they were read, the error behind them;   *)
(* with the error the connection is done.                                  *)
Order(c) ==
  /\ seen[c].errors <= 1
  /\ seen[c].last <= con[c].got /\ (Unposted(c) => seen[c].last < con[c].got)
  /\ \A i \in 1..Len(tasks) :
       tasks[i].conn = c =>
         /\ seen[c].errors = 0 /\ (seen[c].login \/ seen[c].refused)
         /\ tasks[i].do = "recv" =>
              /\ tasks[i].n > seen[c].last /\ tasks[i].n <= con[c].got
              /\ Unposted(c) => tasks[i].n < con[c].got
  /\ \A i, j \in 1..Len(tasks) :
       tasks[i].conn = c /\ tasks[j].conn = c /\ i < j =>
         /\ tasks[i].do = "recv"
         /\ tasks[j].do = "recv" => tasks[i].n < tasks[j].n

ControlInv == TypeOK /\ Phase /\ Stopped /\ Accepting
ServerInv ==
  ControlInv /\ FaultOnlyAtEnd /\ \A c \in Conn : Life(c) /\ Order(c)

-----------------------------------------------------------------------------
(***************************************************************************)
(* Types.                                                                  *)
(***************************************************************************)
Written == \A c \in Conn : con[c].writes <= seen[c].wrote

LEMMA Records ==
  ASSUME TypeOK
  PROVE  /\ con \in [Conn -> Connection]
         /\ seen \in [Conn -> Memory]
BY DEF TypeOK

(* What the actions write into a connection, and into what is remembered. *)
LEMMA ConnectionUpdates ==
  ASSUME NEW r \in Connection
  PROVE  Idle(r) \in Connection /\ StartRecv(r) \in {"pending", "off"}
BY DEF Idle, StartRecv, Connection

LEMMA ConnectionRead ==
  ASSUME NEW r \in Connection, NEW read \in {"pending", "off"},
         NEW sock \in {"open", "closed"}, NEW bound \in BOOLEAN
  PROVE  /\ [r EXCEPT !.at = "idle", !.read = read] \in Connection
         /\ [r EXCEPT !.sock = sock, !.bound = bound, !.read = read] \in Connection
BY DEF Connection

(* However ConnectServer ends, nothing of the connection is at work but    *)
(* its read.                                                               *)
LEMMA Connected ==
  ASSUME TypeOK, NEW c \in Conn, ConnectServer(c)
  PROVE  /\ con' = [con EXCEPT ![c] = con'[c]] /\ con'[c] \in Connection
         /\ con[c].sock = "none" /\ con'[c].sock # "none"
         /\ UNCHANGED <<con[c].got, con[c].writes, con[c].at, con[c].why>>
         /\ con'[c].read \in {"pending", con[c].read}
<1>1. PICK r \in Attempts(con[c]) : con' = [con EXCEPT ![c] = r]
  BY DEF ConnectServer
<1>2. con[c] \in Connection /\ ptr \in BOOLEAN
  BY Records DEF TypeOK
<1>3. /\ r \in Connection /\ r.sock # "none"
      /\ r.got = con[c].got /\ r.writes = con[c].writes
      /\ r.at = con[c].at /\ r.why = con[c].why
      /\ r.read \in {"pending", con[c].read}
  BY <1>2 DEF Attempts, Connection
<1>4. con'[c] = r
  BY <1>1, Records
<1> QED
  BY <1>1, <1>3, <1>4 DEF ConnectServer

LEMMA MemoryUpdates ==
  ASSUME NEW m \in Memory, NEW b \in BOOLEAN
  PROVE  /\ [m EXCEPT !.closed = b] \in Memory /\ [m EXCEPT !.login = b] \in Memory
         /\ [m EXCEPT !.refused = b] \in Memory /\ [m EXCEPT !.caught = b] \in Memory
BY DEF Memory

LEMMA TypeMain ==
  ASSUME TypeOK, gone' \subseteq Conn, Main \/ Signal \/ Uninit
  PROVE  TypeOK'
<1>1. CASE InitServer \/ InitFails
  <2>1. CASE InitServer
    BY <2>1 DEF InitServer, TypeOK
  <2>2. CASE InitFails
    BY <2>2 DEF InitFails, ioVars, TypeOK
  <2> QED
    BY <1>1, <2>1, <2>2
<1>2. CASE RunServer \/ MainEnds \/ MainJoins
  BY <1>2 DEF RunServer, StartAccept, MainEnds, MainJoins, procVars, ioVars, TypeOK
<1>3. CASE Signal
  BY <1>3 DEF Signal, Send, ioVars, TypeOK, Sender
<1>4. CASE UninitStop
  <2>1. seen' \in [Conn -> Memory]
    BY <1>4, Records DEF UninitStop, Memory
  <2> QED
    BY <1>4, <2>1 DEF UninitStop, procVars, TypeOK
<1>5. CASE UninitTimer
  <2>1. timer' \in BOOLEAN
    BY <1>5 DEF UninitTimer
  <2> QED
    BY <1>5, <2>1 DEF UninitTimer, TypeOK
<1>6. CASE UninitFree
  BY <1>6 DEF UninitFree, ioVars, TypeOK
<1>7. CASE UninitClose
  <2>1. acceptor' \in BOOLEAN
    BY <1>7 DEF UninitClose
  <2>2. sent' \in [Sender -> {"no", "asked", "true", "false"}]
    BY <1>7 DEF UninitClose, Forget, TypeOK
  <2> QED
    BY <1>7, <2>1, <2>2 DEF UninitClose, TypeOK
<1>8. CASE UninitNull
  <2>1. ptr' \in BOOLEAN
    BY <1>8 DEF UninitNull
  <2> QED
    BY <1>8, <2>1 DEF UninitNull, ioVars, TypeOK
<1>9. CASE UninitThrows
  <2>1. sent' \in [Sender -> {"no", "asked", "true", "false"}]
    BY <1>9 DEF UninitThrows, Forget, TypeOK
  <2>2. acceptor' \in BOOLEAN
    BY <1>9 DEF UninitThrows
  <2> QED
    BY <1>9, <2>1, <2>2 DEF UninitThrows, TypeOK
<1> QED
  BY <1>1, <1>2, <1>3, <1>4, <1>5, <1>6, <1>7, <1>8, <1>9 DEF Main, Uninit

LEMMA TypeControl ==
  ASSUME TypeOK, Accepting, gone' \subseteq Conn,
         \/ ReadLine \/ Console \/ Accept \/ UserTimer
         \/ \E s \in Sender : Serve(s) \/ WakeUp(s) \/ PushLate(s)
  PROVE  TypeOK'
<1>1. CASE ReadLine \/ Console \/ UserTimer
  BY <1>1 DEF ReadLine, Console, SendCommand, Send, CommandDone, Forget, UserTimer, ctlVars,
              procVars, ioVars, TypeOK, Sender
<1>2. CASE AcceptFails
  BY <1>2 DEF AcceptFails, StartAccept, procVars, ioVars, TypeOK
<1>3. CASE SendLogin
  BY <1>3 DEF SendLogin, Send, ioVars, TypeOK, Sender
<1>4. CASE BindConn
  <2>1. ptr \in BOOLEAN /\ accept.conn \in Conn
    BY <1>4 DEF BindConn, TypeOK, Accepting
  <2>2. con' = [con EXCEPT ![accept.conn].bound = ptr]
    BY <1>4 DEF BindConn
  <2>3. con' \in [Conn -> Connection]
    BY <2>1, <2>2, Records DEF Connection
  <2> QED
    BY <1>4, <2>3 DEF BindConn, procVars, ioVars, TypeOK
<1>5. CASE FirstRecv
  <2>1. accept.conn \in Conn
    BY <1>5 DEF FirstRecv, TypeOK, Accepting
  <2>2. PICK r \in {"pending", "off"} : con' = [con EXCEPT ![accept.conn].read = r]
    BY <1>5, <2>1, Records, ConnectionUpdates DEF FirstRecv
  <2>3. con' \in [Conn -> Connection]
    BY <2>1, <2>2, Records DEF Connection
  <2>4. PICK b \in BOOLEAN :
          seen' = [seen EXCEPT ![accept.conn] = [seen[accept.conn] EXCEPT !.refused = b]]
    BY <1>5 DEF FirstRecv
  <2>5. seen' \in [Conn -> Memory]
    BY <2>1, <2>4, Records, MemoryUpdates
  <2> QED
    BY <1>5, <2>3, <2>5 DEF FirstRecv, Forget, StartAccept, ioVars, TypeOK, Sender
<1>6. ASSUME NEW c \in Conn, Accepted(c)
      PROVE  TypeOK'
  <2>1. con' \in [Conn -> Connection]
    BY <1>6, Records DEF Accepted, Connection
  <2> QED
    BY <1>6, <2>1 DEF Accepted, StartAccept, procVars, ioVars, TypeOK
<1>7. ASSUME NEW s \in Sender, WakeUp(s) \/ PushLate(s)
      PROVE  TypeOK'
  BY <1>7 DEF WakeUp, PushLate, ctlVars, procVars, ioVars, TypeOK
<1>8. ASSUME NEW s \in Sender, Serve(s)
      PROVE  TypeOK'
  <2>1. s = "accept" => accept.conn \in Conn
    BY <1>8 DEF Serve, Accepting, TypeOK
  <2>2. s = "accept" => seen' \in [Conn -> Memory]
    <3> SUFFICES ASSUME s = "accept" PROVE seen' \in [Conn -> Memory]
      OBVIOUS
    <3>1. seen' = [seen EXCEPT ![accept.conn] = [seen[accept.conn] EXCEPT !.login = TRUE]]
      BY <1>8 DEF Serve
    <3> QED
      BY <2>1, <3>1, Records, MemoryUpdates
  <2>3. seen' \in [Conn -> Memory]
    BY <1>8, <2>2, Records DEF Serve
  <2> QED
    BY <1>8, <2>1, <2>3 DEF Serve, ctlVars, ioVars, TypeOK
<1> QED
  BY <1>1, <1>2, <1>3, <1>4, <1>5, <1>6, <1>7, <1>8 DEF Accept

LEMMA TypeLogic ==
  ASSUME TypeOK, gone' \subseteq Conn, Logic
  PROVE  TypeOK'
<1>1. tasks # <<>> => Head(tasks) \in Task /\ Tail(tasks) \in Seq(Task)
  BY HeadTailProperties DEF TypeOK
<1>2. CASE DealRecv
  <2>1. seen' \in [Conn -> Memory]
    <3>1. Head(tasks).n \in 0..MaxMsg
      BY <1>1, <1>2 DEF DealRecv, Task
    <3>2. \A m \in Memory : [m EXCEPT !.last = Head(tasks).n] \in Memory
      BY <3>1 DEF Memory
    <3>3. seen' = [seen EXCEPT ![Head(tasks).conn].last = Head(tasks).n]
      BY <1>2 DEF DealRecv
    <3> QED
      BY <3>2, <3>3 DEF TypeOK
  <2> QED
    BY <1>1, <1>2, <2>1 DEF DealRecv, ctlVars, ioVars, TypeOK
<1>3. CASE DealError
  <2>1. \A m \in Memory : [m EXCEPT !.errors = @ + 1] \in Memory
    BY DEF Memory
  <2>2. seen' \in [Conn -> Memory]
    BY <1>3, <2>1, Records DEF DealError
  <2> QED
    BY <1>1, <1>3, <2>2 DEF DealError, ctlVars, ioVars, TypeOK
<1>4. CASE ProcessorEnds
  BY <1>4 DEF ProcessorEnds, ctlVars, ioVars, TypeOK
<1> QED
  BY <1>2, <1>3, <1>4 DEF Logic

LEMMA TypeUser ==
  ASSUME TypeOK, Written, gone' \subseteq Conn, NEW c \in Conn, User(c)
  PROVE  TypeOK'
<1>1. CASE UserClose(c)
  <2>1. con' \in [Conn -> Connection]
    BY <1>1, Records DEF UserClose, Connection
  <2>2. seen' \in [Conn -> Memory]
    BY <1>1, Records, MemoryUpdates DEF UserClose
  <2> QED
    BY <1>1, <2>1, <2>2 DEF UserClose, ctlVars, procVars, ioVars, TypeOK
<1>2. CASE UserSend(c)
  <2>1. con[c].writes + 1 \in 0..MaxWrite /\ seen[c].wrote + 1 \in 0..MaxWrite
    BY <1>2, TcpAssumption, Records DEF UserSend, Written, TypeOK, Connection, Memory
  <2>2. con' \in [Conn -> Connection]
    BY <1>2, <2>1, Records DEF UserSend, Connection
  <2>3. seen' \in [Conn -> Memory]
    BY <1>2, <2>1, Records DEF UserSend, Memory
  <2> QED
    BY <1>2, <2>2, <2>3 DEF UserSend, ctlVars, procVars, ioVars, TypeOK
<1>3. CASE UserDrops(c)
  BY <1>3 DEF UserDrops, ctlVars, procVars, ioVars, TypeOK
<1>4. CASE ConnectServer(c)
  <2>1. con' \in [Conn -> Connection]
    BY <1>4, Records, Connected
  <2>2. seen' \in [Conn -> Memory]
    BY <1>4, Records, MemoryUpdates DEF ConnectServer
  <2> QED
    BY <1>4, <2>1, <2>2 DEF ConnectServer, ctlVars, procVars, ioVars, TypeOK
<1> QED
  BY <1>1, <1>2, <1>3, <1>4 DEF User

LEMMA TypeIo ==
  ASSUME TypeOK, gone' \subseteq Conn, NEW c \in Conn,
         PeerGoes(c) \/ Io(c) \/ HandleWrite(c)
  PROVE  TypeOK'
<1> USE TcpAssumption
<1>1. con' \in [Conn -> Connection]
  <2>1. CASE PeerGoes(c) \/ ReadDone(c)
    BY <2>1, Records DEF PeerGoes, ReadDone, Connection
  <2>2. CASE HandleRead(c) \/ PostRecv(c) \/ WriteDead(c)
    BY <2>2, Records DEF HandleRead, PostRecv, WriteDead, Connection
  <2>3. CASE RecvAgain(c)
    <3>1. PICK r \in {"pending", "off"} : con' = [con EXCEPT ![c].at = "idle", ![c].read = r]
      BY <2>3, Records, ConnectionUpdates DEF RecvAgain
    <3>2. [con[c] EXCEPT !.at = "idle", !.read = r] \in Connection
      BY Records, ConnectionRead
    <3>3. con' = [con EXCEPT ![c] = [con[c] EXCEPT !.at = "idle", !.read = r]]
      BY <3>1, Records
    <3> QED
      BY <3>2, <3>3, Records
  <2>4. CASE CloseOnError(c)
    BY <2>4, Records DEF CloseOnError, Connection
  <2>5. CASE Report(c)
    BY <2>5, Records, ConnectionUpdates DEF Report
  <2>6. CASE HandleWrite(c)
    BY <2>6, Records DEF HandleWrite, Connection
  <2> QED
    BY <2>1, <2>2, <2>3, <2>4, <2>5, <2>6 DEF Io, Handler
<1>2. CASE PeerGoes(c) \/ ReadDone(c) \/ HandleRead(c)
  BY <1>1, <1>2 DEF PeerGoes, ReadDone, HandleRead, ctlVars, procVars, ioVars, TypeOK
<1>3. CASE RecvAgain(c) \/ WriteDead(c) \/ HandleWrite(c)
  BY <1>1, <1>3 DEF RecvAgain, WriteDead, HandleWrite, ctlVars, procVars, ioVars, TypeOK
<1>4. CASE CloseOnError(c)
  <2>1. PICK b \in BOOLEAN : seen' = [seen EXCEPT ![c] = [seen[c] EXCEPT !.closed = b]]
    BY <1>4 DEF CloseOnError
  <2>2. seen' \in [Conn -> Memory]
    BY <2>1, Records, MemoryUpdates
  <2> QED
    BY <1>1, <1>4, <2>2 DEF CloseOnError, ctlVars, procVars, ioVars, TypeOK
<1>5. ASSUME NEW task \in Task, Post(task) \/ UNCHANGED <<tasks, fault>>
      PROVE  /\ tasks' \in Seq(Task)
             /\ fault' \in {"none", "handler", "write", "timer"} \cup Sender
  BY <1>5, AppendProperties DEF Post, TypeOK
<1>6. CASE PostRecv(c)
  <2>1. [do |-> "recv", conn |-> c, n |-> con[c].got] \in Task
    BY DEF TypeOK, Connection, Task
  <2> QED
    BY <1>1, <1>5, <1>6, <2>1 DEF PostRecv, ctlVars, ioVars, TypeOK
<1>7. CASE Report(c)
  <2>1. [do |-> "error", conn |-> IF con[c].why = "read" THEN c ELSE None, n |-> 0] \in Task
    BY DEF Task
  <2> QED
    BY <1>1, <1>5, <1>7, <2>1 DEF Report, ctlVars, ioVars, TypeOK
<1> QED
  BY <1>2, <1>3, <1>4, <1>6, <1>7 DEF Io, Handler

-----------------------------------------------------------------------------
(***************************************************************************)
(* The phases of the server.                                               *)
(***************************************************************************)

(* Nothing is at work before init succeeded. *)
LEMMA Working ==
  ASSUME Phase, \A c \in Conn : Life(c),
         \/ service # "off" \/ Serving \/ accept.at # "idle" \/ console # "off" \/ unin # "no"
         \/ \E c \in Conn : \/ con[c].at # "idle" \/ con[c].read # "off"
                            \/ con[c].writes > 0 \/ con[c].sock # "none"
         \/ \E s \in Sender : sent[s] # "no"
  PROVE  Begun
BY DEF Phase, Life, Serving

(* What only uses the server leaves its phase as it is. *)
LEMMA PhaseKept ==
  ASSUME Phase, Begun, UNCHANGED <<main, ptr, proc, service, timer, unin>>
  PROVE  Phase'
BY DEF Phase, Begun

LEMMA PhaseControl ==
  ASSUME TypeOK, Phase, Main \/ Signal \/ Uninit \/ Logic
  PROVE  Phase'
<1>1. CASE InitServer \/ InitFails
  BY <1>1 DEF InitServer, InitFails, ioVars, Phase, Begun
<1>2. CASE RunServer
  BY <1>2 DEF RunServer, procVars, Phase, Begun
<1>3. CASE MainEnds \/ MainJoins
  BY <1>3 DEF MainEnds, MainJoins, IoEnded, procVars, ioVars, Phase, Begun
<1>4. CASE Signal
  BY <1>4 DEF Signal, ioVars, Phase, Begun
<1>5. CASE UninitClose \/ UninitThrows \/ UninitStop
  BY <1>5 DEF UninitClose, UninitThrows, UninitStop, procVars, Phase, Begun
<1>6. CASE UninitTimer \/ UninitFree \/ UninitNull
  BY <1>6 DEF UninitTimer, UninitFree, UninitNull, ioVars, Phase, Begun
<1>7. CASE Logic
  BY <1>7 DEF Logic, DealRecv, DealError, ProcessorEnds, ctlVars, ioVars, Phase, Begun
<1> QED
  BY <1>1, <1>2, <1>3, <1>4, <1>5, <1>6, <1>7 DEF Main, Uninit

LEMMA PhaseRest ==
  ASSUME TypeOK, Phase, \A c \in Conn : Life(c),
         \/ ReadLine \/ Console \/ Accept \/ UserTimer
         \/ \E s \in Sender : Serve(s) \/ WakeUp(s) \/ PushLate(s)
         \/ \E c \in Conn : PeerGoes(c) \/ Io(c) \/ HandleWrite(c) \/ User(c)
  PROVE  Phase'
<1>1. CASE ReadLine \/ Console
  <2>1. Begun /\ UNCHANGED <<main, ptr, proc, service, timer, unin>>
    BY <1>1, Working DEF ReadLine, Console, SendCommand, CommandDone, procVars, ioVars, Begun
  <2> QED
    BY <2>1, PhaseKept
<1>2. CASE Accept
  <2>1. Begun /\ UNCHANGED <<main, ptr, proc, service, timer, unin>>
    BY <1>2, Working DEF Accept, AcceptFails, BindConn, SendLogin, FirstRecv, Accepted, procVars,
                         ioVars
  <2> QED
    BY <2>1, PhaseKept
<1>3. CASE UserTimer \/ \E s \in Sender : Serve(s)
  <2>1. Begun /\ UNCHANGED <<main, ptr, proc, service, timer, unin>>
    BY <1>3, Working DEF UserTimer, Serve, ctlVars, procVars, ioVars
  <2> QED
    BY <2>1, PhaseKept
<1>4. ASSUME NEW s \in Sender, WakeUp(s) \/ PushLate(s)
      PROVE  Phase'
  <2>1. Begun /\ UNCHANGED <<main, ptr, proc, service, timer, unin>>
    BY <1>4, Working DEF WakeUp, PushLate, ctlVars, procVars, ioVars
  <2> QED
    BY <2>1, PhaseKept
<1>5. ASSUME NEW c \in Conn, PeerGoes(c) \/ Io(c) \/ HandleWrite(c)
      PROVE  Phase'
  <2>1. UNCHANGED <<main, ptr, proc, service, timer, unin>>
    BY <1>5 DEF PeerGoes, Io, ReadDone, HandleRead, Handler, PostRecv, RecvAgain, CloseOnError,
                Report, WriteDead, HandleWrite, ctlVars, procVars, ioVars
  <2>2. Begun
    BY <1>5, Working DEF PeerGoes, Io, ReadDone, HandleRead, Ready, Handler, PostRecv, RecvAgain,
                         CloseOnError, Report, WriteDead, HandleWrite
  <2> QED
    BY <2>1, <2>2, PhaseKept
<1>6. ASSUME NEW c \in Conn, User(c)
      PROVE  Phase'
  <2>1. Begun /\ UNCHANGED <<main, ptr, proc, service, timer, unin>>
    BY <1>6, Working DEF User, UserClose, UserSend, UserDrops, ConnectServer, ctlVars, procVars,
                         ioVars
  <2> QED
    BY <2>1, PhaseKept
<1> QED
  BY <1>1, <1>2, <1>3, <1>4, <1>5, <1>6

(* A fault is the use of the processor or of the timer after uinit freed   *)
(* it, or the write of a connection nobody owns.                           *)
LEMMA FaultStep ==
  ASSUME TypeOK, Phase, Stopped, \A c \in Conn : Life(c), fault = "none", Step
  PROVE  FaultOnlyAtEnd'
<1>1. ASSUME fault' \in {"none", "write"}
      PROVE  FaultOnlyAtEnd'
  BY <1>1 DEF FaultOnlyAtEnd
<1>2. CASE Main \/ Uninit \/ ReadLine \/ Logic \/ \E s \in Sender : Serve(s) \/ WakeUp(s)
  BY <1>1, <1>2 DEF Main, InitServer, InitFails, RunServer, MainEnds, MainJoins, Uninit,
                    UninitClose, UninitThrows, UninitStop, UninitTimer, UninitFree, UninitNull,
                    ReadLine, Logic, DealRecv, DealError, ProcessorEnds, Serve, WakeUp
<1>10. ASSUME NEW s \in Sender, PushLate(s)
       PROVE  FaultOnlyAtEnd'
  <2>1. Begun
    BY <1>10, Working DEF PushLate
  <2>2. fault' = s /\ unin' \in {"null", "done"}
    BY <1>10, <2>1 DEF PushLate, ctlVars, Phase, TypeOK
  <2> QED
    BY <2>2 DEF FaultOnlyAtEnd, Sender
<1>3. CASE Signal
  <2>1. ptr /\ proc # "freed"
    BY <1>3 DEF Signal, Phase, Begun
  <2> QED
    BY <1>1, <1>3, <2>1 DEF Signal, Send
<1>4. CASE Console
  <2>1. Begun
    BY <1>4, Working DEF Console, SendCommand, CommandDone
  <2>2. fault' # "none" => fault' = "console" /\ unin' \in {"null", "done"}
    BY <1>4, <2>1 DEF Console, SendCommand, CommandDone, Send, Phase, TypeOK
  <2> QED
    BY <2>2 DEF FaultOnlyAtEnd
<1>5. CASE Accept
  <2>1. fault' = "none" \/ SendLogin
    BY <1>5 DEF Accept, AcceptFails, BindConn, FirstRecv, Accepted
  <2>2. CASE SendLogin
    <3>1. Begun
      BY <2>2, Working DEF SendLogin
    <3>2. fault' # "none" => fault' = "accept" /\ unin' \in {"null", "done"}
      BY <2>2, <3>1 DEF SendLogin, Send, Phase, TypeOK
    <3> QED
      BY <3>2 DEF FaultOnlyAtEnd
  <2> QED
    BY <1>1, <2>1, <2>2
<1>6. CASE UserTimer
  <2>1. Begun
    BY <1>6, Working DEF UserTimer
  <2>2. unin' \in {"free", "null", "done"}
    BY <1>6, <2>1 DEF UserTimer, ctlVars, Phase, TypeOK
  <2> QED
    BY <1>6, <2>2 DEF UserTimer, FaultOnlyAtEnd
<1>7. ASSUME NEW c \in Conn, NEW task, Post(task), con[c].at # "idle", UNCHANGED <<unin, seen>>
      PROVE  FaultOnlyAtEnd'
  <2>1. Begun
    BY <1>7, Working
  <2>2. fault' # "none" => fault' = "handler" /\ unin \in {"null", "done"}
    BY <1>7, <2>1 DEF Post, Phase, TypeOK
  <2>3. fault' # "none" => seen'[c].caught
    BY <1>7, <2>1, <2>2 DEF Post, Phase, Stopped
  <2> QED
    BY <1>7, <2>2, <2>3 DEF FaultOnlyAtEnd
<1>8. ASSUME NEW c \in Conn, Io(c)
      PROVE  FaultOnlyAtEnd'
  <2>1. CASE ReadDone(c) \/ HandleRead(c) \/ RecvAgain(c) \/ CloseOnError(c) \/ WriteDead(c)
    BY <1>1, <2>1 DEF ReadDone, HandleRead, RecvAgain, CloseOnError, WriteDead
  <2>2. CASE PostRecv(c) \/ Report(c)
    BY <1>1, <1>7, <2>2 DEF PostRecv, Report, ctlVars
  <2> QED
    BY <1>8, <2>1, <2>2 DEF Io, Handler
<1>9. ASSUME NEW c \in Conn, PeerGoes(c) \/ HandleWrite(c) \/ User(c)
      PROVE  FaultOnlyAtEnd'
  BY <1>1, <1>9 DEF PeerGoes, HandleWrite, User, UserClose, UserSend, UserDrops, ConnectServer
<1> QED
  BY <1>2, <1>3, <1>4, <1>5, <1>6, <1>8, <1>9, <1>10 DEF Step

-----------------------------------------------------------------------------
(***************************************************************************)
(* The connections a step does nothing to.                                 *)
(***************************************************************************)

(* What waits for d is what waited for it; s tasks were taken from the     *)
(* front of the queue.                                                     *)
Waits(d, s) ==
  \A i \in 1..Len(tasks') :
    tasks'[i].conn = d => i + s \in 1..Len(tasks) /\ tasks'[i] = tasks[i + s]

Remembered(d) ==
  UNCHANGED <<seen[d].last, seen[d].login, seen[d].refused, seen[d].errors, seen[d].wrote>>

LEMMA Queued ==
  ASSUME TypeOK, NEW d
  PROVE  /\ tasks' = tasks => Waits(d, 0)
         /\ tasks' = <<>> => Waits(d, 0)
         /\ \A t \in Task : tasks' = Append(tasks, t) /\ t.conn # d => Waits(d, 0)
         /\ tasks # <<>> /\ tasks' = Tail(tasks) => Waits(d, 1)
<1>1. tasks \in Seq(Task) /\ Len(tasks) \in Nat
  BY LenProperties DEF TypeOK
<1>2. tasks' = tasks => Waits(d, 0)
  BY <1>1 DEF Waits
<1>3. tasks' = <<>> => Waits(d, 0)
  BY EmptySeq DEF Waits
<1>4. ASSUME NEW t \in Task, tasks' = Append(tasks, t), t.conn # d
      PROVE  Waits(d, 0)
  BY <1>1, <1>4, AppendProperties DEF Waits
<1>5. ASSUME tasks # <<>>, tasks' = Tail(tasks)
      PROVE  Waits(d, 1)
  BY <1>1, <1>5, HeadTailProperties DEF Waits
<1> QED
  BY <1>2, <1>3, <1>4, <1>5

LEMMA LifeKept ==
  ASSUME NEW d \in Conn, Life(d), con'[d] = con[d], Remembered(d),
         accept'.conn = d => accept.conn = d, NEW s \in {0, 1}, Waits(d, s)
  PROVE  Life(d)'
BY DEF Life, Remembered, Waits

LEMMA OrderKept ==
  ASSUME TypeOK, NEW d \in Conn, Order(d), con'[d].got = con[d].got, Unposted(d)' => Unposted(d),
         UNCHANGED <<seen[d].last, seen[d].errors>>,
         seen[d].login \/ seen[d].refused => seen'[d].login \/ seen'[d].refused,
         NEW s \in {0, 1}, Waits(d, s)
  PROVE  Order(d)'
<1>1. Len(tasks) \in Nat
  BY LenProperties DEF TypeOK
<1>2. /\ seen'[d].errors <= 1
      /\ seen'[d].last <= con'[d].got /\ (Unposted(d)' => seen'[d].last < con'[d].got)
  BY DEF Order
<1>3. ASSUME NEW i \in 1..Len(tasks'), tasks'[i].conn = d
      PROVE  /\ seen'[d].errors = 0 /\ (seen'[d].login \/ seen'[d].refused)
             /\ tasks'[i].do = "recv" =>
                  /\ tasks'[i].n > seen'[d].last /\ tasks'[i].n <= con'[d].got
                  /\ Unposted(d)' => tasks'[i].n < con'[d].got
  BY <1>3 DEF Waits, Order
<1>4. ASSUME NEW i \in 1..Len(tasks'), NEW j \in 1..Len(tasks'),
             tasks'[i].conn = d, tasks'[j].conn = d, i < j
      PROVE  /\ tasks'[i].do = "recv"
             /\ tasks'[j].do = "recv" => tasks'[i].n < tasks'[j].n
  <2>1. /\ i + s \in 1..Len(tasks) /\ tasks'[i] = tasks[i + s]
        /\ j + s \in 1..Len(tasks) /\ tasks'[j] = tasks[j + s] /\ i + s < j + s
    BY <1>1, <1>4 DEF Waits
  <2> QED
    BY <1>4, <2>1 DEF Order
<1> QED
  BY <1>2, <1>3, <1>4 DEF Order

LEMMA Untouched ==
  ASSUME TypeOK, NEW d \in Conn, Life(d), Order(d), con'[d] = con[d], Remembered(d),
         accept'.conn = d => accept.conn = d, NEW s \in {0, 1}, Waits(d, s)
  PROVE  Life(d)' /\ Order(d)'
BY LifeKept, OrderKept DEF Remembered, Unposted

LEMMA ConnControl ==
  ASSUME TypeOK, Accepting, \A c \in Conn : Life(c) /\ Order(c),
         \/ Main \/ Signal \/ Uninit \/ ReadLine \/ Console \/ UserTimer
         \/ AcceptFails \/ SendLogin \/ ProcessorEnds
         \/ \E s \in Sender : WakeUp(s) \/ PushLate(s)
         \/ \E c \in Conn : UserDrops(c) \/ WriteDead(c)
  PROVE  \A d \in Conn : Life(d)' /\ Order(d)'
<1> SUFFICES ASSUME NEW d \in Conn PROVE Life(d)' /\ Order(d)'
  OBVIOUS
<1> USE TcpAssumption
<1>1. CASE \/ Signal \/ ReadLine \/ Console \/ UserTimer \/ ProcessorEnds
           \/ \E s \in Sender : WakeUp(s) \/ PushLate(s)
           \/ \E c \in Conn : UserDrops(c) \/ WriteDead(c)
  <2>1. UNCHANGED <<con, seen, accept, tasks>>
    BY <1>1 DEF Signal, ReadLine, Console, SendCommand, CommandDone, UserTimer, ProcessorEnds,
                WakeUp, PushLate, UserDrops, WriteDead, ctlVars, procVars
  <2> QED
    BY <2>1, Queued, Untouched DEF Remembered
<1>2. CASE Main \/ AcceptFails \/ SendLogin
  <2>1. UNCHANGED <<con, seen, tasks>> /\ accept'.conn \in {accept.conn, None}
    BY <1>2 DEF Main, InitServer, InitFails, RunServer, StartAccept, MainEnds, MainJoins,
                AcceptFails, SendLogin, procVars, TypeOK
  <2> QED
    BY <2>1, Queued, Untouched DEF Remembered
<1>3. CASE Uninit
  <2>1. UNCHANGED <<con, accept>> /\ tasks' \in {tasks, <<>>}
    BY <1>3 DEF Uninit, UninitClose, UninitThrows, UninitStop, UninitTimer, UninitFree, UninitNull, procVars
  <2>2. Remembered(d)
    <3>1. CASE UninitStop
      BY <3>1, Records DEF UninitStop, Memory, Remembered
    <3>2. CASE ~UninitStop
      BY <1>3, <3>2 DEF Uninit, UninitClose, UninitThrows, UninitTimer, UninitFree, UninitNull, Remembered
    <3> QED
      BY <3>1, <3>2
  <2> QED
    BY <2>1, <2>2, Queued, Untouched
<1> QED
  BY <1>1, <1>2, <1>3

-----------------------------------------------------------------------------
(***************************************************************************)
(* The handlers that ios.stop found, and the accept handler.               *)
(***************************************************************************)
LEMMA Remembers ==
  ASSUME TypeOK, Logic, NEW c \in Conn
  PROVE  UNCHANGED <<seen[c].login, seen[c].refused, seen[c].wrote, seen[c].caught>>
<1>1. CASE DealRecv
  <2>1. Head(tasks) \in Task
    BY <1>1, HeadTailProperties DEF DealRecv, TypeOK
  <2>2. PICK d \in Conn \cup {None}, n \in 0..MaxMsg : seen' = [seen EXCEPT ![d].last = n]
    BY <1>1, <2>1 DEF DealRecv, Task
  <2> QED
    BY <2>2, Records DEF Memory
<1>2. CASE DealError
  <2>1. seen'[c] = seen[c] \/ seen'[c] = [seen[c] EXCEPT !.errors = @ + 1]
    BY <1>2 DEF DealError
  <2> QED
    BY <2>1, Records DEF Memory
<1>3. CASE ProcessorEnds
  BY <1>3 DEF ProcessorEnds
<1> QED
  BY <1>1, <1>2, <1>3 DEF Logic

LEMMA StoppedStep ==
  ASSUME TypeOK, Stopped, Step
  PROVE  Stopped'
<1>1. ASSUME UNCHANGED service, \A c \in Conn : con'[c].at # "idle" => con[c].at # "idle",
             \A c \in Conn : seen'[c].caught = seen[c].caught
      PROVE  Stopped'
  BY <1>1 DEF Stopped
<1>2. CASE Main
  BY <1>1, <1>2 DEF Main, InitServer, InitFails, RunServer, MainEnds, MainJoins, ioVars, Stopped
<1>3. CASE Uninit
  <2>1. CASE UninitStop
    BY <2>1, Records DEF UninitStop, Stopped, Memory
  <2>2. CASE ~UninitStop
    BY <1>1, <1>3, <2>2 DEF Uninit, UninitClose, UninitThrows, UninitTimer, UninitFree, UninitNull, ioVars
  <2> QED
    BY <2>1, <2>2
<1>4. CASE \/ Signal \/ ReadLine \/ Console \/ UserTimer \/ \E s \in Sender : WakeUp(s) \/ PushLate(s)
  BY <1>1, <1>4 DEF Signal, ReadLine, Console, SendCommand, CommandDone, UserTimer, WakeUp, PushLate, ioVars
<1>5. CASE Accept
  <2>1. CASE AcceptFails \/ SendLogin
    BY <1>1, <2>1 DEF AcceptFails, SendLogin, ioVars
  <2>2. CASE BindConn
    <3>1. \A c \in Conn : con'[c].at = con[c].at
      BY <2>2, Records DEF BindConn, Connection
    <3> QED
      BY <1>1, <2>2, <3>1 DEF BindConn, ioVars
  <2>3. CASE FirstRecv
    <3>1. \A c \in Conn : con'[c].at = con[c].at
      BY <2>3, Records DEF FirstRecv, Connection
    <3>2. \A c \in Conn : seen'[c].caught = seen[c].caught
      BY <2>3, Records DEF FirstRecv, Memory
    <3> QED
      BY <1>1, <2>3, <3>1, <3>2 DEF FirstRecv, ioVars
  <2>4. CASE \E c \in Conn : Accepted(c)
    <3>1. \A c \in Conn : con'[c].at = con[c].at
      BY <2>4, Records DEF Accepted, Connection
    <3> QED
      BY <1>1, <2>4, <3>1 DEF Accepted, ioVars
  <2> QED
    BY <1>5, <2>1, <2>2, <2>3, <2>4 DEF Accept
<1>6. CASE Logic
  <2>1. UNCHANGED <<service, con>>
    BY <1>6 DEF Logic, DealRecv, DealError, ProcessorEnds, ioVars
  <2>2. \A c \in Conn : seen'[c].caught = seen[c].caught
    BY <1>6, Remembers
  <2> QED
    BY <1>1, <2>1, <2>2
<1>7. ASSUME NEW s \in Sender, Serve(s)
      PROVE  Stopped'
  <2>1. \A c \in Conn : seen'[c].caught = seen[c].caught
    BY <1>7, Records DEF Serve, Memory
  <2> QED
    BY <1>1, <1>7, <2>1 DEF Serve, ioVars
<1>8. ASSUME NEW c \in Conn, PeerGoes(c) \/ Io(c) \/ HandleWrite(c) \/ User(c)
      PROVE  Stopped'
  <2>1. UNCHANGED service
    BY <1>8 DEF PeerGoes, Io, ReadDone, HandleRead, Handler, PostRecv, RecvAgain, CloseOnError,
                Report, WriteDead, HandleWrite, User, UserClose, UserSend, UserDrops,
                ConnectServer, ioVars
  <2>2. \A d \in Conn : seen'[d].caught = seen[d].caught
    <3>1. seen' = seen \/ CloseOnError(c) \/ UserClose(c) \/ UserSend(c) \/ ConnectServer(c)
      BY <1>8 DEF PeerGoes, Io, ReadDone, HandleRead, Handler, PostRecv, RecvAgain, Report,
                  WriteDead, HandleWrite, User, UserDrops
    <3> QED
      BY <3>1, Records DEF CloseOnError, UserClose, UserSend, ConnectServer, Memory
  <2>3. CASE Ready(c)
    BY <2>1, <2>3 DEF Ready, Stopped
  <2>4. CASE ~Ready(c)
    <3>1. \A d \in Conn : d # c => con'[d] = con[d]
      BY <1>8, Records DEF PeerGoes, Io, ReadDone, HandleRead, Handler, PostRecv, RecvAgain,
                  CloseOnError, Report, WriteDead, HandleWrite, User, UserClose, UserSend,
                  UserDrops, ConnectServer
    <3>2. con'[c].at # "idle" => con[c].at # "idle"
      BY <1>8, <2>4, Records, Connected
         DEF PeerGoes, Io, ReadDone, HandleRead, Handler, PostRecv, RecvAgain, CloseOnError,
             Report, WriteDead, HandleWrite, User, UserClose, UserSend, UserDrops, Connection
    <3> QED
      BY <1>1, <2>1, <2>2, <3>1, <3>2
  <2> QED
    BY <2>3, <2>4
<1> QED
  BY <1>2, <1>3, <1>4, <1>5, <1>6, <1>7, <1>8 DEF Step

LEMMA AcceptingStep ==
  ASSUME TypeOK, Phase, Accepting, \A c \in Conn : Life(c), Step
  PROVE  Accepting'
<1> USE TcpAssumption
<1>1. ASSUME UNCHANGED <<service, accept>>,
             \/ sent'["accept"] = sent["accept"]
             \/ sent'["accept"] = "false" /\ sent["accept"] # "no",
             \A c \in Conn : seen[c].login => seen'[c].login
      PROVE  Accepting'
  BY <1>1 DEF Accepting, TypeOK
<1>2. CASE Main
  <2>1. CASE RunServer
    BY <2>1 DEF RunServer, StartAccept, procVars, Accepting, Phase, Begun
  <2>2. CASE ~RunServer
    BY <1>1, <1>2, <2>2 DEF Main, InitServer, InitFails, MainEnds, MainJoins, procVars, ioVars
  <2> QED
    BY <2>1, <2>2
<1>3. CASE Signal \/ ReadLine \/ Console \/ UserTimer
  BY <1>1, <1>3 DEF Signal, Send, ReadLine, Console, SendCommand, CommandDone, Forget, UserTimer,
                    ctlVars, procVars, ioVars, Sender, TypeOK
<1>4. CASE Uninit
  <2>1. CASE UninitStop
    <3>1. \A c \in Conn : seen'[c].login = seen[c].login
      BY <2>1, Records DEF UninitStop, Memory
    <3>2. UNCHANGED <<accept, sent>> /\ service' = "stopped"
      BY <2>1 DEF UninitStop, procVars
    <3> QED
      BY <3>1, <3>2 DEF Accepting, TypeOK
  <2>2. CASE UninitClose \/ UninitThrows
    BY <1>1, <2>2 DEF UninitClose, UninitThrows, Forget, Sender, TypeOK
  <2>3. CASE UninitTimer \/ UninitFree \/ UninitNull
    BY <1>1, <2>3 DEF UninitTimer, UninitFree, UninitNull, procVars, ioVars
  <2> QED
    BY <1>4, <2>1, <2>2, <2>3 DEF Uninit
<1>5. CASE Accept
  <2>1. CASE AcceptFails
    BY <2>1 DEF AcceptFails, StartAccept, procVars, ioVars, Accepting
  <2>2. CASE BindConn
    BY <2>2 DEF BindConn, procVars, ioVars, Accepting, TypeOK
  <2>3. CASE SendLogin
    <3>1. \/ sent' = sent \/ sent' = [sent EXCEPT !["accept"] = "asked"]
          \/ sent' = [sent EXCEPT !["accept"] = "false"]
      BY <2>3 DEF SendLogin, Send
    <3> QED
      BY <2>3, <3>1 DEF SendLogin, ioVars, Accepting, TypeOK, Sender
  <2>4. CASE FirstRecv
    BY <2>4 DEF FirstRecv, Forget, StartAccept, ioVars, Accepting, TypeOK, Sender
  <2>5. ASSUME NEW c \in Conn, Accepted(c)
        PROVE  Accepting'
    BY <2>5 DEF Accepted, StartAccept, procVars, ioVars, Accepting
  <2> QED
    BY <1>5, <2>1, <2>2, <2>3, <2>4, <2>5 DEF Accept
<1>6. CASE Logic
  <2>1. UNCHANGED <<service, accept, sent>>
    BY <1>6 DEF Logic, DealRecv, DealError, ProcessorEnds, ctlVars, ioVars
  <2>2. \A c \in Conn : seen'[c].login = seen[c].login
    BY <1>6, Remembers
  <2> QED
    BY <1>1, <2>1, <2>2
<1>7. ASSUME NEW s \in Sender, WakeUp(s) \/ PushLate(s)
      PROVE  Accepting'
  <2>1. UNCHANGED <<service, accept, seen>>
    BY <1>7 DEF WakeUp, PushLate, ctlVars, ioVars
  <2>2. \/ sent'["accept"] = sent["accept"]
        \/ sent'["accept"] = "false" /\ sent["accept"] # "no"
    BY <1>7 DEF WakeUp, PushLate, procVars, Sender, TypeOK
  <2> QED
    BY <1>1, <2>1, <2>2
<1>8. ASSUME NEW s \in Sender, Serve(s)
      PROVE  Accepting'
  <2>1. UNCHANGED <<service, accept>>
    BY <1>8 DEF Serve, ctlVars, ioVars
  <2>2. CASE s = "accept"
    <3>1. accept.at = "recv" /\ accept.conn \in Conn
      BY <1>8, <2>2 DEF Serve, Accepting, TypeOK
    <3>2. seen'[accept.conn].login
      BY <1>8, <2>2, <3>1, Records DEF Serve, Memory
    <3> QED
      BY <2>1, <3>1, <3>2 DEF Accepting
  <2>3. CASE s # "accept"
    BY <1>1, <1>8, <2>1, <2>3 DEF Serve, TypeOK
  <2> QED
    BY <2>2, <2>3
<1>9. ASSUME NEW c \in Conn, PeerGoes(c) \/ Io(c) \/ HandleWrite(c) \/ User(c)
      PROVE  Accepting'
  <2>1. UNCHANGED <<service, accept, sent>>
    BY <1>9 DEF PeerGoes, Io, ReadDone, HandleRead, Handler, PostRecv, RecvAgain, CloseOnError,
                Report, WriteDead, HandleWrite, User, UserClose, UserSend, UserDrops,
                ConnectServer, ctlVars, procVars, ioVars
  <2>2. \A d \in Conn : seen[d].login => seen'[d].login
    <3>1. seen' = seen \/ CloseOnError(c) \/ UserClose(c) \/ UserSend(c) \/ ConnectServer(c)
      BY <1>9 DEF PeerGoes, Io, ReadDone, HandleRead, Handler, PostRecv, RecvAgain, Report,
                  WriteDead, HandleWrite, User, UserDrops
    <3> QED
      BY <3>1, Records DEF CloseOnError, UserClose, UserSend, ConnectServer, Memory
  <2> QED
    BY <1>1, <2>1, <2>2
<1> QED
  BY <1>2, <1>3, <1>4, <1>5, <1>6, <1>7, <1>8, <1>9 DEF Step

-----------------------------------------------------------------------------
(***************************************************************************)
(* The connection a step is about.                                         *)
(***************************************************************************)

(* The socket and its peer may change, and what says who the processor is. *)
Still(d) ==
  /\ UNCHANGED <<con[d].got, con[d].read, con[d].writes, con[d].at, con[d].why>>
  /\ con'[d].sock = "none" => con[d].sock = "none"

LEMMA SocketMoves ==
  ASSUME TypeOK, NEW d \in Conn, Life(d), Order(d), Still(d), Remembered(d), tasks' = tasks,
         accept'.conn = d => accept.conn = d
  PROVE  Life(d)' /\ Order(d)'
<1>1. Life(d)'
  BY DEF Life, Still, Remembered
<1>2. Order(d)'
  BY Queued, OrderKept DEF Unposted, Still, Remembered
<1> QED
  BY <1>1, <1>2

LEMMA ConnAccept ==
  ASSUME TypeOK, Accepting, \A c \in Conn : Life(c) /\ Order(c),
         BindConn \/ FirstRecv \/ \E c \in Conn : Accepted(c)
  PROVE  \A d \in Conn : Life(d)' /\ Order(d)'
<1> SUFFICES ASSUME NEW d \in Conn PROVE Life(d)' /\ Order(d)'
  OBVIOUS
<1> USE TcpAssumption
<1>1. CASE BindConn
  <2>1. UNCHANGED <<tasks, seen>> /\ accept'.conn = accept.conn
    BY <1>1 DEF BindConn, procVars, TypeOK
  <2>2. Still(d)
    BY <1>1, Records DEF BindConn, Connection, Still
  <2> QED
    BY <2>1, <2>2, SocketMoves DEF Remembered
<1>2. CASE FirstRecv
  <2>1. tasks' = tasks /\ accept'.conn = None /\ accept.conn \in Conn
    BY <1>2 DEF FirstRecv, StartAccept, Accepting, TypeOK
  <2>2. CASE d # accept.conn
    <3>1. con'[d] = con[d] /\ seen'[d] = seen[d]
      BY <1>2, <2>2, Records DEF FirstRecv
    <3> QED
      BY <2>1, <3>1, Queued, Untouched DEF Remembered
  <2>3. CASE d = accept.conn
    <3>1. /\ con'[d].read \in {"pending", "off"}
          /\ UNCHANGED <<con[d].sock, con[d].got, con[d].writes, con[d].at, con[d].why>>
      BY <1>2, <2>3, Records, ConnectionUpdates DEF FirstRecv, Connection
    <3>2. /\ UNCHANGED <<seen[d].last, seen[d].login, seen[d].errors, seen[d].wrote>>
          /\ seen'[d].refused = (sent["accept"] = "false")
      BY <1>2, <2>3, Records DEF FirstRecv, Memory
    <3>3. seen'[d].login \/ seen'[d].refused
      BY <1>2, <2>3, <3>2 DEF FirstRecv, Answered, Accepting
    <3>4. Life(d)'
      BY <2>1, <2>3, <3>1, <3>2, <3>3 DEF Life
    <3>5. Order(d)'
      BY <2>1, <2>3, <3>1, <3>2, <3>3, Queued, OrderKept DEF Unposted
    <3> QED
      BY <3>4, <3>5
  <2> QED
    BY <2>2, <2>3
<1>3. ASSUME NEW c \in Conn, Accepted(c)
      PROVE  Life(d)' /\ Order(d)'
  <2>1. UNCHANGED <<tasks, seen>> /\ accept'.conn \in {c, None} /\ con[c].sock = "none"
    BY <1>3 DEF Accepted, StartAccept, procVars
  <2>2. CASE d # c
    <3>1. con'[d] = con[d]
      BY <1>3, <2>2, Records DEF Accepted
    <3> QED
      BY <2>1, <2>2, <3>1, Queued, Untouched DEF Remembered
  <2>3. CASE d = c
    <3>1. /\ UNCHANGED <<con[c].read, con[c].got, con[c].writes, con[c].at, con[c].why>>
          /\ con'[c].sock # "none"
      BY <1>3, Records DEF Accepted, Connection
    <3>2. Life(d)'
      BY <2>1, <2>3, <3>1 DEF Life
    <3>3. Order(d)'
      BY <2>1, <2>3, <3>1, Queued, OrderKept DEF Unposted
    <3> QED
      BY <3>2, <3>3
  <2> QED
    BY <2>2, <2>3
<1> QED
  BY <1>1, <1>2, <1>3

LEMMA ConnServe ==
  ASSUME TypeOK, Accepting, \A c \in Conn : Life(c) /\ Order(c), NEW s \in Sender, Serve(s)
  PROVE  \A d \in Conn : Life(d)' /\ Order(d)'
<1> SUFFICES ASSUME NEW d \in Conn PROVE Life(d)' /\ Order(d)'
  OBVIOUS
<1>1. UNCHANGED <<con, tasks, accept>>
  BY DEF Serve, ctlVars
<1>2. /\ UNCHANGED <<seen[d].last, seen[d].refused, seen[d].errors, seen[d].wrote>>
      /\ seen[d].login => seen'[d].login
  BY Records DEF Serve, Memory
<1>3. Life(d)'
  BY <1>1, <1>2 DEF Life
<1>4. Order(d)'
  BY <1>1, <1>2, Queued, OrderKept DEF Unposted
<1> QED
  BY <1>3, <1>4

LEMMA ConnLogic ==
  ASSUME TypeOK, \A c \in Conn : Life(c) /\ Order(c), DealRecv \/ DealError
  PROVE  \A d \in Conn : Life(d)' /\ Order(d)'
<1> SUFFICES ASSUME NEW d \in Conn PROVE Life(d)' /\ Order(d)'
  OBVIOUS
<1> DEFINE h == tasks[1]
<1>1. /\ tasks # <<>> /\ tasks' = Tail(tasks) /\ Head(tasks) = h /\ h \in Task
      /\ 1 \in 1..Len(tasks) /\ Len(tasks) \in Nat
  BY LenProperties, HeadTailProperties, EmptySeq DEF DealRecv, DealError, TypeOK
<1>2. Waits(d, 1)
  BY <1>1, Queued
<1>3. UNCHANGED <<con, accept>>
  BY DEF DealRecv, DealError, ctlVars
<1>4. CASE h.conn # d
  <2>1. seen'[d] = seen[d]
    BY <1>1, <1>4, Records DEF DealRecv, DealError
  <2> QED
    BY <1>2, <1>3, <2>1, Untouched DEF Remembered
<1>5. ASSUME NEW j \in 1..Len(tasks'), tasks'[j].conn = d
      PROVE  /\ j + 1 \in 1..Len(tasks) /\ tasks'[j] = tasks[j + 1] /\ 1 < j + 1
  BY <1>1, <1>2, <1>5 DEF Waits
<1>6. CASE DealRecv /\ h.conn = d
  <2>1. /\ UNCHANGED <<seen[d].login, seen[d].refused, seen[d].errors, seen[d].wrote>>
        /\ seen'[d].last = h.n /\ h.do = "recv"
    BY <1>1, <1>6, Records DEF DealRecv, Memory
  <2>2. Life(d)'
    BY <1>3, <1>5, <2>1 DEF Life
  <2>3. /\ seen'[d].errors <= 1
        /\ seen'[d].last <= con'[d].got /\ (Unposted(d)' => seen'[d].last < con'[d].got)
    BY <1>1, <1>3, <1>6, <2>1 DEF Order, Unposted
  <2>4. ASSUME NEW i \in 1..Len(tasks'), tasks'[i].conn = d
        PROVE  /\ seen'[d].errors = 0 /\ (seen'[d].login \/ seen'[d].refused)
               /\ tasks'[i].do = "recv" =>
                    /\ tasks'[i].n > seen'[d].last /\ tasks'[i].n <= con'[d].got
                    /\ Unposted(d)' => tasks'[i].n < con'[d].got
    <3>1. /\ i + 1 \in 1..Len(tasks) /\ tasks'[i] = tasks[i + 1] /\ 1 < i + 1
      BY <1>5, <2>4
    <3>2. tasks'[i].do = "recv" => h.n < tasks'[i].n
      BY <1>1, <1>6, <2>4, <3>1 DEF Order
    <3>3. /\ seen[d].errors = 0 /\ (seen[d].login \/ seen[d].refused)
          /\ tasks'[i].do = "recv" =>
               /\ tasks'[i].n <= con[d].got /\ (Unposted(d) => tasks'[i].n < con[d].got)
      BY <2>4, <3>1 DEF Order
    <3>4. tasks'[i].n \in Int /\ h.n \in Int
      <4>1. tasks'[i] \in Task
        BY <3>1, ElementOfSeq DEF TypeOK
      <4> QED
        BY <1>1, <4>1, TcpAssumption DEF Task
    <3> QED
      BY <1>3, <2>1, <3>2, <3>3, <3>4 DEF Unposted
  <2>5. ASSUME NEW i \in 1..Len(tasks'), NEW j \in 1..Len(tasks'),
               tasks'[i].conn = d, tasks'[j].conn = d, i < j
        PROVE  /\ tasks'[i].do = "recv"
               /\ tasks'[j].do = "recv" => tasks'[i].n < tasks'[j].n
    <3>1. /\ i + 1 \in 1..Len(tasks) /\ tasks'[i] = tasks[i + 1]
          /\ j + 1 \in 1..Len(tasks) /\ tasks'[j] = tasks[j + 1] /\ i + 1 < j + 1
      BY <1>5, <2>5
    <3> QED
      BY <2>5, <3>1 DEF Order
  <2>6. Order(d)'
    BY <2>3, <2>4, <2>5 DEF Order
  <2> QED
    BY <2>2, <2>6
<1>7. CASE DealError /\ h.conn = d
  <2>1. /\ UNCHANGED <<seen[d].login, seen[d].refused, seen[d].last, seen[d].wrote>>
        /\ seen'[d].errors = seen[d].errors + 1 /\ h.do = "error"
    BY <1>1, <1>7, Records DEF DealError, Memory
  <2>2. seen'[d].errors = 1 /\ con[d].read = "off" /\ con[d].sock # "none" /\ accept.conn # d
    BY <1>1, <1>7, <2>1 DEF Order, Life
  <2>3. \A j \in 1..Len(tasks') : tasks'[j].conn # d
    BY <1>1, <1>5, <1>7, <2>1 DEF Order
  <2>4. Life(d)'
    BY <1>3, <2>1, <2>2 DEF Life
  <2>5. Order(d)'
    BY <1>3, <2>1, <2>2, <2>3 DEF Order, Unposted
  <2> QED
    BY <2>4, <2>5
<1> QED
  BY <1>4, <1>6, <1>7

LEMMA ConnUser ==
  ASSUME TypeOK, \A c \in Conn : Life(c) /\ Order(c), NEW c \in Conn,
         PeerGoes(c) \/ UserClose(c) \/ UserSend(c) \/ ConnectServer(c)
  PROVE  \A d \in Conn : Life(d)' /\ Order(d)'
<1> SUFFICES ASSUME NEW d \in Conn PROVE Life(d)' /\ Order(d)'
  OBVIOUS
<1>1. UNCHANGED <<tasks, accept>>
  BY DEF PeerGoes, UserClose, UserSend, ConnectServer, ctlVars, procVars
<1>2. CASE d # c
  <2>1. con'[d] = con[d] /\ seen'[d] = seen[d]
    BY <1>2, Records DEF PeerGoes, UserClose, UserSend, ConnectServer
  <2> QED
    BY <1>1, <2>1, Queued, Untouched DEF Remembered
<1>3. CASE d = c /\ PeerGoes(c)
  <2>1. Still(d) /\ Remembered(d)
    BY <1>3, Records DEF PeerGoes, Connection, Still, Remembered
  <2> QED
    BY <1>1, <2>1, SocketMoves
<1>4. CASE d = c /\ UserClose(c)
  <2>1. Still(d)
    BY <1>4, Records DEF UserClose, Connection, Still
  <2>2. Remembered(d)
    BY <1>4, Records DEF UserClose, Memory, Remembered
  <2> QED
    BY <1>1, <2>1, <2>2, SocketMoves
<1>5. CASE d = c /\ UserSend(c)
  <2>1. /\ UNCHANGED <<con[d].sock, con[d].got, con[d].read, con[d].at, con[d].why>>
        /\ con'[d].writes = con[d].writes + 1 /\ con[d].sock = "open"
    BY <1>5, Records DEF UserSend, Open, Connection
  <2>2. /\ UNCHANGED <<seen[d].last, seen[d].login, seen[d].refused, seen[d].errors>>
        /\ seen'[d].wrote = seen[d].wrote + 1
    BY <1>5, Records DEF UserSend, Memory
  <2>3. con[d].writes \in Int /\ seen[d].wrote \in Int
    BY Records, TcpAssumption DEF Connection, Memory
  <2>4. Life(d)'
    BY <1>1, <2>1, <2>2, <2>3 DEF Life
  <2>5. Order(d)'
    BY <1>1, <2>1, <2>2, Queued, OrderKept DEF Unposted
  <2> QED
    BY <2>4, <2>5
<1>6. CASE d = c /\ ConnectServer(c)
  <2>1. /\ UNCHANGED <<con[d].got, con[d].writes, con[d].at, con[d].why>>
        /\ con'[d].read \in {"pending", "off"} /\ con'[d].sock # "none" /\ con[d].sock = "none"
    BY <1>1, <1>6, Connected DEF Life
  <2>2. /\ UNCHANGED <<seen[d].last, seen[d].refused, seen[d].errors, seen[d].wrote>>
        /\ seen'[d].login
    BY <1>6, Records DEF ConnectServer, Memory
  <2>3. Life(d)'
    BY <1>1, <2>1, <2>2 DEF Life
  <2>4. Order(d)'
    BY <1>1, <2>1, <2>2, Queued, OrderKept DEF Unposted
  <2> QED
    BY <2>3, <2>4
<1> QED
  BY <1>2, <1>3, <1>4, <1>5, <1>6

(* The reads and their handlers, without the posts. *)
LEMMA ConnIo ==
  ASSUME TypeOK, \A c \in Conn : Life(c) /\ Order(c), NEW c \in Conn,
         ReadDone(c) \/ HandleRead(c) \/ RecvAgain(c) \/ CloseOnError(c) \/ HandleWrite(c)
  PROVE  \A d \in Conn : Life(d)' /\ Order(d)'
<1> SUFFICES ASSUME NEW d \in Conn PROVE Life(d)' /\ Order(d)'
  OBVIOUS
<1>1. UNCHANGED <<tasks, accept>>
  BY DEF ReadDone, HandleRead, RecvAgain, CloseOnError, HandleWrite, ctlVars, procVars
<1>2. Remembered(d)
  BY Records DEF ReadDone, HandleRead, RecvAgain, CloseOnError, HandleWrite, Memory, Remembered
<1>3. CASE d # c
  <2>1. con'[d] = con[d]
    BY <1>3, Records DEF ReadDone, HandleRead, RecvAgain, CloseOnError, HandleWrite
  <2> QED
    BY <1>1, <1>2, <2>1, Queued, Untouched
<1>4. CASE d = c /\ ReadDone(c)
  <2>1. /\ UNCHANGED <<con[d].sock, con[d].writes, con[d].at, con[d].why>>
        /\ con[d].read = "pending"
        /\ \/ con'[d].read = "data" /\ con'[d].got = con[d].got + 1
           \/ con'[d].read = "error" /\ con'[d].got = con[d].got
    BY <1>4, Records DEF ReadDone, Connection
  <2>2. Life(d)'
    BY <1>1, <1>2, <2>1 DEF Life, Remembered
  <2>3. con[d].got \in Int /\ seen[d].last \in Int
    BY Records, TcpAssumption DEF Connection, Memory
  <2>4. ASSUME NEW i \in 1..Len(tasks), tasks[i].conn = d, tasks[i].do = "recv"
        PROVE  tasks[i].n <= con[d].got /\ tasks[i].n \in Int
    <3>1. tasks[i] \in Task
      BY ElementOfSeq DEF TypeOK
    <3> QED
      BY <2>4, <3>1, TcpAssumption DEF Order, Task
  <2>5. /\ seen[d].last <= con'[d].got
        /\ Unposted(d)' => seen[d].last < con'[d].got
        /\ \A i \in 1..Len(tasks) :
             tasks[i].conn = d /\ tasks[i].do = "recv" =>
               /\ tasks[i].n <= con'[d].got
               /\ Unposted(d)' => tasks[i].n < con'[d].got
    BY <2>1, <2>3, <2>4 DEF Order, Unposted
  <2>6. Order(d)'
    BY <1>1, <1>2, <2>5 DEF Order, Remembered
  <2> QED
    BY <2>2, <2>6
<1>5. CASE d = c /\ HandleRead(c)
  <2>1. /\ UNCHANGED <<con[d].sock, con[d].got, con[d].read, con[d].writes>>
        /\ con'[d].why = "read" /\ con[d].at = "idle"
        /\ \/ con[d].read = "data" /\ con'[d].at = "post"
           \/ con[d].read = "error" /\ con'[d].at = "close"
    BY <1>5, Records DEF HandleRead, Ready, Connection
  <2>2. Life(d)'
    BY <1>1, <1>2, <2>1 DEF Life, Remembered
  <2>3. Order(d)'
    BY <1>1, <1>2, <2>1, Queued, OrderKept DEF Unposted, Remembered
  <2> QED
    BY <2>2, <2>3
<1>6. CASE d = c /\ RecvAgain(c)
  <2>1. /\ UNCHANGED <<con[d].sock, con[d].got, con[d].why, con[d].writes>>
        /\ con[d].at = "again" /\ con'[d].at = "idle" /\ con'[d].read \in {"pending", "off"}
    BY <1>6, Records, ConnectionUpdates DEF RecvAgain, Connection
  <2>2. Life(d)'
    BY <1>1, <1>2, <2>1 DEF Life, Remembered
  <2>3. Order(d)'
    BY <1>1, <1>2, <2>1, Queued, OrderKept DEF Unposted, Remembered
  <2> QED
    BY <2>2, <2>3
<1>7. CASE d = c /\ CloseOnError(c)
  <2>1. /\ UNCHANGED <<con[d].got, con[d].read, con[d].why, con[d].writes>>
        /\ con[d].at = "close" /\ con'[d].at = "report"
        /\ con'[d].sock = "none" => con[d].sock = "none"
    BY <1>7, Records DEF CloseOnError, Connection
  <2>2. Life(d)'
    BY <1>1, <1>2, <2>1 DEF Life, Remembered
  <2>3. Order(d)'
    BY <1>1, <1>2, <2>1, Queued, OrderKept DEF Unposted, Remembered
  <2> QED
    BY <2>2, <2>3
<1>8. CASE d = c /\ HandleWrite(c)
  <2>1. /\ UNCHANGED <<con[d].sock, con[d].got, con[d].read>>
        /\ con[d].writes > 0 /\ con'[d].writes = con[d].writes - 1 /\ con[d].at = "idle"
        /\ con'[d].at = "idle" \/ (con'[d].at = "close" /\ con'[d].why = "write")
    BY <1>8, Records DEF HandleWrite, Ready, Connection
  <2>2. con[d].writes \in Int /\ seen[d].wrote \in Int
    BY Records, TcpAssumption DEF Connection, Memory
  <2>3. Life(d)'
    BY <1>1, <1>2, <2>1, <2>2 DEF Life, Remembered
  <2>4. Order(d)'
    BY <1>1, <1>2, <2>1, Queued, OrderKept DEF Unposted, Remembered
  <2> QED
    BY <2>3, <2>4
<1> QED
  BY <1>3, <1>4, <1>5, <1>6, <1>7, <1>8

(* A post goes behind everything that waits. *)
LEMMA Appended ==
  ASSUME TypeOK, NEW t \in Task, tasks' = Append(tasks, t)
  PROVE  \A i \in 1..Len(tasks') :
           \/ i \in 1..Len(tasks) /\ tasks'[i] = tasks[i]
           \/ i > Len(tasks) /\ tasks'[i] = t /\ \A j \in 1..Len(tasks') : j <= i
BY AppendProperties, LenProperties DEF TypeOK

LEMMA ConnPostRecv ==
  ASSUME TypeOK, \A c \in Conn : Life(c) /\ Order(c), NEW c \in Conn, PostRecv(c)
  PROVE  \A d \in Conn : Life(d)' /\ Order(d)'
<1> SUFFICES ASSUME NEW d \in Conn PROVE Life(d)' /\ Order(d)'
  OBVIOUS
<1> DEFINE t == [do |-> "recv", conn |-> c, n |-> con[c].got]
<1>1. t \in Task
  BY Records DEF Connection, Task
<1>2. UNCHANGED <<accept, seen>> /\ (tasks' = tasks \/ tasks' = Append(tasks, t))
  BY DEF PostRecv, Post, ctlVars
<1>3. Remembered(d)
  BY <1>2 DEF Remembered
<1>4. CASE d # c
  <2>1. con'[d] = con[d] /\ Waits(d, 0)
    BY <1>1, <1>2, <1>4, Records, Queued DEF PostRecv
  <2> QED
    BY <1>2, <1>3, <2>1, Untouched
<1>5. CASE d = c
  <2>1. /\ UNCHANGED <<con[d].sock, con[d].got, con[d].read, con[d].why, con[d].writes>>
        /\ con[d].at = "post" /\ con'[d].at = "again"
    BY <1>5, Records DEF PostRecv, Connection
  <2>2. /\ con[d].read = "data" /\ con[d].why = "read" /\ con[d].sock # "none"
        /\ accept.conn # d /\ ~Unposted(d)' /\ Unposted(d)
    BY <2>1 DEF Life, Unposted
  <2>3. CASE tasks' = tasks
    <3>1. Life(d)'
      BY <1>2, <1>3, <2>1, <2>3 DEF Life, Remembered
    <3>2. Order(d)'
      BY <1>3, <2>1, <2>2, <2>3, Queued, OrderKept DEF Remembered
    <3> QED
      BY <3>1, <3>2
  <2>4. CASE tasks' = Append(tasks, t)
    <3>1. \A i \in 1..Len(tasks') :
            \/ i \in 1..Len(tasks) /\ tasks'[i] = tasks[i]
            \/ i > Len(tasks) /\ tasks'[i] = t /\ \A j \in 1..Len(tasks') : j <= i
      BY <1>1, <2>4, Appended
    <3>2. t.do = "recv" /\ t.conn = d /\ t.n = con[d].got
      BY <1>5
    <3> HIDE DEF t
    <3>3. Life(d)'
      BY <1>2, <1>3, <2>1, <2>2, <3>1, <3>2 DEF Life, Remembered
    <3>4. /\ seen'[d].errors <= 1 /\ seen'[d].last <= con'[d].got
          /\ seen'[d].errors = 0 /\ (seen'[d].login \/ seen'[d].refused)
      BY <1>3, <2>1, <2>2 DEF Order, Life, Remembered
    <3>5. ASSUME NEW i \in 1..Len(tasks'), tasks'[i].conn = d, tasks'[i].do = "recv"
          PROVE  tasks'[i].n > seen'[d].last /\ tasks'[i].n <= con'[d].got
      <4>1. CASE i \in 1..Len(tasks) /\ tasks'[i] = tasks[i]
        BY <1>3, <2>1, <3>5, <4>1 DEF Order, Remembered
      <4>2. CASE tasks'[i] = t
        <5>1. con[d].got \in Int /\ seen[d].last \in Int
          BY Records, TcpAssumption DEF Connection, Memory
        <5> QED
          BY <1>3, <2>1, <2>2, <3>2, <4>2, <5>1 DEF Order, Remembered
      <4> QED
        BY <3>1, <4>1, <4>2
    <3>6. ASSUME NEW i \in 1..Len(tasks'), NEW j \in 1..Len(tasks'),
                 tasks'[i].conn = d, tasks'[j].conn = d, i < j
          PROVE  /\ tasks'[i].do = "recv"
                 /\ tasks'[j].do = "recv" => tasks'[i].n < tasks'[j].n
      <4>1. i \in 1..Len(tasks) /\ tasks'[i] = tasks[i]
        BY <3>1, <3>6
      <4>2. tasks[i].do = "recv"
        BY <2>2, <3>6, <4>1 DEF Life
      <4>3. CASE j \in 1..Len(tasks) /\ tasks'[j] = tasks[j]
        BY <3>6, <4>1, <4>2, <4>3 DEF Order
      <4>4. CASE tasks'[j] = t
        BY <2>2, <3>2, <3>6, <4>1, <4>2, <4>4 DEF Order
      <4> QED
        BY <3>1, <4>3, <4>4
    <3>7. Order(d)'
      BY <2>2, <3>4, <3>5, <3>6 DEF Order
    <3> QED
      BY <3>3, <3>7
  <2> QED
    BY <1>2, <2>3, <2>4
<1> QED
  BY <1>4, <1>5

LEMMA ConnReport ==
  ASSUME TypeOK, \A c \in Conn : Life(c) /\ Order(c), NEW c \in Conn, Report(c)
  PROVE  \A d \in Conn : Life(d)' /\ Order(d)'
<1> SUFFICES ASSUME NEW d \in Conn PROVE Life(d)' /\ Order(d)'
  OBVIOUS
<1> DEFINE t == [do |-> "error", conn |-> IF con[c].why = "read" THEN c ELSE None, n |-> 0]
<1>1. t \in Task
  BY TcpAssumption DEF Task
<1>2. UNCHANGED <<accept, seen>> /\ (tasks' = tasks \/ tasks' = Append(tasks, t))
  BY DEF Report, Post, ctlVars
<1>3. Remembered(d)
  BY <1>2 DEF Remembered
<1>4. t.do = "error" /\ t.conn = IF con[c].why = "read" THEN c ELSE None
  OBVIOUS
<1> HIDE DEF t
<1>5. CASE d # c
  <2>1. con'[d] = con[d]
    BY <1>5, Records DEF Report
  <2>2. Waits(d, 0)
    BY <1>1, <1>2, <1>4, <1>5, Queued, TcpAssumption
  <2> QED
    BY <1>2, <1>3, <2>1, <2>2, Untouched
<1>6. CASE d = c
  <2>1. /\ UNCHANGED <<con[d].sock, con[d].got, con[d].writes>>
        /\ con[d].at = "report" /\ con'[d].at = "idle" /\ con'[d].why = "read"
        /\ con'[d].read = IF con[d].why = "read" THEN "off" ELSE con[d].read
    BY <1>6, Records DEF Report, Idle, Connection
  <2>2. Unposted(d)' => Unposted(d)
    BY <2>1 DEF Unposted
  <2>3. CASE tasks' = tasks \/ con[d].why # "read"
    <3>1. Waits(d, 0)
      BY <1>1, <1>2, <1>4, <1>6, <2>3, Queued, TcpAssumption
    <3>2. Life(d)'
      BY <1>2, <1>3, <2>1, <3>1 DEF Life, Remembered, Waits
    <3>3. Order(d)'
      BY <1>3, <2>1, <2>2, <3>1, OrderKept DEF Remembered
    <3> QED
      BY <3>2, <3>3
  <2>4. CASE tasks' = Append(tasks, t) /\ con[d].why = "read"
    <3>1. \A i \in 1..Len(tasks') :
            \/ i \in 1..Len(tasks) /\ tasks'[i] = tasks[i]
            \/ i > Len(tasks) /\ tasks'[i] = t /\ \A j \in 1..Len(tasks') : j <= i
      BY <1>1, <2>4, Appended
    <3>2. con[d].read = "error" /\ con'[d].read = "off" /\ con[d].sock # "none" /\ accept.conn # d
      BY <2>1, <2>4 DEF Life
    <3>3. Life(d)'
      BY <1>2, <1>3, <2>1, <3>2 DEF Life, Remembered
    <3>4. /\ ~Unposted(d)'
          /\ seen'[d].last <= con'[d].got
          /\ seen'[d].errors = 0 /\ (seen'[d].login \/ seen'[d].refused)
      BY <1>3, <2>1, <3>2 DEF Order, Life, Remembered, Unposted
    <3>5. ASSUME NEW i \in 1..Len(tasks'), tasks'[i].conn = d, tasks'[i].do = "recv"
          PROVE  tasks'[i].n > seen'[d].last /\ tasks'[i].n <= con'[d].got
      <4>1. i \in 1..Len(tasks) /\ tasks'[i] = tasks[i]
        BY <1>4, <3>1, <3>5
      <4> QED
        BY <1>3, <2>1, <3>5, <4>1 DEF Order, Remembered
    <3>6. ASSUME NEW i \in 1..Len(tasks'), NEW j \in 1..Len(tasks'),
                 tasks'[i].conn = d, tasks'[j].conn = d, i < j
          PROVE  /\ tasks'[i].do = "recv"
                 /\ tasks'[j].do = "recv" => tasks'[i].n < tasks'[j].n
      <4>1. i \in 1..Len(tasks) /\ tasks'[i] = tasks[i]
        BY <3>1, <3>6
      <4>2. tasks[i].do = "recv"
        BY <3>2, <3>6, <4>1 DEF Life
      <4>3. tasks'[j].do = "recv" => j \in 1..Len(tasks) /\ tasks'[j] = tasks[j]
        BY <1>4, <3>1
      <4> QED
        BY <3>6, <4>1, <4>2, <4>3 DEF Order
    <3>7. Order(d)'
      BY <3>4, <3>5, <3>6 DEF Order
    <3> QED
      BY <3>3, <3>7
  <2> QED
    BY <1>2, <2>3, <2>4
<1> QED
  BY <1>5, <1>6

-----------------------------------------------------------------------------
(***************************************************************************)
(* The invariant.                                                          *)
(***************************************************************************)
LEMMA ServerInit == Init => ServerInv
<1> SUFFICES ASSUME Init PROVE ServerInv
  OBVIOUS
<1> USE TcpAssumption DEF Init
<1>1. con \in [Conn -> Connection] /\ seen \in [Conn -> Memory]
  BY DEF Fresh, Unseen, Connection, Memory
<1>2. TypeOK
  BY <1>1, EmptySeq DEF TypeOK
<1>3. Phase /\ Stopped /\ Accepting /\ FaultOnlyAtEnd
  BY DEF Phase, Begun, Stopped, Accepting, FaultOnlyAtEnd, Fresh, Sender
<1>4. ASSUME NEW c \in Conn
      PROVE  Life(c) /\ Order(c)
  <2>1. Len(tasks) = 0
    BY EmptySeq
  <2>2. con[c] = Fresh /\ seen[c] = Unseen /\ accept.conn # c
    OBVIOUS
  <2> QED
    BY <2>1, <2>2 DEF Life, Order, Unposted, Fresh, Unseen
<1> QED
  BY <1>2, <1>3, <1>4 DEF ServerInv, ControlInv

LEMMA ConnStep ==
  ASSUME TypeOK, Accepting, \A c \in Conn : Life(c) /\ Order(c), Step
  PROVE  \A d \in Conn : Life(d)' /\ Order(d)'
<1>1. CASE \/ Main \/ Signal \/ Uninit \/ ReadLine \/ Console \/ UserTimer
           \/ \E s \in Sender : WakeUp(s) \/ PushLate(s)
  BY <1>1, ConnControl
<1>2. CASE Accept
  BY <1>2, ConnControl, ConnAccept DEF Accept
<1>3. CASE Logic
  BY <1>3, ConnControl, ConnLogic DEF Logic
<1>4. CASE \E s \in Sender : Serve(s)
  BY <1>4, ConnServe
<1>5. ASSUME NEW c \in Conn, PeerGoes(c) \/ User(c)
      PROVE  \A d \in Conn : Life(d)' /\ Order(d)'
  BY <1>5, ConnUser, ConnControl DEF User
<1>6. ASSUME NEW c \in Conn, Io(c) \/ HandleWrite(c)
      PROVE  \A d \in Conn : Life(d)' /\ Order(d)'
  BY <1>6, ConnIo, ConnPostRecv, ConnReport, ConnControl DEF Io, Handler
<1> QED
  BY <1>1, <1>2, <1>3, <1>4, <1>5, <1>6 DEF Step

LEMMA ServerStep ==
  ASSUME ServerInv, Next
  PROVE  ServerInv'
<1>1. TypeOK /\ Phase /\ Stopped /\ Accepting /\ \A c \in Conn : Life(c) /\ Order(c)
  BY DEF ServerInv, ControlInv
<1>2. Step /\ fault = "none" /\ gone' \subseteq Conn
  BY DEF Next, Do, Release
<1>3. TypeOK'
  <2>1. Written
    BY <1>1 DEF Written, Life
  <2>2. CASE \/ ReadLine \/ Console \/ Accept \/ UserTimer
             \/ \E s \in Sender : Serve(s) \/ WakeUp(s) \/ PushLate(s)
    BY <1>1, <1>2, <2>2, TypeControl
  <2>3. CASE Main \/ Signal \/ Uninit \/ Logic
    BY <1>1, <1>2, <2>3, TypeMain, TypeLogic
  <2>4. ASSUME NEW c \in Conn, PeerGoes(c) \/ Io(c) \/ HandleWrite(c) \/ User(c)
        PROVE  TypeOK'
    BY <1>1, <1>2, <2>1, <2>4, TypeIo, TypeUser
  <2> QED
    BY <1>2, <2>2, <2>3, <2>4 DEF Step
<1>4. Phase'
  <2>1. CASE Main \/ Signal \/ Uninit \/ Logic
    BY <1>1, <2>1, PhaseControl
  <2>2. CASE ~(Main \/ Signal \/ Uninit \/ Logic)
    BY <1>1, <1>2, <2>2, PhaseRest DEF Step
  <2> QED
    BY <2>1, <2>2
<1>5. Stopped' /\ Accepting'
  BY <1>1, <1>2, StoppedStep, AcceptingStep
<1>6. FaultOnlyAtEnd'
  BY <1>1, <1>2, FaultStep
<1>7. \A c \in Conn : Life(c)' /\ Order(c)'
  BY <1>1, <1>2, ConnStep
<1> QED
  BY <1>3, <1>4, <1>5, <1>6, <1>7 DEF ServerInv, ControlInv

LEMMA ServerStutter == ServerInv /\ UNCHANGED vars => ServerInv'
BY DEF ServerInv, ControlInv, TypeOK, Phase, Begun, Stopped, Accepting, FaultOnlyAtEnd, Life,
       Order, Unposted, vars, ctlVars, procVars, ioVars

(* The inductive invariant: the phase of the server, who may still be in a *)
(* handler, where the accept handler is, and for every connection what can *)
(* still happen to it and what waits for it.                               *)
THEOREM ServerInvariant == Spec => []ServerInv
<1>1. ServerInv /\ [Next]_vars => ServerInv'
  BY ServerStep, ServerStutter
<1> QED
  BY ServerInit, <1>1, PTL DEF Spec

(* Every variable keeps its type: every task is of a connection or of      *)
(* none, and a connection reads and writes no more than there is.          *)
THEOREM TypeCorrect == Spec => []TypeOK
<1>1. ServerInv => TypeOK
  BY DEF ServerInv, ControlInv
<1> QED
  BY ServerInvariant, <1>1, PTL

(* However many operations of a connection fail, and in whatever order its *)
(* handlers, the user's callbacks and uinit run, OnErrors is called for it *)
(* at most once.                                                           *)
THEOREM ReportedAtMostOnce == Spec => []ReportedOnce
<1>1. ServerInv => ReportedOnce
  BY DEF ServerInv, Order, ReportedOnce
<1> QED
  BY ServerInvariant, <1>1, PTL

(* Nothing destroyed is used while the server runs, but for the write of a *)
(* connection without an owner; after ios.stop, only the handlers it found *)
(* at work meet the freed processor.                                       *)
THEOREM FaultsAreAtTheEnd == Spec => []FaultOnlyAtEnd
<1>1. ServerInv => FaultOnlyAtEnd
  BY DEF ServerInv
<1> QED
  BY ServerInvariant, <1>1, PTL

(* OnRecvMsg gets the messages of a peer in their order and once, after    *)
(* OnLogin ran or was refused, and before the OnErrors of the connection.  *)
THEOREM RecvIsInOrder == Spec => RecvInOrder
<1> DEFINE InOrder ==
      \A c \in Conn :
        seen'[c].last # seen[c].last =>
          /\ seen'[c].last > seen[c].last
          /\ seen[c].login \/ seen[c].refused
          /\ seen[c].errors = 0
<1>1. ServerInv /\ [Next]_vars => [InOrder]_vars
  <2> SUFFICES ASSUME ServerInv, Next PROVE InOrder
    BY DEF vars
  <2>1. TypeOK /\ \A c \in Conn : Order(c)
    BY DEF ServerInv, ControlInv
  <2>2. CASE DealRecv
    <3> SUFFICES ASSUME NEW c \in Conn, seen'[c].last # seen[c].last
                 PROVE  /\ seen'[c].last > seen[c].last
                        /\ seen[c].login \/ seen[c].refused
                        /\ seen[c].errors = 0
      OBVIOUS
    <3>1. /\ Head(tasks) = tasks[1] /\ tasks[1].do = "recv" /\ 1 \in 1..Len(tasks)
      BY <2>1, <2>2, LenProperties, EmptySeq DEF DealRecv, TypeOK
    <3>2. tasks[1].conn = c /\ seen'[c].last = tasks[1].n
      BY <2>1, <2>2, <3>1, Records DEF DealRecv, Memory
    <3> QED
      BY <2>1, <3>1, <3>2 DEF Order
  <2>3. CASE ~DealRecv
    <3>1. \A c \in Conn : seen'[c].last = seen[c].last
      <4>1. CASE UninitStop \/ FirstRecv \/ DealError \/ \E s \in Sender : Serve(s)
        <5>1. CASE UninitStop
          BY <2>1, <5>1, Records DEF UninitStop, Memory
        <5>2. CASE FirstRecv
          BY <2>1, <5>2, Records DEF FirstRecv, Memory
        <5>3. CASE DealError
          BY <2>1, <5>3, Records DEF DealError, Memory
        <5>4. CASE \E s \in Sender : Serve(s)
          BY <2>1, <5>4, Records DEF Serve, Memory
        <5> QED
          BY <4>1, <5>1, <5>2, <5>3, <5>4
      <4>2. ASSUME NEW c \in Conn,
                   CloseOnError(c) \/ UserClose(c) \/ UserSend(c) \/ ConnectServer(c)
            PROVE  \A d \in Conn : seen'[d].last = seen[d].last
        BY <2>1, <4>2, Records DEF CloseOnError, UserClose, UserSend, ConnectServer, Memory
      <4>3. CASE \/ Main \/ Signal \/ ReadLine \/ Console \/ UserTimer
                 \/ Uninit /\ ~UninitStop
                 \/ Accept /\ ~FirstRecv
                 \/ ProcessorEnds
                 \/ \E s \in Sender : WakeUp(s) \/ PushLate(s)
        BY <4>3 DEF Main, InitServer, InitFails, RunServer, MainEnds, MainJoins, Signal, ReadLine,
                    Console, SendCommand, CommandDone, UserTimer, Uninit, UninitClose, UninitThrows,
                    UninitTimer, UninitFree, UninitNull, Accept, Accepted, AcceptFails, BindConn,
                    SendLogin, ProcessorEnds, WakeUp, PushLate
      <4>4. ASSUME NEW c \in Conn,
                   \/ PeerGoes(c) \/ ReadDone(c) \/ HandleRead(c) \/ PostRecv(c) \/ RecvAgain(c)
                   \/ Report(c) \/ WriteDead(c) \/ HandleWrite(c) \/ UserDrops(c)
            PROVE  seen' = seen
        BY <4>4 DEF PeerGoes, ReadDone, HandleRead, PostRecv, RecvAgain, Report, WriteDead,
                    HandleWrite, UserDrops
      <4>5. Step
        BY DEF Next, Do
      <4>6. CASE Logic
        BY <2>3, <4>1, <4>3, <4>6 DEF Logic
      <4>7. CASE \E c \in Conn : PeerGoes(c) \/ Io(c) \/ HandleWrite(c) \/ User(c)
        BY <4>2, <4>4, <4>7 DEF Io, Handler, User
      <4> QED
        BY <4>1, <4>3, <4>5, <4>6, <4>7 DEF Step
    <3> QED
      BY <3>1
  <2> QED
    BY <2>2, <2>3
<1>2. RecvInOrder <=> [][InOrder]_vars
  BY PTL DEF RecvInOrder
<1> HIDE DEF InOrder
<1> QED
  BY ServerInvariant, <1>1, <1>2, PTL DEF Spec
=============================================================================
