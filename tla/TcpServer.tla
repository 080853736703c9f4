------------------------------ MODULE TcpServer ------------------------------
(***************************************************************************)
(* CTcpServer, CTcpConnect and CFrameWork (src/tcp_server.cpp,             *)
(* src/tcp_connect.cpp, src/frame_work.cpp) with the io services they run  *)
(* on and the logical processor they hand the user's callbacks to.         *)
(*                                                                         *)
(* Who runs: main; the console thread (doCmd); the io thread of the        *)
(* acceptor; one io thread for each connection, as when there are enough   *)
(* of them; the signal handler, which is uinit on an io thread; and the    *)
(* logical processor, of which is left: posts in their order; a SendTask   *)
(* refused at once when the processor stops, or pushed, and answered if    *)
(* its task runs before the thread ends.                                   *)
(*                                                                         *)
(* A connection is the memory of one CTcpConnect and is not used twice.    *)
(* It is destroyed in the step that releases its last ConnectPtr.  A use   *)
(* of something destroyed is recorded in fault and ends the behaviour.     *)
(***************************************************************************)
EXTENDS Integers, Sequences, FiniteSets

CONSTANTS
  Conn,      \* the connections
  None,      \* no connection, or a ConnectPtr that is NULL
  MaxMsg,    \* bound on the messages of a peer
  MaxWrite   \* bound on the SendMsg calls for a connection

ASSUME TcpAssumption ==
  /\ IsFiniteSet(Conn)
  /\ None \notin Conn
  /\ MaxMsg \in Nat /\ MaxWrite \in Nat

Sender == {"accept", "uinit", "console"}

VARIABLES
  main,     \* where CFrameWork::main is
  state,    \* m_eRuning
  ptr,      \* m_pProcessor is not NULL
  proc,     \* the logical processor
  tasks,    \* its queue of posts
  sent,     \* the SendTask of each sender
  service,  \* the io services: "off", "run", "stopped"
  timer,    \* m_pTimer is not NULL
  acceptor, \* the acceptor is open
  accept,   \* the accept handler: where it is and its connection
  unin,     \* where the signal handler is
  console,  \* where doCmd is
  con,      \* each connection, see Fresh
  user,     \* the connections of which the user keeps a ConnectPtr
  gone,     \* the connections that were destroyed
  fault,    \* "none", or who used what was destroyed
  seen      \* what the properties remember of each connection

procVars == <<ptr, proc, tasks, sent>>
ioVars == <<service, timer, acceptor>>
ctlVars == <<main, state, accept, unin, console>>
vars == <<ctlVars, procVars, ioVars, con, user, gone, fault, seen>>

(* sock: m_socket; peer: the other end; got: messages that were read;      *)
(* read: the async_read; writes: async_writes that are pending; at: where  *)
(* its io thread is; why: the handler that runs there; bound: m_processors *)
(* is not NULL.                                                            *)
Fresh ==
  [sock |-> "none", peer |-> "up", got |-> 0, read |-> "off",
   writes |-> 0, at |-> "idle", why |-> "read", bound |-> FALSE]

(* last: the message OnRecvMsg got last; login, refused: OnLogin ran, or   *)
(* was refused; errors: OnErrors of it; wrote: SendMsgs that started a     *)
(* write; closed: Close was called by the user or for a failed write;      *)
(* caught: ios.stop found the io thread in a handler.                      *)
Unseen ==
  [last |-> 0, login |-> FALSE, refused |-> FALSE, errors |-> 0, wrote |-> 0,
   closed |-> FALSE, caught |-> FALSE]

Init ==
  /\ main = "init" /\ state = "STOPED"
  /\ ptr = FALSE /\ proc = "none" /\ tasks = <<>>
  /\ sent = [s \in Sender |-> "no"]
  /\ service = "off" /\ timer = FALSE /\ acceptor = FALSE
  /\ accept = [at |-> "idle", conn |-> None]
  /\ unin = "no" /\ console = "off"
  /\ con = [c \in Conn |-> Fresh]
  /\ user = {} /\ gone = {} /\ fault = "none"
  /\ seen = [c \in Conn |-> Unseen]

(* The connection's own io thread can start a handler. *)
Ready(c) == service = "run" /\ con[c].at = "idle"

Open(c) == con[c].sock = "open" /\ c \notin gone

(* start_recv: nothing when the socket is closed. *)
StartRecv(r) == IF r.sock = "open" THEN "pending" ELSE "off"

(* Close: shutdown fails when the peer has gone, and leaves it open. *)
Close(r, s) ==
  \/ s = [r EXCEPT !.sock = IF @ = "open" THEN "closed" ELSE @]
  \/ r.peer = "gone" /\ s = r

(* Mistake: posts are taken from the wrong end. *)
Post_AtFront(task) ==
  CASE proc = "runs" -> tasks' = <<task>> \o tasks /\ fault' = fault
    [] proc \in {"stopping", "ended"} -> UNCHANGED <<tasks, fault>>
    [] OTHER -> tasks' = tasks /\ fault' = "handler"

(* PostTask by a handler: refused once the processor stops. *)
Post(task) ==
  CASE proc = "runs" -> tasks' = Append(tasks, task) /\ fault' = fault
    [] proc \in {"stopping", "ended"} -> UNCHANGED <<tasks, fault>>
    [] OTHER -> tasks' = tasks /\ fault' = "handler"

(* doStartAccept, the end of the accept handler: nothing is accepted any   *)
(* more when there is no memory for the connection.                        *)
StartAccept == \E a \in {"pending", "idle"} : accept' = [at |-> a, conn |-> None]

(* SendTask begins with the test of m_eState: a processor that stops       *)
(* refuses at once.  Through a NULL or a dangling pointer it is a fault.   *)
(* A sender that is past the test has "asked": it pushes its task sooner   *)
(* or later, and waits without a limit.                                    *)
Send(s) ==
  IF ptr /\ proc # "freed"
    THEN /\ sent' = [sent EXCEPT ![s] = IF proc = "runs" THEN "asked" ELSE "false"]
         /\ fault' = fault
    ELSE sent' = sent /\ fault' = s

Answered(s) == sent[s] \in {"true", "false"}
Forget(s) == sent' = [sent EXCEPT ![s] = "no"]

-----------------------------------------------------------------------------
(***************************************************************************)
(* main: init, run, which returns when every io thread has ended, uinit.   *)
(***************************************************************************)
InitServer ==
  /\ main = "init"
  /\ main' = "run" /\ state' = "INITED"
  /\ ptr' = TRUE /\ proc' = "runs" /\ timer' = TRUE /\ acceptor' = TRUE
  /\ console' = "read"
  /\ UNCHANGED <<tasks, sent, service, accept, unin, con, user, fault, seen>>

(* The port cannot be bound: the processor is freed, its pointer kept. *)
InitFails ==
  /\ main = "init"
  /\ main' = "done"
  /\ ptr' = TRUE /\ proc' = "freed"
  /\ UNCHANGED <<state, tasks, sent, ioVars, accept, unin, console, con, user,
                 fault, seen>>

RunServer ==
  /\ main = "run"
  /\ main' = "wait" /\ service' = "run"
  /\ StartAccept
  /\ UNCHANGED <<state, procVars, timer, acceptor, unin, console, con, user,
                 fault, seen>>

IoEnded ==
  /\ service = "stopped" /\ unin = "done" /\ accept.at \in {"idle", "pending"}
  /\ \A c \in Conn : con[c].at = "idle"

(* The uinit of main finds the server stopped, then the console is joined. *)
MainEnds ==
  /\ main = "wait" /\ IoEnded /\ state = "STOPED"
  /\ main' = "join"
  /\ UNCHANGED <<state, procVars, ioVars, accept, unin, console, con, user,
                 fault, seen>>

MainJoins ==
  /\ main = "join" /\ console = "off"
  /\ main' = "done"
  /\ UNCHANGED <<state, procVars, ioVars, accept, unin, console, con, user,
                 fault, seen>>

-----------------------------------------------------------------------------
(***************************************************************************)
(* uinit, when a signal arrives.                                           *)
(***************************************************************************)
Signal ==
  /\ service = "run" /\ unin = "no" /\ state = "INITED"
  /\ Send("uinit") /\ unin' = "close"
  /\ UNCHANGED <<main, state, ptr, proc, tasks, ioVars, accept, console, con,
                 user, seen>>

UninitClose ==
  /\ unin = "close" /\ Answered("uinit")
  /\ Forget("uinit") /\ acceptor' = FALSE /\ unin' = "stop"
  /\ UNCHANGED <<main, state, ptr, proc, tasks, service, timer, accept, console,
                 con, user, fault, seen>>

(* Mistake: the io services are not stopped. *)
UninitStop_Not ==
  /\ unin = "stop"
  /\ unin' = "timer"
  /\ UNCHANGED <<main, state, procVars, ioVars, accept, console, con, user,
                 fault, seen>>

(* ios.stop: no handler starts any more, those that run are not awaited. *)
UninitStop ==
  /\ unin = "stop"
  /\ service' = "stopped" /\ unin' = "timer"
  /\ seen' = [c \in Conn |-> [seen[c] EXCEPT !.caught = con[c].at # "idle"]]
  /\ UNCHANGED <<main, state, procVars, timer, acceptor, accept, console, con,
                 user, fault>>

(* close throws: the rest is skipped, but the state is set to STOPED. *)
UninitThrows ==
  /\ unin = "close" /\ Answered("uinit")
  /\ Forget("uinit") /\ acceptor' = FALSE /\ unin' = "done"
  /\ state' = "STOPED"
  /\ UNCHANGED <<main, ptr, proc, tasks, service, timer, accept, console, con,
                 user, fault, seen>>

UninitTimer ==
  /\ unin = "timer"
  /\ timer' = FALSE /\ proc' = "stopping" /\ unin' = "free"
  /\ UNCHANGED <<main, state, ptr, tasks, sent, service, acceptor, accept,
                 console, con, user, fault, seen>>

(* FreeProcessor has joined the thread; what is queued is deleted. *)
UninitFree ==
  /\ unin = "free" /\ proc = "ended"
  /\ proc' = "freed" /\ tasks' = <<>> /\ unin' = "null"
  /\ UNCHANGED <<main, state, ptr, sent, ioVars, accept, console, con, user,
                 fault, seen>>

UninitNull ==
  /\ unin = "null"
  /\ ptr' = FALSE /\ state' = "STOPED" /\ unin' = "done"
  /\ UNCHANGED <<main, proc, tasks, sent, ioVars, accept, console, con, user,
                 fault, seen>>

-----------------------------------------------------------------------------
(***************************************************************************)
(* doCmd reads the pointer to the processor twice.                         *)
(***************************************************************************)
ReadLine ==
  /\ console = "read" /\ main \in {"run", "wait", "join"}
  /\ console' = IF main = "join" THEN "off" ELSE IF ptr THEN "use" ELSE "read"
  /\ UNCHANGED <<main, state, procVars, ioVars, accept, unin, con, user, fault,
                 seen>>

SendCommand ==
  /\ console = "use"
  /\ Send("console") /\ console' = "sent"
  /\ UNCHANGED <<main, state, ptr, proc, tasks, ioVars, accept, unin, con, user,
                 seen>>

CommandDone ==
  /\ console = "sent" /\ Answered("console")
  /\ Forget("console") /\ console' = "read"
  /\ UNCHANGED <<main, state, ptr, proc, tasks, ioVars, accept, unin, con, user,
                 fault, seen>>

-----------------------------------------------------------------------------
(***************************************************************************)
(* The accept handler.                                                     *)
(***************************************************************************)
(* A peer connects, and the receive buffer is there or is not. *)
Accepted(c) ==
  /\ accept.at = "pending" /\ service = "run" /\ acceptor
  /\ con[c].sock = "none"
  /\ \/ /\ accept' = [at |-> "bind", conn |-> c]
        /\ con' = [con EXCEPT ![c].sock = "open"]
     \/ /\ StartAccept
        /\ con' = [con EXCEPT ![c].sock = "closed"]
  /\ UNCHANGED <<main, state, procVars, ioVars, unin, console, user, fault, seen>>

(* Errors other than "aborted"; a closed acceptor is one. *)
AcceptFails ==
  /\ accept.at = "pending" /\ service = "run"
  /\ StartAccept
  /\ UNCHANGED <<main, state, procVars, ioVars, unin, console, con, user, fault,
                 seen>>

BindConn ==
  /\ accept.at = "bind"
  /\ con' = [con EXCEPT ![accept.conn].bound = ptr]
  /\ accept' = [accept EXCEPT !.at = "login"]
  /\ UNCHANGED <<main, state, procVars, ioVars, unin, console, user, fault, seen>>

SendLogin ==
  /\ accept.at = "login"
  /\ Send("accept") /\ accept' = [accept EXCEPT !.at = "recv"]
  /\ UNCHANGED <<main, state, ptr, proc, tasks, ioVars, unin, console, con, user,
                 seen>>

(* SendTask has returned, TRUE or FALSE: the first start_recv. *)
FirstRecv ==
  LET c == accept.conn IN
  /\ accept.at = "recv" /\ Answered("accept")
  /\ Forget("accept")
  /\ seen' = [seen EXCEPT ![c].refused = sent["accept"] = "false"]
  /\ con' = [con EXCEPT ![c].read = StartRecv(con[c])]
  /\ StartAccept
  /\ UNCHANGED <<main, state, ptr, proc, tasks, ioVars, unin, console, user, fault>>

-----------------------------------------------------------------------------
(***************************************************************************)
(* The peers and the handlers of a connection.                             *)
(***************************************************************************)
PeerGoes(c) ==
  /\ con[c].sock = "open" /\ con[c].peer = "up"
  /\ con' = [con EXCEPT ![c].peer = "gone"]
  /\ UNCHANGED <<ctlVars, procVars, ioVars, user, fault, seen>>

(* The read completes with the next message of the peer, which may have    *)
(* gone since, or with an error.                                           *)
ReadDone(c) ==
  /\ con[c].read = "pending"
  /\ \/ /\ Open(c) /\ con[c].got < MaxMsg
        /\ con' = [con EXCEPT ![c].read = "data", ![c].got = @ + 1]
     \/ /\ ~Open(c) \/ con[c].peer = "gone"
        /\ con' = [con EXCEPT ![c].read = "error"]
  /\ UNCHANGED <<ctlVars, procVars, ioVars, user, fault, seen>>

HandleRead(c) ==
  /\ Ready(c) /\ con[c].read \in {"data", "error"}
  /\ con' = [con EXCEPT ![c].at = IF con[c].read = "data" THEN "post" ELSE "close",
                        ![c].why = "read"]
  /\ UNCHANGED <<ctlVars, procVars, ioVars, user, fault, seen>>

(* Mistake: the copy is taken from the message after. *)
PostRecv_Next(c) ==
  /\ con[c].at = "post"
  /\ con' = [con EXCEPT ![c].at = "again"]
  /\ con[c].bound
  /\ Post([do |-> "recv", conn |-> c, n |-> con[c].got + 1])
  /\ UNCHANGED <<ctlVars, ptr, proc, sent, ioVars, user, seen>>

(* doRecvMsg is posted, or the copy cannot be allocated and is lost. *)
PostRecv(c) ==
  /\ con[c].at = "post"
  /\ con' = [con EXCEPT ![c].at = "again"]
  /\ \/ con[c].bound /\ Post([do |-> "recv", conn |-> c, n |-> con[c].got])
     \/ UNCHANGED <<tasks, fault>>
  /\ UNCHANGED <<ctlVars, ptr, proc, sent, ioVars, user, seen>>

RecvAgain(c) ==
  /\ con[c].at = "again"
  /\ con' = [con EXCEPT ![c].at = "idle", ![c].read = StartRecv(con[c])]
  /\ UNCHANGED <<ctlVars, procVars, ioVars, user, fault, seen>>

(* handle_write does nothing without an error, and has no ConnectPtr: the  *)
(* connection may have been destroyed.                                     *)
HandleWrite(c) ==
  /\ Ready(c) /\ con[c].writes > 0
  /\ \/ /\ Open(c)
        /\ con' = [con EXCEPT ![c].writes = @ - 1]
        /\ UNCHANGED fault
     \/ /\ ~Open(c) \/ con[c].peer = "gone"
        /\ con' = [con EXCEPT ![c].writes = @ - 1, ![c].at = "close",
                              ![c].why = "write"]
        /\ fault' = IF c \in gone THEN "write" ELSE fault
  /\ UNCHANGED <<ctlVars, procVars, ioVars, user, seen>>

(* handle_error: Close, ... *)
CloseOnError(c) ==
  /\ con[c].at = "close"
  /\ \E s \in {con[c], [con[c] EXCEPT !.sock = "closed"]} :
       /\ Close(con[c], s)
       /\ con' = [con EXCEPT ![c] = [s EXCEPT !.at = "report"]]
  /\ seen' = [seen EXCEPT ![c].closed = @ \/ con[c].why = "write"]
  /\ UNCHANGED <<ctlVars, procVars, ioVars, user, fault>>

Idle(r) == [r EXCEPT !.at = "idle", !.why = "read",
                     !.read = IF r.why = "read" THEN "off" ELSE @]

(* Mistake: nothing is reported when Close has failed. *)
Report_Closed(c) ==
  /\ con[c].at = "report"
  /\ con' = [con EXCEPT ![c] = Idle(@)]
  /\ IF con[c].bound /\ con[c].sock # "open"
       THEN Post([do |-> "error", conn |-> c, n |-> 0])
       ELSE UNCHANGED <<tasks, fault>>
  /\ UNCHANGED <<ctlVars, ptr, proc, sent, ioVars, user, seen>>

(* Mistake: a failed write reports the connection like a failed read.      *)
Report_Both(c) ==
  /\ con[c].at = "report"
  /\ con' = [con EXCEPT ![c] = Idle(@)]
  /\ IF con[c].bound THEN Post([do |-> "error", conn |-> c, n |-> 0])
                     ELSE UNCHANGED <<tasks, fault>>
  /\ UNCHANGED <<ctlVars, ptr, proc, sent, ioVars, user, seen>>

(* ... then the post of OnError.  The ConnectPtr of a write is NULL:       *)
(* ITcpConnect does not derive from enable_shared_from_this, so nothing    *)
(* ever sets the weak pointer that shared_from_this locks.                 *)
Report(c) ==
  /\ con[c].at = "report"
  /\ con' = [con EXCEPT ![c] = Idle(@)]
  /\ IF con[c].bound
       THEN Post([do |-> "error", conn |-> IF con[c].why = "read" THEN c ELSE None,
                  n |-> 0])
       ELSE UNCHANGED <<tasks, fault>>
  /\ UNCHANGED <<ctlVars, ptr, proc, sent, ioVars, user, seen>>

(* The connection was destroyed under its write handler. *)
WriteDead(c) ==
  /\ con[c].at \in {"close", "report"} /\ c \in gone
  /\ fault' = "write"
  /\ UNCHANGED <<ctlVars, procVars, ioVars, con, user, seen>>

-----------------------------------------------------------------------------
(***************************************************************************)
(* The logical processor and the user's callbacks, which run on it.        *)
(***************************************************************************)
Serving == proc \in {"runs", "stopping"}

(* The task of a SendTask runs; OnLogin may keep the connection. *)
Serve(s) ==
  /\ Serving /\ sent[s] = "asked"
  /\ sent' = [sent EXCEPT ![s] = "true"]
  /\ IF s = "accept"
       THEN /\ user' \in {user, user \cup {accept.conn}}
            /\ seen' = [seen EXCEPT ![accept.conn].login = TRUE]
       ELSE UNCHANGED <<user, seen>>
  /\ UNCHANGED <<ctlVars, ptr, proc, tasks, ioVars, con, fault>>

(* The push comes after the processor was destroyed. *)
PushLate(s) ==
  /\ sent[s] = "asked" /\ proc = "freed"
  /\ fault' = s
  /\ UNCHANGED <<ctlVars, procVars, ioVars, con, user, seen>>

(* The wait may end without a reason, which is taken for a timeout. *)
WakeUp(s) ==
  /\ sent[s] = "asked"
  /\ sent' = [sent EXCEPT ![s] = "false"]
  /\ UNCHANGED <<ctlVars, ptr, proc, tasks, ioVars, con, user, fault, seen>>

DealRecv ==
  /\ Serving /\ tasks # <<>> /\ Head(tasks).do = "recv"
  /\ seen' = [seen EXCEPT ![Head(tasks).conn].last = Head(tasks).n]
  /\ tasks' = Tail(tasks)
  /\ UNCHANGED <<ctlVars, ptr, proc, sent, ioVars, con, user, fault>>

(* OnError: the user releases the connection it is told of. *)
DealError ==
  LET c == Head(tasks).conn IN
  /\ Serving /\ tasks # <<>> /\ Head(tasks).do = "error"
  /\ user' = user \ {c}
  /\ seen' = [d \in Conn |->
               IF d = c THEN [seen[d] EXCEPT !.errors = @ + 1] ELSE seen[d]]
  /\ tasks' = Tail(tasks)
  /\ UNCHANGED <<ctlVars, ptr, proc, sent, ioVars, con, fault>>

ProcessorEnds ==
  /\ proc = "stopping" /\ tasks = <<>>
  /\ proc' = "ended"
  /\ UNCHANGED <<ctlVars, ptr, tasks, sent, ioVars, con, user, fault, seen>>

(* What any callback may do with a connection that the user keeps. *)
UserClose(c) ==
  /\ Serving /\ c \in user
  /\ \E s \in {con[c], [con[c] EXCEPT !.sock = "closed"]} :
       Close(con[c], s) /\ con' = [con EXCEPT ![c] = s]
  /\ seen' = [seen EXCEPT ![c].closed = TRUE]
  /\ UNCHANGED <<ctlVars, procVars, ioVars, user, fault>>

UserSend(c) ==
  /\ Serving /\ c \in user /\ Open(c) /\ seen[c].wrote < MaxWrite
  /\ con' = [con EXCEPT ![c].writes = @ + 1]
  /\ seen' = [seen EXCEPT ![c].wrote = @ + 1]
  /\ UNCHANGED <<ctlVars, procVars, ioVars, user, fault>>

UserDrops(c) ==
  /\ Serving /\ c \in user
  /\ user' = user \ {c}
  /\ UNCHANGED <<ctlVars, procVars, ioVars, con, fault, seen>>

(* SetTimer and KillTimer go through m_pTimer. *)
UserTimer ==
  /\ Serving /\ ~timer
  /\ fault' = "timer"
  /\ UNCHANGED <<ctlVars, procVars, ioVars, con, user, seen>>

(* What ConnectServer makes of a connection: it connects and reads, the    *)
(* peer refuses and the socket stays open, the address is none and it was  *)
(* never opened, or there is no buffer and nothing is bound.               *)
Attempts(r) ==
  { [r EXCEPT !.sock = "open", !.bound = ptr, !.read = "pending"],
    [r EXCEPT !.sock = "open", !.bound = ptr, !.peer = "gone"],
    [r EXCEPT !.sock = "closed", !.bound = ptr],
    [r EXCEPT !.sock = "closed"] }

ConnectServer(c) ==
  /\ Serving /\ con[c].sock = "none"
  /\ \E r \in Attempts(con[c]) : con' = [con EXCEPT ![c] = r]
  /\ user' = user \cup {c}
  /\ seen' = [seen EXCEPT ![c].login = TRUE]
  /\ UNCHANGED <<ctlVars, procVars, ioVars, fault>>

-----------------------------------------------------------------------------
(* Who has a ConnectPtr of c: the accept handler, the read and its         *)
(* handler, a task, the user.  Writes have none.                           *)
Held(c) ==
  \/ accept.conn = c
  \/ con[c].read # "off"
  \/ con[c].at # "idle" /\ con[c].why = "read"
  \/ c \in user
  \/ \E i \in DOMAIN tasks : tasks[i].conn = c

(* The last ConnectPtr destroys its connection. *)
Release == gone' = {c \in Conn : con'[c].sock # "none" /\ ~Held(c)'}

Main == InitServer \/ InitFails \/ RunServer \/ MainEnds \/ MainJoins

Uninit ==
  \/ UninitClose \/ UninitThrows \/ UninitStop
  \/ UninitTimer \/ UninitFree \/ UninitNull

Accept ==
  \/ AcceptFails \/ BindConn \/ SendLogin \/ FirstRecv
  \/ \E c \in Conn : Accepted(c)

Console == SendCommand \/ CommandDone

Handler(c) == PostRecv(c) \/ RecvAgain(c) \/ CloseOnError(c) \/ Report(c)

Io(c) == ReadDone(c) \/ HandleRead(c) \/ Handler(c) \/ WriteDead(c)

Logic == DealRecv \/ DealError \/ ProcessorEnds

User(c) == UserClose(c) \/ UserSend(c) \/ UserDrops(c) \/ ConnectServer(c)

Step ==
  \/ Main \/ Signal \/ Uninit \/ ReadLine \/ Console \/ Accept \/ Logic \/ UserTimer
  \/ \E s \in Sender : Serve(s) \/ WakeUp(s) \/ PushLate(s)
  \/ \E c \in Conn : PeerGoes(c) \/ Io(c) \/ HandleWrite(c) \/ User(c)

Do(A) == fault = "none" /\ A /\ Release

Next == Do(Step)

Spec == Init /\ [][Next]_vars

(* Threads that can go on do.  The processor deals with the SendTasks      *)
(* while it serves (SendServed of Processor) and with its posts before it  *)
(* ends (StopDrainsNormal); it answers no SendTask that it left behind,    *)
(* and no wait need end without a reason.  Lines from the console, peers   *)
(* and signals may never come.                                             *)
Fairness ==
  /\ WF_vars(Do(RunServer)) /\ WF_vars(Do(MainEnds))
  /\ WF_vars(Do(Uninit)) /\ WF_vars(Do(Console)) /\ WF_vars(Do(Logic))
  /\ WF_vars(Do(BindConn \/ SendLogin \/ FirstRecv))
  /\ \A s \in Sender : WF_vars(Do(Serve(s)))
  /\ \A c \in Conn : WF_vars(Do(Io(c)))

FairSpec == Spec /\ Fairness

-----------------------------------------------------------------------------
(***************************************************************************)
(* What must hold.                                                         *)
(***************************************************************************)

Task == [do : {"recv", "error"}, conn : Conn \cup {None}, n : 0..MaxMsg]

Connection ==
  [sock : {"none", "open", "closed"}, peer : {"up", "gone"}, got : 0..MaxMsg,
   read : {"off", "pending", "data", "error"}, writes : 0..MaxWrite,
   at : {"idle", "post", "again", "close", "report"}, why : {"read", "write"},
   bound : BOOLEAN]

Memory ==
  [last : 0..MaxMsg, login : BOOLEAN, refused : BOOLEAN, errors : Nat,
   wrote : 0..MaxWrite, closed : BOOLEAN, caught : BOOLEAN]

(* The type invariant. *)
TypeOK ==
  /\ main \in {"init", "run", "wait", "join", "done"}
  /\ state \in {"STOPED", "INITED"}
  /\ ptr \in BOOLEAN /\ timer \in BOOLEAN /\ acceptor \in BOOLEAN
  /\ proc \in {"none", "runs", "stopping", "ended", "freed"}
  /\ tasks \in Seq(Task)
  /\ sent \in [Sender -> {"no", "asked", "true", "false"}]
  /\ service \in {"off", "run", "stopped"}
  /\ accept \in [at : {"idle", "pending", "bind", "login", "recv"},
                 conn : Conn \cup {None}]
  /\ unin \in {"no", "close", "stop", "timer", "free", "null", "done"}
  /\ console \in {"off", "read", "use", "sent"}
  /\ con \in [Conn -> Connection]
  /\ user \subseteq Conn /\ gone \subseteq Conn
  /\ fault \in {"none", "handler", "write", "timer"} \cup Sender
  /\ seen \in [Conn -> Memory]

(* OnRecvMsg gets the messages of a connection in the order in which the   *)
(* peer sent them, each at most once; none before OnLogin has run (the     *)
(* comment of line 195), unless the processor refused to run it, and none  *)
(* after the OnError that tells the end of the connection.                 *)
RecvInOrder ==
  [][\A c \in Conn :
       seen'[c].last # seen[c].last =>
         /\ seen'[c].last > seen[c].last
         /\ seen[c].login \/ seen[c].refused
         /\ seen[c].errors = 0]_vars

(* A connection is reported to the user at most once, whatever closes it   *)
(* and however many of its operations fail.                                *)
ReportedOnce == \A c \in Conn : seen[c].errors <= 1

(* While the server runs, nothing that was destroyed is used, except by    *)
(* the handler of a write whose connection has no owner left.  Afterwards  *)
(* only handlers that ios.stop found running can meet the freed processor, *)
(* next to the accept handler and the console.                             *)
FaultOnlyAtEnd ==
  /\ fault \notin {"none", "write"} => unin \in {"timer", "free", "null", "done"}
  /\ fault = "handler" => \E c \in Conn : seen[c].caught

(* A connection whose peer has gone is reported, unless the user closed    *)
(* it, or a write failed first: its handler closes the socket, and a read  *)
(* that has data by then starts no other, so no read ever fails.           *)
DisconnectReported ==
  \A c \in Conn :
    con[c].peer = "gone" /\ con[c].read # "off" ~>
      seen[c].errors > 0 \/ seen[c].closed \/ unin # "no" \/ fault # "none"

(* The accept handler waits for OnLogin of a processor that has ended. *)
LoginLeft == sent["accept"] = "asked" /\ proc \in {"ended", "freed"}

(* uinit has caught an exception: the timer and what follows it remain. *)
UninitGaveUp == unin = "done" /\ timer

(* After a signal, main reaches the join of the console thread, unless the *)
(* closing of the acceptor throws, and the io services run on, or the      *)
(* accept handler waits for ever on a SendTask that the processor left     *)
(* behind when it ended, and its io thread is never joined.                *)
ShutdownEnds ==
  <>(unin # "no") =>
    \/ <>(main \in {"join", "done"} \/ fault # "none")
    \/ <>UninitGaveUp
    \/ <>[]LoginLeft

(* What frame_work.h says of OnError: it is given the connection whose     *)
(* read or write failed.                                                   *)
ErrorNamesConnection ==
  \A i \in DOMAIN tasks : tasks[i].do = "error" => tasks[i].conn # None
=============================================================================
