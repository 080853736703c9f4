------------------------------- MODULE TcpClient -------------------------------
(***************************************************************************)
(* SimpleTcpClientConnect (src/tcp_client_connect.cpp) and CHttpRequest    *)
(* (src/http_request.cpp): blocking clients, each in a thread of its own,  *)
(* on the descriptors of one process, and the parts of a URL that a        *)
(* request is sent to.                                                     *)
(*                                                                         *)
(* A descriptor that is closed is given out again, also to other parts of  *)
(* the program.  The bytes and the names of hosts are left out; a URL is a *)
(* sequence of characters, and so is a port.                               *)
(***************************************************************************)
EXTENDS Naturals, Sequences, SequencesExt

CONSTANTS
  Client,  \* the clients
  Http,    \* those that belong to a CHttpRequest
  Fd,      \* the descriptors, numbers
  Url,     \* what is requested: scheme, host, port and path
  Other,   \* the other parts of the program
  Unset    \* no descriptor, no owner, no URL

http == <<"h", "t", "t", "p">>
https == <<"h", "t", "t", "p", "s">>
Digits == {"0", "1", "2", "3", "4", "5", "6", "7", "8", "9"}

(* A URL has a host, and its parts are told apart by the colon and the     *)
(* slash.                                                                  *)
Written(u) ==
  /\ u.scheme \in {<<>>, http, https}
  /\ u.host \in Seq(STRING \ {":", "/"}) \ {<<>>}
  /\ u.port \in Seq(Digits)
  /\ u.path \in Seq(STRING) /\ (u.path = <<>> \/ u.path[1] = "/")

ASSUME SocketAssumption ==
  /\ Http \subseteq Client /\ Fd \subseteq Nat
  /\ Unset \notin Client \cup Fd \cup Url \cup {Other} /\ Other \notin Client
  /\ \A u \in Url : Written(u)

VARIABLES
  fd,        \* who has opened each descriptor
  m_socket,  \* of each client, Unset for -1
  at,        \* "none" before its construction; "idle", "send", "recv", "fault"
  url,       \* what a CHttpRequest was asked for
  target,    \* where it sends it: host, port and uri
  stale,     \* clients that have closed the descriptor they name
  again,     \* clients that connected when they were connected
  strayed    \* who first touched a descriptor of another: "no", or whether
             \* it had closed that descriptor: "stale", "fresh"

socketVars == <<fd, m_socket, at, url, target, stale, again, strayed>>

SocketInit ==
  /\ fd = [f \in Fd |-> Unset]
  /\ m_socket = [k \in Client |-> Unset]
  /\ at = [k \in Client |-> "none"]
  /\ url = [k \in Client |-> Unset] /\ target = [k \in Client |-> Unset]
  /\ stale = {} /\ again = {} /\ strayed = "no"

FreeFd == {f \in Fd : fd[f] = Unset}
Lowest == CHOOSE f \in FreeFd : \A g \in FreeFd : f <= g

(* A call is made on the descriptor that k names; one that nobody has      *)
(* opened makes it fail.                                                   *)
Touch(k) ==
  strayed' = IF /\ strayed = "no" /\ m_socket[k] # Unset
                /\ fd[m_socket[k]] \notin {k, Unset}
               THEN IF k \in stale THEN "stale" ELSE "fresh"
               ELSE strayed

-----------------------------------------------------------------------------
(***************************************************************************)
(* SimpleTcpClientConnect.                                                 *)
(***************************************************************************)
NewClient(k) ==
  /\ at[k] = "none"
  /\ at' = [at EXCEPT ![k] = "idle"]
  /\ UNCHANGED <<fd, m_socket, url, target, stale, again, strayed>>

(* socket() gives the lowest free descriptor or fails, and connect() may   *)
(* fail, which closes it.  The socket that k had is not closed.            *)
Connect(k, connected) ==
  /\ \/ /\ ~connected
        /\ m_socket' = [m_socket EXCEPT ![k] = Unset]
        /\ stale' = stale \ {k}
        /\ UNCHANGED fd
     \/ /\ FreeFd # {}
        /\ m_socket' = [m_socket EXCEPT ![k] = Lowest]
        /\ fd' = IF connected THEN [fd EXCEPT ![Lowest] = k] ELSE fd
        /\ stale' = IF connected THEN stale \ {k} ELSE stale \cup {k}
  /\ again' = again \cup {j \in {k} : \E f \in Fd : fd[f] = j}
  /\ UNCHANGED strayed

(* Close leaves m_socket as it is. *)
CloseSocket(k) ==
  /\ Touch(k)
  /\ fd' = [f \in Fd |-> IF f = m_socket[k] THEN Unset ELSE fd[f]]

Close(k) ==
  /\ k \notin Http /\ at[k] = "idle" /\ m_socket[k] # Unset
  /\ CloseSocket(k)
  /\ stale' = stale \cup {k}
  /\ UNCHANGED <<m_socket, at, url, target, again>>

Send(k) ==
  /\ k \notin Http /\ at[k] = "idle" /\ m_socket[k] # Unset
  /\ Touch(k)
  /\ UNCHANGED <<fd, m_socket, at, url, target, stale, again>>

ConnectClient(k) ==
  /\ k \notin Http /\ at[k] = "idle"
  /\ \E connected \in BOOLEAN : Connect(k, connected)
  /\ UNCHANGED <<at, url, target>>

(* Mistake: the destructor does not close the socket. *)
DeleteClient_Open(k) ==
  /\ at[k] = "idle"
  /\ at' = [at EXCEPT ![k] = "none"]
  /\ m_socket' = [m_socket EXCEPT ![k] = Unset]
  /\ stale' = stale \ {k}
  /\ UNCHANGED <<fd, url, target, again, strayed>>

DeleteClient(k) ==
  /\ at[k] = "idle"
  /\ CloseSocket(k)
  /\ at' = [at EXCEPT ![k] = "none"]
  /\ m_socket' = [m_socket EXCEPT ![k] = Unset]
  /\ stale' = stale \ {k}
  /\ UNCHANGED <<url, target, again>>

-----------------------------------------------------------------------------
(***************************************************************************)
(* CHttpRequest.                                                           *)
(***************************************************************************)
(* The first position from i on that is in S, or the one behind the end. *)
FirstIn(s, i, S) ==
  LET found == {j \in i..Len(s) : s[j] \in S}
  IN  IF found = {} THEN Len(s) + 1 ELSE CHOOSE j \in found : \A n \in found : j <= n

Others(s, c) == {s[i] : i \in DOMAIN s} \ {c}

(* Where the scan begins: behind the scheme and its colon, or the slashes. *)
Start(s, more) ==
  CASE IsPrefix(https, s) -> 7 + more
    [] IsPrefix(http, s) /\ ~IsPrefix(https, s) -> 6 + more
    [] OTHER -> 1

(* atoi, with the digits for the number. *)
atoi(s) == SubSeq(s, 1, FirstIn(s, 1, {s[i] : i \in DOMAIN s} \ Digits) - 1)

DefaultPort(s) == IF IsPrefix(https, s) THEN <<"4", "4", "3">> ELSE <<"8", "0">>

GetPort(s) ==
  LET begin == FirstIn(s, Start(s, 0), {":"})
      end == FirstIn(s, begin + 1, {"/"})
  IN  IF end <= Len(s) THEN atoi(SubSeq(s, begin + 1, end)) ELSE DefaultPort(s)

GetUri(s) ==
  LET slash == FirstIn(s, Start(s, 2), {"/"})
  IN  IF slash <= Len(s) THEN SubSeq(s, slash, Len(s)) ELSE <<"/">>

GetHost(s) ==
  LET begin == FirstIn(s, Start(s, 0), Others(s, "/"))
  IN  SubSeq(s, begin, FirstIn(s, begin + 1, {":", "/"}) - 1)

Text(u) ==
  (IF u.scheme = <<>> THEN <<>> ELSE u.scheme \o <<":", "/", "/">>)
    \o u.host \o (IF u.port = <<>> THEN <<>> ELSE <<":">> \o u.port) \o u.path

(* Host2Ip reads what gethostbyname returns, which is NULL for a host that *)
(* it does not know: the request gets no further.                          *)
HostUnknown(k) ==
  /\ k \in Http /\ at[k] = "idle"
  /\ at' = [at EXCEPT ![k] = "fault"]
  /\ UNCHANGED <<fd, m_socket, url, target, stale, again, strayed>>

(* HttpRequestExec: Connect, and when it fails an empty answer; ... *)
HttpRequestExec(k, u) ==
  /\ k \in Http /\ at[k] = "idle"
  /\ url' = [url EXCEPT ![k] = u]
  /\ target' = [target EXCEPT ![k] =
                 [host |-> GetHost(Text(u)), port |-> GetPort(Text(u)),
                  uri |-> GetUri(Text(u))]]
  /\ \E connected \in BOOLEAN :
       /\ Connect(k, connected)
       /\ at' = IF connected THEN [at EXCEPT ![k] = "send"] ELSE at

(* ... Send, whose result is not looked at, ... *)
SendRequest(k) ==
  /\ at[k] = "send"
  /\ Touch(k)
  /\ at' = [at EXCEPT ![k] = "recv"]
  /\ UNCHANGED <<fd, m_socket, url, target, stale, again>>

(* ... and Recv, which only an error ends: at the end of the stream recv   *)
(* returns zero, again and again.                                          *)
RecvFails(k) ==
  /\ at[k] = "recv"
  /\ Touch(k)
  /\ at' = [at EXCEPT ![k] = "idle"]
  /\ UNCHANGED <<fd, m_socket, url, target, stale, again>>

-----------------------------------------------------------------------------
(* The other parts of the program. *)
OtherOpens ==
  /\ FreeFd # {}
  /\ fd' = [fd EXCEPT ![Lowest] = Other]
  /\ UNCHANGED <<m_socket, at, url, target, stale, again, strayed>>

OtherCloses(f) ==
  /\ fd[f] = Other
  /\ fd' = [fd EXCEPT ![f] = Unset]
  /\ UNCHANGED <<m_socket, at, url, target, stale, again, strayed>>

SocketNext ==
  \/ \E k \in Client : \/ NewClient(k) \/ ConnectClient(k) \/ Close(k) \/ Send(k)
                       \/ DeleteClient(k) \/ SendRequest(k) \/ RecvFails(k)
                       \/ HostUnknown(k)
                       \/ \E u \in Url : HttpRequestExec(k, u)
  \/ OtherOpens \/ \E f \in Fd : OtherCloses(f)

SocketSpec == SocketInit /\ [][SocketNext]_socketVars

-----------------------------------------------------------------------------
(***************************************************************************)
(* What must hold.                                                         *)
(***************************************************************************)
(* The type invariant. *)
SocketTypeOK ==
  /\ fd \in [Fd -> Client \cup {Other, Unset}]
  /\ m_socket \in [Client -> Fd \cup {Unset}]
  /\ at \in [Client -> {"none", "idle", "send", "recv", "fault"}]
  /\ url \in [Client -> Url \cup {Unset}]
  /\ stale \subseteq Client /\ again \subseteq Client
  /\ strayed \in {"no", "stale", "fresh"}

(* Nobody touches a descriptor of another before a client has that closed  *)
(* the descriptor itself and still names it (Close, line 253, does not     *)
(* forget it); and a descriptor that its client no longer names is the     *)
(* price of a second Connect (line 236) alone.                             *)
SocketsOwned ==
  /\ strayed # "fresh"
  /\ \A f \in Fd : fd[f] \in Client \ again => m_socket[fd[f]] = f

(* A request goes to what its URL says.  The exceptions are what the scans *)
(* of http_request.cpp take for a scheme or a port: a host that begins     *)
(* with "http", a port at the end of the URL, and a colon in the path.     *)
TargetAsWritten ==
  \A k \in Http :
    LET u == url[k] IN
    u # Unset /\ (u.scheme # <<>> \/ ~IsPrefix(http, u.host)) =>
      /\ target[k].host = u.host
      /\ target[k].uri = IF u.path = <<>> THEN <<"/">> ELSE u.path
      /\ \/ target[k].port = IF u.port = <<>> THEN DefaultPort(u.scheme) ELSE u.port
         \/ u.port # <<>> /\ u.path = <<>>
         \/ u.port = <<>> /\ \E i \in DOMAIN u.path : u.path[i] = ":"

(* What a request is sent on and where it goes. *)
RequestsReachServer == SocketsOwned /\ TargetAsWritten
=============================================================================
