------------------------------- MODULE Bridge -------------------------------
(***************************************************************************)
(* One 698 bridge (bridge.Conn): the serve goroutine, which dials the      *)
(* master, logs in, sends heartbeats and dials again; a recv goroutine for *)
(* every dial; the terminal's handler that calls Send; and the caller of   *)
(* Stop.  They share the status word, the isExit flag, the stopped channel *)
(* and, under the mutex, the current connection and the login waiter.      *)
(*                                                                         *)
(* A link is one TCP connection to the master.  Its identity is used again *)
(* when nobody holds it any more, which keeps the model finite without a   *)
(* bound on the number of reconnections.                                   *)
(***************************************************************************)
EXTENDS Naturals

CONSTANTS
  Link,          (* the TCP connections that can be held at the same time  *)
  NoLink,        (* c.conn == nil                                          *)
  MaxUnAck,      (* heartbeats without an answer before giving up: 3       *)
  MaxAcks,       (* bound on the acknowledges that one Read returns        *)
  Sending        (* whether the terminal has frames for the master         *)

ASSUME BridgeAssumption == NoLink \notin Link /\ MaxUnAck \in Nat /\ MaxAcks \in Nat
                           /\ Sending \in BOOLEAN

VARIABLES
  conn,       (* the field conn                                            *)
  sock,       (* sock[l]: open, hungup (by the master) or closed           *)
  status,     (* unConnect, tcpConnectOK, loginOK or exitRequest           *)
  isExit,     (* the flag that Stop sets                                   *)
  stopped,    (* the channel stopped is closed                             *)
  waiting,    (* loginWaitCh # nil                                         *)
  ack,        (* the login's channel holds a notification                  *)
  heartUnAck,
  serve,      (* where serve is                                            *)
  nc,         (* the link that serve's current login or heartbeat uses     *)
  recv,       (* recv[l]: where the recv goroutine started for l is        *)
  reads,      (* reads[l]: the link it reads from                          *)
  acks,       (* acks[l]: acknowledges of its last Read not yet handled    *)
  sender,     (* where the Send of the terminal's handler is               *)
  sends,      (* the link it writes to                                     *)
  stopper     (* where Stop is                                             *)

linkVars  == <<conn, sock, status, waiting>>
stopVars  == <<isExit, stopped, stopper>>
serveVars == <<serve, nc>>
recvVars  == <<recv, reads, acks>>
sendVars  == <<sender, sends>>
vars      == <<linkVars, ack, heartUnAck, stopVars, serveVars, recvVars, sendVars>>

Init ==
  /\ conn = NoLink
  /\ sock = [l \in Link |-> "closed"]
  /\ status = "unConnect"
  /\ isExit = FALSE /\ stopped = FALSE
  /\ waiting = FALSE
  /\ ack = FALSE
  /\ heartUnAck = 0
  /\ serve = "pause" /\ nc = NoLink
  /\ recv = [l \in Link |-> "done"] /\ reads = [l \in Link |-> NoLink]
  /\ acks = [l \in Link |-> 0]
  /\ sender = "idle" /\ sends = NoLink
  /\ stopper = "none"

Serve(l) == serve' = l

(* Mutant: the socket is not closed. *)
disConnectForgets ==
  IF conn = NoLink THEN UNCHANGED linkVars
  ELSE /\ conn' = NoLink
       /\ status' = "unConnect"
       /\ waiting' = FALSE
       /\ UNCHANGED sock

(* disConnectServer: nothing without a connection; all of it under mu.  It *)
(* also sends a logout frame if the status is loginOK, and cancels the     *)
(* login in progress, which only shortens a wait that may end at any time. *)
disConnectServer ==
  IF conn = NoLink THEN UNCHANGED linkVars
  ELSE /\ conn' = NoLink
       /\ status' = "unConnect"
       /\ waiting' = FALSE
       /\ sock' = [sock EXCEPT ![conn] = "closed"]

-----------------------------------------------------------------------------
(* The master *)

HangUp(l) ==
  /\ sock[l] = "open"
  /\ sock' = [sock EXCEPT ![l] = "hungup"]
  /\ UNCHANGED <<conn, status, waiting, ack, heartUnAck, stopVars,
                 serveVars, recvVars, sendVars>>

-----------------------------------------------------------------------------
(* serve: dialling *)

(* The second before every dial; Stop interrupts it. *)
Pause ==
  /\ serve = "pause"
  /\ \/ Serve("checkExit")
     \/ stopped /\ Serve("leave")
  /\ UNCHANGED <<linkVars, ack, heartUnAck, stopVars, nc, recvVars, sendVars>>

CheckExit ==
  /\ serve = "checkExit"
  /\ Serve(IF isExit THEN "leave" ELSE "redial")
  /\ UNCHANGED <<linkVars, ack, heartUnAck, stopVars, nc, recvVars, sendVars>>

(* connectServer drops what is left of the last connection, dials ... *)
Redial ==
  /\ serve = "redial"
  /\ disConnectServer
  /\ Serve("dial")
  /\ UNCHANGED <<ack, heartUnAck, stopVars, nc, recvVars, sendVars>>

Held(l) == \/ conn = l \/ recv[l] # "done" \/ sends = l
           \/ \E m \in Link : reads[m] = l

DialFails ==
  /\ serve = "dial"
  /\ Serve("backoff")
  /\ UNCHANGED <<linkVars, ack, heartUnAck, stopVars, nc, recvVars, sendVars>>

(* ... and publishes the connection under mu, ... *)
Dial(l) ==
  /\ serve = "dial" /\ ~Held(l)
  /\ conn' = l
  /\ sock' = [sock EXCEPT ![l] = "open"]
  /\ Serve("dialled") /\ nc' = l
  /\ UNCHANGED <<status, waiting, ack, heartUnAck, stopVars,
                 recvVars, sendVars>>

(* ... and after it sets the status and starts recv. *)
Dialled ==
  /\ serve = "dialled"
  /\ status' = "tcpConnectOK"
  /\ recv' = [recv EXCEPT ![nc] = "top"]
  /\ Serve("login")
  /\ UNCHANGED <<conn, sock, waiting, ack, heartUnAck, stopVars,
                 nc, reads, acks, sendVars>>

Backoff ==
  /\ serve = "backoff"
  /\ \/ Serve("pause")
     \/ stopped /\ Serve("leave")
  /\ UNCHANGED <<linkVars, ack, heartUnAck, stopVars, nc, recvVars, sendVars>>

-----------------------------------------------------------------------------
(* serve: login *)

Login ==
  /\ serve = "login"
  /\ waiting' = TRUE /\ ack' = FALSE
  /\ nc' = conn
  /\ Serve(IF conn = NoLink THEN "loginFailed" ELSE "loginWrite")
  /\ UNCHANGED <<conn, sock, status, heartUnAck, stopVars, recvVars, sendVars>>

LoginWrite ==
  /\ serve = "loginWrite"
  /\ \/ sock[nc] # "closed" /\ Serve("loginWait")
     \/ sock[nc] # "open" /\ Serve("loginFailed")
  /\ nc' = NoLink
  /\ UNCHANGED <<linkVars, ack, heartUnAck, stopVars, recvVars, sendVars>>

(* Any branch that is ready, and the five seconds may be over at any time. *)
LoginWait ==
  /\ serve = "loginWait"
  /\ \/ Serve("loginFailed") /\ UNCHANGED ack
     \/ ack /\ Serve("loginAcked") /\ ack' = FALSE
  /\ UNCHANGED <<linkVars, heartUnAck, stopVars, nc, recvVars, sendVars>>

(* The status is set whatever has happened since the channel was read. *)
LoginAcked ==
  /\ serve = "loginAcked"
  /\ status' = "loginOK"
  /\ Serve("loginEnds")
  /\ UNCHANGED <<conn, sock, waiting, ack, heartUnAck, stopVars, nc,
                 recvVars, sendVars>>

(* Mutant: the counter of the last login is kept. *)
LoginEndsKeepsCount ==
  /\ serve = "loginEnds"
  /\ waiting' = FALSE /\ ack' = FALSE
  /\ Serve("heartWait")
  /\ UNCHANGED <<conn, sock, status, heartUnAck, stopVars, nc, recvVars, sendVars>>

(* The deferred clean-up, then the counter is reset. *)
LoginEnds ==
  /\ serve = "loginEnds"
  /\ waiting' = FALSE /\ ack' = FALSE
  /\ heartUnAck' = 0
  /\ Serve("heartWait")
  /\ UNCHANGED <<conn, sock, status, stopVars, nc, recvVars, sendVars>>

(* Mutant: a failed login leaves the connection to the next dial. *)
LoginFailedKeeps ==
  /\ serve = "loginFailed"
  /\ waiting' = FALSE /\ ack' = FALSE
  /\ Serve("retryWait")
  /\ UNCHANGED <<conn, sock, status, heartUnAck, stopVars, nc, recvVars,
                 sendVars>>

(* The same clean-up, then disConnectServer. *)
LoginFailed ==
  /\ serve = "loginFailed"
  /\ conn' = NoLink
  /\ sock' = IF conn = NoLink THEN sock ELSE [sock EXCEPT ![conn] = "closed"]
  /\ status' = IF conn = NoLink THEN status ELSE "unConnect"
  /\ waiting' = FALSE /\ ack' = FALSE
  /\ Serve("retryWait")
  /\ UNCHANGED <<heartUnAck, stopVars, nc, recvVars, sendVars>>

(* Stop ends serve here without another disConnectServer. *)
RetryWait ==
  /\ serve = "retryWait"
  /\ \/ Serve("pause")
     \/ stopped /\ Serve("exit")
  /\ UNCHANGED <<linkVars, ack, heartUnAck, stopVars, nc, recvVars, sendVars>>

-----------------------------------------------------------------------------
(* serve: heartbeats *)

(* The steps of a heartbeat period: each ends early on Stop, and the       *)
(* period ends early when the login is lost.                               *)
HeartWait ==
  /\ serve = "heartWait"
  /\ \/ stopped /\ Serve("leave")
     \/ Serve(IF status # "loginOK" \/ isExit THEN "giveUp" ELSE "heart")
  /\ UNCHANGED <<linkVars, ack, heartUnAck, stopVars, nc, recvVars, sendVars>>

(* Mutant: heartbeats go on for ever without an answer. *)
HeartForEver ==
  /\ serve = "heart"
  /\ heartUnAck' = IF heartUnAck < MaxUnAck THEN heartUnAck + 1 ELSE heartUnAck
  /\ Serve(IF conn = NoLink THEN "heartWait" ELSE "heartWrite")
  /\ nc' = conn
  /\ UNCHANGED <<linkVars, ack, stopVars, recvVars, sendVars>>

(* One more heartbeat without an answer, unless there are too many. *)
Heart ==
  /\ serve = "heart"
  /\ heartUnAck' = heartUnAck + 1
  /\ IF heartUnAck + 1 > MaxUnAck THEN Serve("giveUp") /\ UNCHANGED nc
     ELSE /\ nc' = conn
          /\ Serve(IF conn = NoLink THEN "heartWait" ELSE "heartWrite")
  /\ UNCHANGED <<linkVars, ack, stopVars, recvVars, sendVars>>

(* An error of the write is ignored. *)
HeartWrite ==
  /\ serve = "heartWrite"
  /\ Serve("heartWait") /\ nc' = NoLink
  /\ UNCHANGED <<linkVars, ack, heartUnAck, stopVars, recvVars, sendVars>>

GiveUp ==
  /\ serve = "giveUp"
  /\ disConnectServer
  /\ Serve("gaveUp")
  /\ UNCHANGED <<ack, heartUnAck, stopVars, nc, recvVars, sendVars>>

GaveUp ==
  /\ serve = "gaveUp"
  /\ Serve(IF isExit THEN "exit" ELSE "pause")
  /\ UNCHANGED <<linkVars, ack, heartUnAck, stopVars, nc, recvVars, sendVars>>

Leave ==
  /\ serve = "leave"
  /\ disConnectServer
  /\ Serve("exit")
  /\ UNCHANGED <<ack, heartUnAck, stopVars, nc, recvVars, sendVars>>

-----------------------------------------------------------------------------
(* recv *)

Recv(l, p) == recv' = [recv EXCEPT ![l] = p]

(* The loop reads the field again: it may find another link by now. *)
RecvTop(l) ==
  /\ recv[l] = "top"
  /\ Recv(l, IF conn = NoLink THEN "done" ELSE "read")
  /\ reads' = [reads EXCEPT ![l] = conn]
  /\ UNCHANGED <<linkVars, ack, heartUnAck, stopVars, serveVars, acks, sendVars>>

(* Read returns n acknowledges; what else it returns is data for the       *)
(* terminal.                                                               *)
RecvFrames(l, n) ==
  /\ recv[l] = "read" /\ sock[reads[l]] = "open"
  /\ Recv(l, IF n > 0 THEN "ack" ELSE "top")
  /\ acks' = [acks EXCEPT ![l] = n]
  /\ UNCHANGED <<linkVars, ack, heartUnAck, stopVars, serveVars, reads, sendVars>>

RecvFails(l) ==
  /\ recv[l] = "read" /\ sock[reads[l]] # "open"
  /\ Recv(l, "failed")
  /\ UNCHANGED <<linkVars, ack, heartUnAck, stopVars, serveVars, reads, acks, sendVars>>

(* cbRecvPacket decides by the status alone what is acknowledged. *)
RecvAck(l) ==
  /\ recv[l] = "ack"
  /\ heartUnAck' = IF status = "loginOK" THEN 0 ELSE heartUnAck
  /\ Recv(l, IF status = "tcpConnectOK" THEN "signal" ELSE "handled")
  /\ UNCHANGED <<linkVars, ack, stopVars, serveVars, reads, acks, sendVars>>

(* signalLoginAck: nothing without a waiter or if the channel is full. *)
RecvSignal(l) ==
  /\ recv[l] = "signal"
  /\ ack' = (ack \/ waiting)
  /\ Recv(l, "handled")
  /\ UNCHANGED <<linkVars, heartUnAck, stopVars, serveVars, reads, acks, sendVars>>

(* Every frame of the Read is handled before the field is read again. *)
RecvHandled(l) ==
  /\ recv[l] = "handled"
  /\ acks' = [acks EXCEPT ![l] = @ - 1]
  /\ Recv(l, IF acks[l] > 1 THEN "ack" ELSE "top")
  /\ UNCHANGED <<linkVars, ack, heartUnAck, stopVars, serveVars, reads, sendVars>>

(* Whatever connection there is now is dropped. *)
RecvEnds(l) ==
  /\ recv[l] = "failed"
  /\ disConnectServer
  /\ recv' = [recv EXCEPT ![l] = "done"]
  /\ reads' = [reads EXCEPT ![l] = NoLink]
  /\ UNCHANGED <<ack, heartUnAck, stopVars, serveVars, acks, sendVars>>

-----------------------------------------------------------------------------
(* Send, by the handler of the terminal's frames *)

SendBegins ==
  /\ Sending /\ sender = "idle" /\ status = "loginOK"
  /\ sender' = "get"
  /\ UNCHANGED <<linkVars, ack, heartUnAck, stopVars, serveVars, recvVars, sends>>

(* Without a connection the frame is lost and Send returns nil. *)
SendGets ==
  /\ sender = "get"
  /\ sender' = IF conn = NoLink THEN "idle" ELSE "write"
  /\ sends' = conn
  /\ UNCHANGED <<linkVars, ack, heartUnAck, stopVars, serveVars, recvVars>>

SendWrites ==
  /\ sender = "write"
  /\ \/ sock[sends] # "closed" /\ sender' = "idle"
     \/ sock[sends] # "open" /\ sender' = "failed"
  /\ sends' = NoLink
  /\ UNCHANGED <<linkVars, ack, heartUnAck, stopVars, serveVars, recvVars>>

SendFails ==
  /\ sender = "failed"
  /\ disConnectServer
  /\ sender' = "idle"
  /\ UNCHANGED <<ack, heartUnAck, stopVars, serveVars, recvVars, sends>>

-----------------------------------------------------------------------------
(* Stop *)

StopFlag ==
  /\ stopper = "none"
  /\ isExit' = TRUE
  /\ stopper' = "status"
  /\ UNCHANGED <<linkVars, ack, heartUnAck, stopped, serveVars, recvVars, sendVars>>

StopStatus ==
  /\ stopper = "status"
  /\ status' = "exitRequest"
  /\ stopper' = "close"
  /\ UNCHANGED <<conn, sock, waiting, ack, heartUnAck, isExit, stopped,
                 serveVars, recvVars, sendVars>>

StopClose ==
  /\ stopper = "close"
  /\ stopped' = TRUE
  /\ stopper' = "disconnect"
  /\ UNCHANGED <<linkVars, ack, heartUnAck, isExit, serveVars, recvVars, sendVars>>

StopDisconnect ==
  /\ stopper = "disconnect"
  /\ disConnectServer
  /\ stopper' = "done"
  /\ UNCHANGED <<ack, heartUnAck, isExit, stopped, serveVars, recvVars, sendVars>>

-----------------------------------------------------------------------------
ServeWaits == Pause \/ Backoff \/ RetryWait \/ HeartWait
ServeSteps == \/ ServeWaits \/ CheckExit \/ Redial
              \/ DialFails \/ (\E l \in Link : Dial(l)) \/ Dialled
              \/ Login \/ LoginWrite \/ LoginWait \/ LoginAcked \/ LoginEnds
              \/ LoginFailed \/ Heart \/ GiveUp \/ GaveUp \/ Leave
RecvSteps(l) == RecvTop(l) \/ RecvFails(l) \/ RecvAck(l) \/ RecvSignal(l)
                \/ RecvHandled(l) \/ RecvEnds(l)
RecvNext(l)  == RecvSteps(l) \/ \E n \in 0..MaxAcks : RecvFrames(l, n)
SendNext == SendBegins \/ SendGets \/ SendWrites \/ SendFails
StopEnds == StopStatus \/ StopClose \/ StopDisconnect

Next == \/ ServeSteps \/ HeartWrite \/ SendNext \/ StopFlag \/ StopEnds
        \/ \E l \in Link : HangUp(l) \/ RecvNext(l)

Spec == Init /\ [][Next]_vars

(* Timers expire, the dial has a timeout and the first write on a new      *)
(* connection finds its buffer empty; any other write may block for as     *)
(* long as the connection is open, and returns when it is not.  Frames     *)
(* need not arrive, the terminal need not send, and Stop may never come.   *)
Fairness ==
  /\ WF_vars(ServeSteps)
  /\ WF_vars(serve = "heartWrite" /\ sock[nc] # "open" /\ HeartWrite)
  /\ \A l \in Link : WF_vars(RecvSteps(l))
  /\ WF_vars(SendGets \/ SendFails)
  /\ WF_vars(sender = "write" /\ sock[sends] # "open" /\ SendWrites)
  /\ WF_vars(StopEnds)
FairSpec == Spec /\ Fairness

-----------------------------------------------------------------------------
(* Types. *)
TypeOK ==
  /\ conn \in Link \cup {NoLink}
  /\ sock \in [Link -> {"open", "hungup", "closed"}]
  /\ status \in {"unConnect", "tcpConnectOK", "loginOK", "exitRequest"}
  /\ isExit \in BOOLEAN /\ stopped \in BOOLEAN
  /\ waiting \in BOOLEAN
  /\ ack \in BOOLEAN
  /\ heartUnAck \in 0 .. MaxUnAck + 1
  /\ serve \in {"pause", "checkExit", "redial", "dial", "dialled", "backoff", "login",
                "loginWrite", "loginWait", "loginAcked", "loginEnds", "loginFailed",
                "retryWait", "heartWait", "heart", "heartWrite", "giveUp", "gaveUp",
                "leave", "exit"}
  /\ nc \in Link \cup {NoLink}
  /\ recv \in [Link -> {"done", "top", "read", "ack", "signal", "handled", "failed"}]
  /\ reads \in [Link -> Link \cup {NoLink}]
  /\ acks \in [Link -> 0..MaxAcks]
  /\ sender \in {"idle", "get", "write", "failed"}
  /\ sends \in Link \cup {NoLink}
  /\ stopper \in {"none", "status", "close", "disconnect", "done"}

(* Four goroutines drop connections and one dials: whichever comes first,  *)
(* no socket is open that the field does not name, so the bridge never     *)
(* holds two connections to the master (bridge.go:139-176).                *)
OneSocket == \A l \in Link : sock[l] \in {"open", "hungup"} => conn = l

(* However serve returns, it leaves no connection behind (bridge.go:404-   *)
(* 476): two of its five exits do not disconnect themselves.               *)
ExitReleases == serve = "exit" => conn = NoLink

(* Stop ends every goroutine of the bridge and closes its connection, also *)
(* if it comes while serve dials or logs in, when Stop itself finds no     *)
(* connection to close (bridge.go:92-97).                                  *)
StopEndsBridge ==
  isExit ~> serve = "exit" /\ conn = NoLink /\ \A l \in Link : recv[l] = "done"

(* A connection the master has closed is closed on this side too. *)
HungupClosed == \A l \in Link : sock[l] = "hungup" ~> sock[l] # "hungup"

(* If the master keeps reading, so that heartbeats are written, then each  *)
(* is answered or the connection is given up (bridge.go:465-471).          *)
HeartbeatAnswered ==
  WF_vars(HeartWrite) => (heartUnAck > 0 ~> heartUnAck = 0 \/ conn = NoLink)

(* Without a connection the status does not stay loginOK ("logged in",     *)
(* docs/WEB_SPEC.md:141), a state in which Send loses frames and reports   *)
(* no error.  login sets it after the connection may have been dropped     *)
(* (bridge.go:228-229), and disConnectServer then leaves it alone.         *)
LostLoginEnds ==
  status = "loginOK" /\ conn = NoLink ~> status # "loginOK" \/ serve = "exit"
=============================================================================
